------------------------- MODULE DistributionProofs -------------------------
(***************************************************************************)
(* Proofs about NWDistribution and Distribution: every block has its place *)
(* on a process, no two overlap and the parts are balanced, over the sizes *)
(* of the blocks of any tensor and with the keys they are sorted by; the   *)
(* round-robin distribution the same; an element has one address through   *)
(* the base tensor and its views; and the process grid of a dense tensor   *)
(* has as many places as there are processes.                              *)
(***************************************************************************)
EXTENDS Distribution, Lemmas

-----------------------------------------------------------------------------
(* Products.                                                               *)

LEMMA ProductIs ==
  ASSUME NEW S, IsFiniteSet(S), NEW f
  PROVE  \E F : FoldsUp("product", f, S, F) /\ ProductOn(f, S) = F[S]
  <1> DEFINE Is(G) == G = [s \in SUBSET S |->
                        IF s = {} THEN 1
                        ELSE f[CHOOSE x \in s : TRUE] * G[s \ {CHOOSE x \in s : TRUE}]]
             F == CHOOSE F : Is(F)
  <1>1. ProductOn(f, S) = F[S]
    BY DEF ProductOn, FoldFunctionOnSet, MapThenFoldSet
  <1>2. \A G : FoldsUp("product", f, S, G) <=> Is(G)
    <2>1. Neutral("product") = 1 /\ \A a, b : Combined("product", a, b) = a * b
      BY DEF Neutral, Combined
    <2>2. QED
      BY <2>1 DEF FoldsUp, Some
  <1>3. \E G : FoldsUp("product", f, S, G)
    BY FoldExists
  <1> HIDE DEF Is
  <1>4. FoldsUp("product", f, S, F)
    BY <1>2, <1>3
  <1> HIDE DEF F
  <1>5. QED
    BY <1>1, <1>4

LEMMA ProductUnfold ==
  ASSUME NEW S, IsFiniteSet(S), NEW f
  PROVE  ProductOn(f, S) =
           IF S = {} THEN 1 ELSE f[Some(S)] * ProductOn(f, S \ {Some(S)})
  <1>0. Neutral("product") = 1 /\ \A a, b : Combined("product", a, b) = a * b
    BY DEF Neutral, Combined
  <1>1. PICK F : FoldsUp("product", f, S, F) /\ ProductOn(f, S) = F[S]
    BY ProductIs
  <1>2. CASE S = {}
    BY <1>0, <1>1, <1>2 DEF FoldsUp
  <1>3. CASE S # {}
    <2> DEFINE u == S \ {Some(S)}
    <2>1. IsFiniteSet(u) /\ u \in SUBSET S
      BY FS_Subset
    <2>2. PICK G : FoldsUp("product", f, u, G) /\ ProductOn(f, u) = G[u]
      <3> HIDE DEF u
      <3>1. QED
        BY <2>1, ProductIs
    <2>3. F[u] = G[u]
      BY <1>1, <2>1, <2>2, FoldsAgree
    <2>4. F[S] = f[Some(S)] * F[u]
      BY <1>0, <1>1, <1>3 DEF FoldsUp
    <2>5. QED
      BY <1>1, <1>3, <2>2, <2>3, <2>4
  <1>4. QED
    BY <1>2, <1>3

LEMMA ProductEmpty ==
  ASSUME NEW f
  PROVE  ProductOn(f, {}) = 1
  BY ProductUnfold, FS_EmptySet

\* A product of natural numbers is one, and not 0 if none of them is.
LEMMA ProductNat ==
  ASSUME NEW S, IsFiniteSet(S), NEW f, \A x \in S : f[x] \in Nat
  PROVE  /\ ProductOn(f, S) \in Nat
         /\ (\A x \in S : f[x] # 0) => ProductOn(f, S) # 0
  <1> DEFINE Good(s) == /\ ProductOn(f, s) \in Nat
                        /\ (\A x \in S : f[x] # 0) => ProductOn(f, s) # 0
             Bad == {s \in SUBSET S : ~Good(s)}
  <1> SUFFICES ASSUME Bad # {}
               PROVE  FALSE
    OBVIOUS
  <1>1. PICK s \in Bad : \A u \in Bad : u \subseteq s => u = s
    <2>1. Bad \subseteq SUBSET S
      OBVIOUS
    <2> HIDE DEF Bad
    <2>2. QED
      BY <2>1, SmallestSet
  <1>2. IsFiniteSet(s)
    BY FS_Subset
  <1>3. s # {}
    BY ProductEmpty
  <1> DEFINE u == s \ {Some(s)}
             a == f[Some(s)]
             b == ProductOn(f, u)
  <1>4. u \subseteq s /\ u # s /\ Some(s) \in S /\ a \in Nat
    BY <1>3, SomeOf
  <1>5. Good(u)
    BY <1>1, <1>4
  <1>6. ProductOn(f, s) = a * b
    BY <1>2, <1>3, ProductUnfold
  <1>7. b \in Nat /\ ((\A x \in S : f[x] # 0) => a # 0 /\ b # 0)
    BY <1>4, <1>5
  <1> HIDE DEF a, b, u
  <1>8. a * b \in Nat /\ (a # 0 /\ b # 0 => a * b # 0)
    BY <1>4, <1>7
  <1>9. QED
    BY <1>6, <1>7, <1>8

\* Any factor can be taken out.
LEMMA ProductRemove ==
  ASSUME NEW S, IsFiniteSet(S), NEW f, \A x \in S : f[x] \in Nat, NEW e \in S
  PROVE  ProductOn(f, S) = f[e] * ProductOn(f, S \ {e})
  <1> DEFINE Pr(s) == ProductOn(f, s)
             Bad == {s \in SUBSET S : \E d \in s : Pr(s) # f[d] * Pr(s \ {d})}
  <1> SUFFICES ASSUME Bad # {}
               PROVE  FALSE
    OBVIOUS
  <1>1. PICK s \in Bad : \A u \in Bad : u \subseteq s => u = s
    <2>1. Bad \subseteq SUBSET S
      OBVIOUS
    <2> HIDE DEF Bad
    <2>2. QED
      BY <2>1, SmallestSet
  <1>2. \A t \in SUBSET s : IsFiniteSet(t) /\ Pr(t) \in Nat
    <2>1. \A t \in SUBSET s : IsFiniteSet(t) /\ \A x \in t : f[x] \in Nat
      BY FS_Subset
    <2>2. QED
      BY <2>1, ProductNat
  <1>3. PICK d \in s : Pr(s) # f[d] * Pr(s \ {d})
    OBVIOUS
  <1>4. \A u \in SUBSET s : u # s => \A x \in u : Pr(u) = f[x] * Pr(u \ {x})
    BY <1>1
  <1>5. s \in SUBSET S
    OBVIOUS
  <1> HIDE DEF Bad
  <1> DEFINE p == Some(s)
             v == s \ {d}
  <1>6. p \in s /\ f[p] \in Nat /\ f[d] \in Nat
    BY <1>5, SomeOf
  <1>7. Pr(s) = f[p] * Pr(s \ {p})
    BY <1>2, <1>3, ProductUnfold
  <1> HIDE DEF Pr
  <1>8. p # d
    BY <1>3, <1>7
  <1>9. Pr(s \ {p}) = f[d] * Pr((s \ {p}) \ {d})
    BY <1>4, <1>6, <1>8
  <1>10. Pr(v) = f[p] * Pr(v \ {p})
    BY <1>4, <1>6, <1>8
  <1>11. (s \ {p}) \ {d} = v \ {p}
    OBVIOUS
  <1> DEFINE a == f[p]
             b == f[d]
             c == Pr(v \ {p})
  <1>12. a \in Nat /\ b \in Nat /\ c \in Nat
    BY <1>2, <1>6
  <1>13. Pr(s) = a * (b * c) /\ Pr(v) = a * c
    BY <1>7, <1>9, <1>10, <1>11
  <1> HIDE DEF a, c
  <1>14. a * (b * c) = b * (a * c)
    <2> HIDE DEF b
    <2>1. QED
      BY <1>12
  <1>15. QED
    BY <1>3, <1>13, <1>14

\* Factors that are nowhere larger have no larger product.
LEMMA ProductMonotone ==
  ASSUME NEW S, IsFiniteSet(S), NEW f, NEW g,
         \A x \in S : f[x] \in Nat /\ g[x] \in Nat /\ f[x] <= g[x]
  PROVE  ProductOn(f, S) <= ProductOn(g, S)
  <1> DEFINE Bad == {s \in SUBSET S : ~(ProductOn(f, s) <= ProductOn(g, s))}
  <1> SUFFICES ASSUME Bad # {}
               PROVE  FALSE
    OBVIOUS
  <1>1. PICK s \in Bad : \A u \in Bad : u \subseteq s => u = s
    <2>1. Bad \subseteq SUBSET S
      OBVIOUS
    <2> HIDE DEF Bad
    <2>2. QED
      BY <2>1, SmallestSet
  <1>2. IsFiniteSet(s)
    BY FS_Subset
  <1>3. s # {}
    BY ProductEmpty
  <1> DEFINE u == s \ {Some(s)}
             a == f[Some(s)]
             b == g[Some(s)]
             c == ProductOn(f, u)
             d == ProductOn(g, u)
  <1>4. u \subseteq s /\ u # s /\ a \in Nat /\ b \in Nat /\ a <= b
    BY <1>3, SomeOf
  <1>5. c <= d
    BY <1>1, <1>4
  <1>6. ProductOn(f, s) = a * c /\ ProductOn(g, s) = b * d
    BY <1>2, <1>3, ProductUnfold
  <1>7. c \in Nat /\ d \in Nat
    <2>1. IsFiniteSet(u) /\ \A x \in u : f[x] \in Nat /\ g[x] \in Nat
      BY <1>2, FS_Subset
    <2> HIDE DEF u
    <2>2. QED
      BY <2>1, ProductNat
  <1> HIDE DEF a, b, c, d
  <1>8. a * c <= b * d
    <2>1. a * c <= b * c
      BY <1>4, <1>7
    <2>2. b * c <= b * d
      BY <1>4, <1>5, <1>7
    <2>3. a * c \in Nat /\ b * c \in Nat /\ b * d \in Nat
      BY <1>4, <1>7
    <2>4. QED
      BY <2>1, <2>2, <2>3
  <1>9. QED
    BY <1>6, <1>8

\* A product depends on the factors only.
LEMMA ProductSame ==
  ASSUME NEW S, IsFiniteSet(S), NEW f, NEW g, \A x \in S : f[x] \in Nat /\ f[x] = g[x]
  PROVE  ProductOn(f, S) = ProductOn(g, S)
  <1>1. \A x \in S : f[x] \in Nat /\ g[x] \in Nat /\ f[x] <= g[x] /\ g[x] <= f[x]
    OBVIOUS
  <1>2. ProductOn(f, S) <= ProductOn(g, S) /\ ProductOn(g, S) <= ProductOn(f, S)
    BY <1>1, ProductMonotone
  <1>3. ProductOn(f, S) \in Nat /\ ProductOn(g, S) \in Nat
    BY <1>1, ProductNat
  <1>4. QED
    BY <1>2, <1>3

-----------------------------------------------------------------------------
(* Row-major positions: digits of a number whose base varies.              *)

\* x is a tuple below the extents.
IsBelow(x, extents) ==
  /\ extents \in Seq(Nat)
  /\ \A r \in 1 .. Len(extents) : x[r] \in Nat /\ x[r] < extents[r]

Weight(extents, r) == ProductOn(extents, r + 1 .. Len(extents))
Digits(extents, x) == [r \in DOMAIN extents |-> x[r] * Strides(extents)[r]]

\* What the dimensions after r contribute to the position.
Rest(extents, x, r) == SumFunctionOnSet(Digits(extents, x), r + 1 .. Len(extents))

LEMMA Below ==
  ASSUME NEW extents \in Seq(Nat), NEW x \in Tuples(extents)
  PROVE  IsBelow(x, extents) /\ x \in [1 .. Len(extents) -> Nat]
  <1>1. DOMAIN extents = 1 .. Len(extents)
    OBVIOUS
  <1>2. SumSeq(extents) \in Nat
    <2> DEFINE S == 1 .. Len(extents)
    <2>1. IsFiniteSet(S) /\ DOMAIN extents = S
      BY <1>1, FS_Interval
    <2>2. \A r \in S : extents[r] \in Nat
      OBVIOUS
    <2> HIDE DEF S
    <2>3. SumFunctionOnSet(extents, S) \in Nat
      BY <2>1, <2>2, SumNat
    <2>4. QED
      BY <2>1, <2>3 DEF SumSeq
  <1>3. QED
    BY <1>1, <1>2 DEF Tuples, IsBelow

LEMMA WeightStep ==
  ASSUME NEW extents \in Seq(Nat), NEW r \in 1 .. Len(extents)
  PROVE  Weight(extents, r - 1) = extents[r] * Weight(extents, r)
  <1> DEFINE n == Len(extents)
             S == (r - 1) + 1 .. n
  <1>1. n \in Nat /\ r \in S /\ S \subseteq 1 .. n /\ \A q \in 1 .. n : extents[q] \in Nat
    OBVIOUS
  <1>5. IsFiniteSet(S)
    BY FS_Interval
  <1>2. S \ {r} = r + 1 .. n
    OBVIOUS
  <1> HIDE DEF S
  <1>3. ProductOn(extents, S) = extents[r] * ProductOn(extents, S \ {r})
    BY <1>1, <1>5, ProductRemove
  <1>4. QED
    BY <1>2, <1>3 DEF Weight, S

LEMMA WeightNat ==
  ASSUME NEW extents \in Seq(Nat), NEW r \in 0 .. Len(extents)
  PROVE  Weight(extents, r) \in Nat /\ Weight(extents, Len(extents)) = 1
  <1> DEFINE n == Len(extents)
             S == r + 1 .. n
  <1>1. n \in Nat /\ S \subseteq 1 .. n /\ \A q \in 1 .. n : extents[q] \in Nat
    OBVIOUS
  <1>6. IsFiniteSet(S)
    BY FS_Interval
  <1>2. n + 1 .. n = {}
    BY <1>1
  <1>3. Weight(extents, n) = 1
    BY <1>2, ProductEmpty DEF Weight
  <1> HIDE DEF S
  <1>4. ProductOn(extents, S) \in Nat
    BY <1>1, <1>6, ProductNat
  <1>5. QED
    BY <1>3, <1>4 DEF Weight, S

LEMMA DigitsAre ==
  ASSUME NEW extents, NEW x, IsBelow(x, extents), NEW r \in 1 .. Len(extents)
  PROVE  /\ Digits(extents, x)[r] = x[r] * Weight(extents, r)
         /\ Digits(extents, x)[r] \in Nat
  <1>1. extents \in Seq(Nat) /\ r \in DOMAIN extents /\ r \in 0 .. Len(extents) /\ x[r] \in Nat
    BY DEF IsBelow
  <1>2. Digits(extents, x)[r] = x[r] * Weight(extents, r)
    BY <1>1 DEF Digits, Strides, Weight
  <1>3. Weight(extents, r) \in Nat
    BY <1>1, WeightNat
  <1>4. QED
    BY <1>1, <1>2, <1>3

LEMMA RestStep ==
  ASSUME NEW extents, NEW x, IsBelow(x, extents), NEW r \in 1 .. Len(extents)
  PROVE  Rest(extents, x, r - 1) = x[r] * Weight(extents, r) + Rest(extents, x, r)
  <1> DEFINE n == Len(extents)
             S == (r - 1) + 1 .. n
             D == Digits(extents, x)
  <1>1. n \in Nat /\ r \in S /\ IsFiniteSet(S) /\ S \subseteq 1 .. n
    BY FS_Interval DEF IsBelow
  <1>2. S \ {r} = r + 1 .. n
    BY <1>1
  <1>3. \A q \in S : D[q] \in Int
    BY <1>1, DigitsAre
  <1>4. D[r] = x[r] * Weight(extents, r)
    BY DigitsAre
  <1> HIDE DEF S, D
  <1>5. SumFunctionOnSet(D, S) = D[r] + SumFunctionOnSet(D, S \ {r})
    BY <1>1, <1>3, SumRemove
  <1>6. QED
    BY <1>2, <1>4, <1>5 DEF Rest, S, D

LEMMA RestNat ==
  ASSUME NEW extents, NEW x, IsBelow(x, extents), NEW r \in 0 .. Len(extents)
  PROVE  Rest(extents, x, r) \in Nat /\ Rest(extents, x, Len(extents)) = 0
  <1> DEFINE n == Len(extents)
             S == r + 1 .. n
             D == Digits(extents, x)
  <1>1. n \in Nat /\ IsFiniteSet(S) /\ S \subseteq 1 .. n
    BY FS_Interval DEF IsBelow
  <1>2. n + 1 .. n = {}
    BY <1>1
  <1>3. Rest(extents, x, n) = 0
    BY <1>2, SumEmpty DEF Rest
  <1>4. \A q \in S : D[q] \in Nat
    BY <1>1, DigitsAre
  <1> HIDE DEF S, D
  <1>5. SumFunctionOnSet(D, S) \in Nat
    BY <1>1, <1>4, SumNat
  <1>6. QED
    BY <1>3, <1>5 DEF Rest, S, D

\* The position is less than the number of positions, whatever the dimension from
\* which on one counts.
LEMMA RestBelow ==
  ASSUME NEW extents, NEW x, IsBelow(x, extents)
  PROVE  \A r \in 0 .. Len(extents) : Rest(extents, x, r) < Weight(extents, r)
  <1> DEFINE n == Len(extents)
             T == {k \in 0 .. n : Rest(extents, x, n - k) < Weight(extents, n - k)}
  <1>1. n \in Nat /\ extents \in Seq(Nat)
    BY DEF IsBelow
  <1>2. 0 \in T
    <2>1. n \in 0 .. Len(extents) /\ n - 0 = n
      BY <1>1
    <2>2. Rest(extents, x, n) = 0 /\ Weight(extents, n) = 1
      BY <1>1, <2>1, RestNat, WeightNat
    <2>3. QED
      BY <1>1, <2>1, <2>2
  <1>3. ASSUME NEW k \in 1 .. n, k - 1 \in T
        PROVE  k \in T
    <2> DEFINE r == n - (k - 1)
    <2>1. r \in 1 .. n /\ n - k = r - 1 /\ r \in 0 .. n /\ r - 1 \in 0 .. n
      BY <1>1
    <2>2. Rest(extents, x, r) < Weight(extents, r)
      BY <1>3
    <2> HIDE DEF r
    <2> DEFINE w == Weight(extents, r)
               u == Rest(extents, x, r)
    <2>3. /\ Weight(extents, r - 1) = extents[r] * w
          /\ Rest(extents, x, r - 1) = x[r] * w + u
      BY <1>1, <2>1, WeightStep, RestStep
    <2>4. w \in Nat /\ u \in Nat /\ u < w
      BY <1>1, <2>1, <2>2, RestNat, WeightNat
    <2>5. x[r] \in Nat /\ extents[r] \in Nat /\ x[r] < extents[r]
      BY <1>1, <2>1 DEF IsBelow
    <2> DEFINE a == x[r]
               b == extents[r]
    <2>6. a * w + u < b * w
      <3> HIDE DEF a, b, w, u
      <3>1. a \in Nat /\ b \in Nat /\ a + 1 <= b
        BY <2>5 DEF a, b
      <3>2. (a + 1) * w <= b * w /\ (a + 1) * w = a * w + w
        BY <2>4, <3>1
      <3>3. a * w \in Nat /\ b * w \in Nat
        BY <2>4, <3>1
      <3>4. QED
        BY <2>4, <3>2, <3>3
    <2>7. Rest(extents, x, n - k) < Weight(extents, n - k)
      BY <2>1, <2>3, <2>6
    <2>8. QED
      BY <1>1, <2>7
  <1>4. 0 .. n \subseteq T
    <2> HIDE DEF T
    <2>1. QED
      BY <1>1, <1>2, <1>3, UpFromZero
  <1>5. ASSUME NEW r \in 0 .. n
        PROVE  Rest(extents, x, r) < Weight(extents, r)
    <2>1. n - r \in 0 .. n /\ n - (n - r) = r
      BY <1>1
    <2>2. QED
      BY <1>4, <2>1
  <1>6. QED
    BY <1>5

\* Numbers written with a digit and a rest below the weight of the digit.
LEMMA SameDigit ==
  ASSUME NEW a \in Nat, NEW b \in Nat, NEW w \in Nat, NEW u \in Nat, NEW v \in Nat,
         u < w, v < w, a * w + u = b * w + v
  PROVE  a = b /\ u = v
  <1>1. ASSUME NEW c \in Nat, NEW d \in Nat, NEW s \in Nat, NEW t \in Nat, s < w, t < w, c < d
        PROVE  c * w + s < d * w + t
    <2>1. c + 1 <= d
      BY <1>1
    <2>2. (c + 1) * w <= d * w /\ (c + 1) * w = c * w + w
      BY <2>1
    <2>3. c * w \in Nat /\ d * w \in Nat
      OBVIOUS
    <2>4. QED
      BY <1>1, <2>2, <2>3
  <1>2. ~(a < b)
    BY <1>1
  <1>3. ~(b < a)
    BY <1>1
  <1>4. a = b
    BY <1>2, <1>3
  <1>5. a * w \in Nat
    OBVIOUS
  <1>6. QED
    BY <1>4, <1>5

LEMMA RowMajorIs ==
  ASSUME NEW extents \in Seq(Nat), NEW x
  PROVE  RowMajor(extents, x) = Rest(extents, x, 0)
  <1>1. DOMAIN Digits(extents, x) = 0 + 1 .. Len(extents)
    BY DEF Digits
  <1>2. RowMajor(extents, x) = SumSeq(Digits(extents, x))
    BY DEF RowMajor, Digits
  <1>3. QED
    BY <1>1, <1>2 DEF SumSeq, Rest

\* Different tuples have different positions.
LEMMA RowMajorInjective ==
  ASSUME NEW extents, NEW x, NEW y, IsBelow(x, extents), IsBelow(y, extents),
         RowMajor(extents, x) = RowMajor(extents, y)
  PROVE  \A r \in 1 .. Len(extents) : x[r] = y[r]
  <1> DEFINE n == Len(extents)
             T == {k \in 0 .. n : /\ Rest(extents, x, k) = Rest(extents, y, k)
                                  /\ \A q \in 1 .. k : x[q] = y[q]}
  <1>1. n \in Nat /\ extents \in Seq(Nat)
    BY DEF IsBelow
  <1>2. 0 \in T
    BY <1>1, RowMajorIs
  <1>3. ASSUME NEW k \in 1 .. n, k - 1 \in T
        PROVE  k \in T
    <2> DEFINE w == Weight(extents, k)
               u == Rest(extents, x, k)
               v == Rest(extents, y, k)
               a == x[k]
               b == y[k]
    <2>1. /\ Rest(extents, x, k - 1) = x[k] * w + u
          /\ Rest(extents, y, k - 1) = y[k] * w + v
      BY RestStep
    <2>2. a * w + u = b * w + v
      BY <1>3, <2>1
    <2>3. k \in 0 .. n /\ k \in 1 .. n
      BY <1>1
    <2>4. w \in Nat /\ u \in Nat /\ v \in Nat /\ u < w /\ v < w
      BY <1>1, <2>3, WeightNat, RestNat, RestBelow
    <2>5. a \in Nat /\ b \in Nat
      BY <2>3 DEF IsBelow
    <2> HIDE DEF w, u, v, a, b
    <2>6. a = b /\ u = v
      BY <2>2, <2>4, <2>5, SameDigit
    <2>7. \A q \in 1 .. k : q = k \/ q \in 1 .. k - 1
      BY <1>1
    <2>8. \A q \in 1 .. k : x[q] = y[q]
      BY <1>3, <2>6, <2>7 DEF a, b
    <2>9. QED
      BY <2>3, <2>6, <2>8 DEF u, v
  <1>4. 0 .. n \subseteq T
    <2> HIDE DEF T
    <2>1. QED
      BY <1>1, <1>2, <1>3, UpFromZero
  <1>5. n \in T
    BY <1>1, <1>4
  <1>6. QED
    BY <1>5

LEMMA RowMajorBelow ==
  ASSUME NEW extents, NEW x, IsBelow(x, extents)
  PROVE  RowMajor(extents, x) \in Nat /\ RowMajor(extents, x) < ProductSeq(extents)
  <1>1. extents \in Seq(Nat) /\ 0 \in 0 .. Len(extents) /\ DOMAIN extents = 0 + 1 .. Len(extents)
    BY DEF IsBelow
  <1>2. ProductSeq(extents) = Weight(extents, 0)
    BY <1>1 DEF ProductSeq, Weight
  <1>3. QED
    BY <1>1, <1>2, RowMajorIs, RestNat, RestBelow

-----------------------------------------------------------------------------
(* The constructor of Distribution_NW.                                     *)

\* The blocks that have their offset, and where the next part begins.
Placing == IF pc = "sum" THEN i - 1 ELSE nblocks
NextOffset == IF itr <= nblocks THEN hash[itr] ELSE offset

\* Each block follows the one before it, and the running offset is their end.
LaidOut ==
  /\ pc = "sum" => /\ i \in 1 .. nblocks + 1
                   /\ \A k \in i .. nblocks : hash[k] = size[k]
                   /\ procOffsets = <<>> /\ itr = 1
  /\ Placing = 0 => offset = 0
  /\ Placing > 0 => hash[1] = 0 /\ offset = hash[Placing] + size[Placing]
  /\ \A k \in 1 .. Placing : hash[k] + size[k] <= offset
  /\ \A k \in 1 .. Placing - 1 : hash[k + 1] = hash[k] + size[k]
  /\ \A j, k \in 1 .. Placing : j < k => hash[j] + size[j] <= hash[k]

\* An offset at which a block begins, or the end.
IsBoundary(o) == o = offset \/ \E k \in Blocks : o = hash[k]

\* The place of the cut for part m: not before m shares, and less than a block after.
IsCut(o, m) ==
  /\ o = offset \/ o >= m * PerProc
  /\ \E k \in Blocks : o < m * PerProc + size[k]

\* The parts begin at block boundaries, in order.
CutAtBlocks ==
  pc \in {"procs", "done"} =>
    /\ offset > 0
    /\ i \in 0 .. nproc
    /\ Len(procOffsets) = IF pc = "procs" THEN i ELSE nproc + 1
    /\ \A p \in 1 .. Len(procOffsets) : IsBoundary(procOffsets[p])
    /\ Len(procOffsets) > 0 => procOffsets[1] = 0
    /\ i = 0 => itr = 1
    /\ i > 0 => IsCut(NextOffset, i)
    /\ \A p \in 2 .. Len(procOffsets) : p <= nproc => IsCut(procOffsets[p], p - 1)
    /\ pc = "done" => i = nproc /\ procOffsets[nproc + 1] = offset

IInv == TypeOK /\ LaidOut /\ CutAtBlocks

USE DistributionAssumption

-----------------------------------------------------------------------------

LEMMA PerProcType == TypeOK => PerProc \in Nat \ {0}
  <1> SUFFICES ASSUME TypeOK PROVE PerProc \in Nat \ {0}
    OBVIOUS
  <1>1. nproc \in Nat \ {0} /\ offset \in Nat
    BY DEF TypeOK
  <1>2. offset \div nproc \in Int
    BY <1>1
  <1>3. QED
    BY <1>2 DEF PerProc

LEMMA Types ==
  ASSUME TypeOK
  PROVE  /\ nblocks \in Nat \ {0} /\ nproc \in Nat \ {0} /\ offset \in Nat /\ i \in Int
         /\ hash \in [1 .. nblocks -> Nat] /\ size \in [1 .. nblocks -> Nat]
         /\ itr \in 1 .. nblocks + 1 /\ Blocks = 1 .. nblocks
  <1>1. nblocks \in Nat \ {0} /\ nproc \in Nat \ {0}
    BY DEF TypeOK
  <1>2. i \in Int
    BY <1>1 DEF TypeOK
  <1>3. \A k \in 1 .. nblocks : size[k] \in Nat
    BY DEF TypeOK, Blocks
  <1>4. QED
    BY <1>1, <1>2, <1>3 DEF TypeOK, Blocks

\* The formation of types is kept by every step.
LEMMA TypeStep == TypeOK /\ LaidOut /\ [Next]_vars => TypeOK'
  <1> SUFFICES ASSUME TypeOK, LaidOut, [Next]_vars PROVE TypeOK'
    OBVIOUS
  <1> USE DEF TypeOK, input, Blocks
  <1>0. nblocks \in Nat \ {0} /\ nproc \in Nat \ {0}
    OBVIOUS
  <1>1. CASE SumOffsets
    <2>1. i \in Int /\ i \in Blocks /\ hash[i] \in Nat
      BY <1>0, <1>1 DEF SumOffsets, LaidOut
    <2>4. hash' \in [Blocks -> Nat] /\ offset' \in Nat
      BY <1>1, <2>1 DEF SumOffsets
    <2>2. i + 1 \in 0 .. nblocks + nproc + 1
      BY <1>0, <1>1 DEF SumOffsets
    <2>3. QED
      BY <1>1, <2>1, <2>2, <2>4 DEF SumOffsets
  <1>2. CASE EndSum
    BY <1>0, <1>2 DEF EndSum
  <1>3. CASE BeginPart
    <2>1. (IF itr <= nblocks THEN hash[itr] ELSE offset) \in Nat
      BY <1>0
    <2>2. procOffsets' \in Seq(Nat)
      BY <1>3, <2>1 DEF BeginPart
    <2>3. itr' \in 1 .. nblocks + 1 /\ i' \in 0 .. nblocks + nproc + 1
      BY <1>0, <1>3 DEF BeginPart
    <2>4. QED
      BY <1>3, <2>2, <2>3 DEF BeginPart
  <1>4. CASE EndParts
    BY <1>4 DEF EndParts
  <1>5. CASE UNCHANGED vars
    BY <1>5 DEF vars
  <1>6. QED
    BY <1>1, <1>2, <1>3, <1>4, <1>5 DEF Next

LEMMA LaidOutStep == TypeOK /\ LaidOut /\ [Next]_vars => LaidOut'
  <1> SUFFICES ASSUME TypeOK, LaidOut, [Next]_vars PROVE LaidOut'
    OBVIOUS
  <1>0. nblocks \in Nat \ {0} /\ nproc \in Nat \ {0} /\ offset \in Nat /\ i \in Int
        /\ hash \in [1 .. nblocks -> Nat] /\ size \in [1 .. nblocks -> Nat]
    BY Types
  <1>1. CASE SumOffsets
    <2>1. /\ pc = "sum" /\ pc' = "sum" /\ i \in 1 .. nblocks /\ i' = i + 1
          /\ nblocks' = nblocks /\ size' = size /\ offset' = offset + size[i]
          /\ Placing = i - 1 /\ Placing' = i
      BY <1>0, <1>1 DEF SumOffsets, LaidOut, Placing, input
    <2>2. /\ hash'[i] = offset
          /\ \A k \in 1 .. nblocks : k # i => hash'[k] = hash[k]
      BY <1>0, <1>1, <2>1 DEF SumOffsets
    <2>3. size[i] \in Nat /\ \A k \in 1 .. nblocks : size[k] \in Nat /\ hash[k] \in Nat
      BY <1>0, <2>1
    <2>4. (pc = "sum" => /\ i \in 1 .. nblocks + 1
                         /\ \A k \in i .. nblocks : hash[k] = size[k]
                         /\ procOffsets = <<>> /\ itr = 1)'
      BY <1>0, <1>1, <2>1, <2>2 DEF LaidOut, SumOffsets
    <2>5. (Placing = 0 => offset = 0)'
      BY <2>1
    <2>6. hash'[1] = 0 /\ offset' = hash'[i] + size[i]
      BY <1>0, <2>1, <2>2 DEF LaidOut
    <2>11. \A k \in 1 .. i - 1 : /\ k \in 1 .. nblocks /\ k # i /\ hash'[k] = hash[k]
                                 /\ hash[k] + size[k] <= offset
      <3>1. \A k \in 1 .. i - 1 : k \in 1 .. nblocks /\ k # i
        BY <1>0, <2>1
      <3>2. \A k \in 1 .. i - 1 : hash[k] + size[k] <= offset
        BY <2>1 DEF LaidOut
      <3>3. QED
        BY <2>2, <3>1, <3>2
    <2>7. \A k \in 1 .. i : hash'[k] + size[k] <= offset'
      <3> SUFFICES ASSUME NEW k \in 1 .. i PROVE hash'[k] + size[k] <= offset'
        OBVIOUS
      <3>1. CASE k = i
        BY <1>0, <2>1, <2>2, <2>3, <3>1
      <3>2. CASE k \in 1 .. i - 1
        BY <1>0, <2>1, <2>3, <2>11, <3>2
      <3>3. QED
        BY <2>1, <3>1, <3>2
    <2>8. \A k \in 1 .. i - 1 : hash'[k + 1] = hash'[k] + size[k]
      <3> SUFFICES ASSUME NEW k \in 1 .. i - 1 PROVE hash'[k + 1] = hash'[k] + size[k]
        OBVIOUS
      <3>1. CASE k = i - 1
        <4>1. k + 1 = i /\ i - 1 > 0
          BY <2>1, <3>1
        <4>2. hash'[k + 1] = hash[i - 1] + size[i - 1]
          BY <2>1, <2>2, <4>1 DEF LaidOut
        <4>3. QED
          BY <2>11, <3>1, <4>2
      <3>2. CASE k + 1 \in 1 .. i - 1
        <4>1. hash[k + 1] = hash[k] + size[k]
          BY <2>1, <3>2 DEF LaidOut
        <4>2. QED
          BY <2>11, <3>2, <4>1
      <3>3. QED
        BY <2>1, <3>1, <3>2
    <2>9. \A j, k \in 1 .. i : j < k => hash'[j] + size[j] <= hash'[k]
      <3> SUFFICES ASSUME NEW j \in 1 .. i, NEW k \in 1 .. i, j < k
                   PROVE  hash'[j] + size[j] <= hash'[k]
        OBVIOUS
      <3>1. j \in 1 .. i - 1
        BY <2>1
      <3>2. CASE k = i
        BY <2>2, <2>11, <3>1, <3>2
      <3>3. CASE k \in 1 .. i - 1
        BY <2>1, <2>11, <3>1, <3>3 DEF LaidOut
      <3>4. QED
        BY <2>1, <3>2, <3>3
    <2>10. QED
      BY <2>1, <2>4, <2>5, <2>6, <2>7, <2>8, <2>9 DEF LaidOut
  <1>2. CASE EndSum
    BY <1>0, <1>2 DEF EndSum, LaidOut, Placing, input
  <1>3. CASE BeginPart
    BY <1>0, <1>3 DEF BeginPart, LaidOut, Placing, input
  <1>4. CASE EndParts
    BY <1>0, <1>4 DEF EndParts, LaidOut, Placing, input
  <1>5. CASE UNCHANGED vars
    BY <1>5 DEF vars, input, LaidOut, Placing
  <1>6. QED
    BY <1>1, <1>2, <1>3, <1>4, <1>5 DEF Next

\* The search for the next part finds a cut.
LEMMA NextCut ==
  ASSUME TypeOK, LaidOut, CutAtBlocks, BeginPart
  PROVE  IsCut(NextOffset, i)'
  <1> DEFINE v == (i + 1) * PerProc
             next == IF itr' <= nblocks THEN hash[itr'] ELSE offset
  <1>0. /\ nblocks \in Nat \ {0} /\ nproc \in Nat \ {0} /\ offset \in Nat /\ i \in Nat
        /\ hash \in [1 .. nblocks -> Nat] /\ size \in [1 .. nblocks -> Nat]
        /\ itr \in 1 .. nblocks + 1 /\ itr \in Nat
    <2>1. i \in Nat
      BY Types DEF CutAtBlocks, BeginPart
    <2>2. QED
      BY <2>1, Types
  <1>1. PerProc \in Nat \ {0} /\ PerProc' = PerProc
    BY PerProcType DEF BeginPart, PerProc, input
  <1>2. v \in Nat /\ v = i * PerProc + PerProc /\ i * PerProc \in Nat
    BY <1>0, <1>1
  <1>3. /\ itr' \in itr .. nblocks + 1
        /\ \A m \in itr .. itr' - 1 : hash[m] < v
        /\ itr' <= nblocks => hash[itr'] >= v
    BY DEF BeginPart, IsLowerBound
  <1>9. itr' \in Nat /\ itr <= itr' /\ itr' <= nblocks + 1
    BY <1>0, <1>3
  <1>4. NextOffset' = next /\ i' = i + 1 /\ Blocks' = Blocks /\ hash' = hash
        /\ offset' = offset /\ size' = size /\ Blocks = 1 .. nblocks
    BY DEF BeginPart, NextOffset, input, Blocks
  <1> HIDE DEF v
  <1>5. next = offset \/ next >= v
    BY <1>3
  <1>6. \E k \in Blocks : next < v + size[k]
    <2>1. CASE itr' = itr
      <3>1. next = NextOffset
        BY <1>0, <2>1 DEF NextOffset
      <3>2. CASE i = 0
        <4>1. itr = 1 /\ hash[1] = 0 /\ next = 0
          BY <1>0, <2>1, <3>2 DEF CutAtBlocks, BeginPart, LaidOut, Placing
        <4>2. hash[1] >= v
          BY <1>0, <1>3, <2>1, <4>1
        <4>3. QED
          BY <1>0, <1>1, <1>2, <3>2, <4>1, <4>2
      <3>3. CASE i > 0
        <4>1. PICK k \in Blocks : NextOffset < i * PerProc + size[k]
          BY <3>3 DEF CutAtBlocks, BeginPart, IsCut
        <4>2. size[k] \in Nat /\ NextOffset \in Nat
          BY <1>0, <1>4 DEF NextOffset
        <4>3. QED
          BY <1>1, <1>2, <3>1, <4>1, <4>2
      <3>4. QED
        BY <1>0, <3>2, <3>3
    <2>2. CASE itr' > itr
      <3>5. PICK j \in Nat : j = itr'
        BY <1>9
      <3>6. nblocks \in Nat /\ itr \in Nat /\ itr >= 1 /\ itr < j /\ j <= nblocks + 1
        BY <1>0, <1>9, <2>2, <3>5
      <3>7. j - 1 \in 1 .. nblocks /\ j - 1 \in itr .. j - 1 /\ (j - 1) + 1 = j
        BY <3>6
      <3>8. PICK k \in Nat : k = j - 1 /\ k + 1 = j
        BY <3>6, <3>7
      <3>1. k \in Blocks /\ hash[k] < v
        BY <1>3, <1>4, <3>5, <3>7, <3>8
      <3>2. Placing = nblocks
        BY DEF BeginPart, Placing
      <3>3. next = hash[k] + size[k]
        <4>1. CASE itr' <= nblocks
          <5>1. j <= nblocks
            BY <3>5, <4>1
          <5>2. k \in 1 .. nblocks - 1
            BY <3>6, <3>7, <3>8, <5>1
          <5>3. QED
            BY <3>2, <3>5, <3>8, <4>1, <5>2 DEF LaidOut
        <4>2. CASE itr' = nblocks + 1
          <5>1. k = nblocks /\ ~(itr' <= nblocks)
            BY <3>5, <3>6, <3>7, <3>8, <4>2
          <5>2. QED
            BY <1>0, <3>2, <5>1 DEF LaidOut
        <4>3. QED
          BY <3>5, <3>6, <4>1, <4>2
      <3>4. hash[k] \in Nat /\ size[k] \in Nat
        BY <1>0, <1>4, <3>1
      <3>9. QED
        BY <1>2, <3>1, <3>3, <3>4
    <2>3. QED
      BY <1>0, <1>9, <2>1, <2>2
  <1>7. (i + 1) * PerProc = v
    BY DEF v
  <1>8. QED
    BY <1>1, <1>4, <1>5, <1>6, <1>7 DEF IsCut

LEMMA CutAtBlocksStep == TypeOK /\ LaidOut /\ CutAtBlocks /\ [Next]_vars => CutAtBlocks'
  <1> SUFFICES ASSUME TypeOK, LaidOut, CutAtBlocks, [Next]_vars PROVE CutAtBlocks'
    OBVIOUS
  <1>0. /\ nblocks \in Nat \ {0} /\ nproc \in Nat \ {0} /\ offset \in Nat
        /\ procOffsets \in Seq(Nat)
    BY Types DEF TypeOK
  <1>1. CASE SumOffsets
    BY <1>1 DEF SumOffsets, CutAtBlocks
  <1>2. CASE EndSum
    <2>1. CASE offset = 0
      BY <2>1, <1>2 DEF EndSum, CutAtBlocks
    <2>2. CASE offset > 0
      BY <1>0, <1>2, <2>2 DEF EndSum, CutAtBlocks, LaidOut, input
    <2>3. QED
      BY <1>0, <2>1, <2>2
  <1>3. CASE BeginPart
    <2> DEFINE new == IF itr <= nblocks THEN hash[itr] ELSE offset
    <2>1. /\ pc = "procs" /\ pc' = "procs" /\ i \in Nat /\ i < nproc /\ i' = i + 1
          /\ nblocks' = nblocks /\ nproc' = nproc /\ offset' = offset /\ hash' = hash
          /\ size' = size /\ Blocks' = Blocks /\ PerProc' = PerProc
          /\ procOffsets' = Append(procOffsets, new)
          /\ Len(procOffsets) = i /\ new = NextOffset
      BY <1>0, <1>3 DEF BeginPart, CutAtBlocks, input, Blocks, PerProc, NextOffset
    <2>2. new \in Nat /\ IsBoundary(new)
      BY Types DEF IsBoundary
    <2>3. /\ Len(procOffsets') = i + 1 /\ procOffsets'[i + 1] = new
          /\ \A p \in 1 .. i : procOffsets'[p] = procOffsets[p]
      BY <1>0, <2>1, <2>2
    <2> HIDE DEF new
    <2>4. \A o : IsBoundary(o)' <=> IsBoundary(o)
      BY <2>1 DEF IsBoundary
    <2>5. \A o, m : IsCut(o, m)' <=> IsCut(o, m)
      BY <2>1 DEF IsCut
    <2>6. \A p \in 1 .. i + 1 : IsBoundary(procOffsets'[p])
      <3> SUFFICES ASSUME NEW p \in 1 .. i + 1 PROVE IsBoundary(procOffsets'[p])
        OBVIOUS
      <3>1. CASE p = i + 1
        BY <2>2, <2>3, <3>1
      <3>2. CASE p \in 1 .. i
        BY <2>1, <2>3, <3>2 DEF CutAtBlocks
      <3>3. QED
        BY <2>1, <3>1, <3>2
    <2>7. procOffsets'[1] = 0
      <3>1. CASE i = 0
        BY <1>0, <2>1, <2>3, <3>1, Types DEF CutAtBlocks, LaidOut, Placing, NextOffset
      <3>2. CASE i > 0
        BY <2>1, <2>3, <3>2 DEF CutAtBlocks
      <3>3. QED
        BY <2>1, <3>1, <3>2
    <2>8. \A p \in 2 .. i + 1 : p <= nproc => IsCut(procOffsets'[p], p - 1)
      <3> SUFFICES ASSUME NEW p \in 2 .. i + 1, p <= nproc PROVE IsCut(procOffsets'[p], p - 1)
        OBVIOUS
      <3>1. CASE p = i + 1
        <4>1. i > 0 /\ p - 1 = i
          BY <2>1, <3>1
        <4>2. QED
          BY <2>1, <2>3, <3>1, <4>1 DEF CutAtBlocks
      <3>2. CASE p \in 2 .. i
        BY <2>1, <2>3, <3>2 DEF CutAtBlocks
      <3>3. QED
        BY <2>1, <3>1, <3>2
    <2>9. IsCut(NextOffset, i)'
      BY <1>3, NextCut
    <2>10. (\A p \in 1 .. Len(procOffsets) : IsBoundary(procOffsets[p]))'
      <3>1. \A p \in 1 .. i + 1 : IsBoundary(procOffsets[p])'
        BY <2>1, <2>6 DEF IsBoundary
      <3>2. QED
        BY <2>3, <3>1
    <2>11. (\A p \in 2 .. Len(procOffsets) : p <= nproc => IsCut(procOffsets[p], p - 1))'
      <3>1. \A p \in 2 .. i + 1 : p <= nproc => IsCut(procOffsets[p], p - 1)'
        BY <2>1, <2>8 DEF IsCut
      <3>2. QED
        BY <2>1, <2>3, <3>1
    <2>12. offset > 0
      BY <2>1 DEF CutAtBlocks
    <2>13. QED
      BY <1>0, <2>1, <2>3, <2>7, <2>9, <2>10, <2>11, <2>12 DEF CutAtBlocks
  <1>4. CASE EndParts
    <2>1. /\ pc = "procs" /\ pc' = "done" /\ i = nproc /\ i' = i
          /\ nblocks' = nblocks /\ nproc' = nproc /\ offset' = offset /\ hash' = hash
          /\ size' = size /\ Blocks' = Blocks /\ PerProc' = PerProc /\ itr' = itr
          /\ NextOffset' = NextOffset
          /\ procOffsets' = Append(procOffsets, offset) /\ Len(procOffsets) = nproc
      BY <1>4 DEF EndParts, CutAtBlocks, input, Blocks, PerProc, NextOffset
    <2>2. /\ Len(procOffsets') = nproc + 1 /\ procOffsets'[nproc + 1] = offset
          /\ \A p \in 1 .. nproc : procOffsets'[p] = procOffsets[p]
      BY <1>0, <2>1
    <2>3. \A p \in 1 .. nproc : IsBoundary(procOffsets[p])'
      BY <2>1, <2>2 DEF CutAtBlocks, IsBoundary
    <2>4. IsBoundary(procOffsets[nproc + 1])'
      BY <2>1, <2>2 DEF IsBoundary
    <2>5. \A p \in 2 .. nproc : IsCut(procOffsets[p], p - 1)'
      BY <1>0, <2>1, <2>2 DEF CutAtBlocks, IsCut
    <2>6. (\A p \in 1 .. Len(procOffsets) : IsBoundary(procOffsets[p]))'
      <3>1. \A p \in 1 .. nproc + 1 : p \in 1 .. nproc \/ p = nproc + 1
        BY <1>0
      <3>2. QED
        BY <2>1, <2>2, <2>3, <2>4, <3>1
    <2>7. (\A p \in 2 .. Len(procOffsets) : p <= nproc => IsCut(procOffsets[p], p - 1))'
      BY <1>0, <2>1, <2>2, <2>5
    <2>8. (i > 0 => IsCut(NextOffset, i))'
      BY <2>1 DEF CutAtBlocks, IsCut
    <2>9. procOffsets'[1] = 0 /\ offset > 0
      BY <1>0, <2>1, <2>2 DEF CutAtBlocks
    <2>10. QED
      BY <1>0, <2>1, <2>2, <2>6, <2>7, <2>8, <2>9 DEF CutAtBlocks
  <1>5. CASE UNCHANGED vars
    BY <1>5 DEF vars, input, CutAtBlocks, IsBoundary, IsCut, NextOffset, Blocks, PerProc
  <1>6. QED
    BY <1>1, <1>2, <1>3, <1>4, <1>5 DEF Next

\* The inductive invariant (distribution.hpp:199-259).
THEOREM Invariant == Spec => []IInv
  <1>1. Init => IInv
    <2> SUFFICES ASSUME Init PROVE IInv
      OBVIOUS
    <2>1. TypeOK
      <3>1. nblocks \in Nat \ {0} /\ nproc \in Nat \ {0} /\ i = 1 /\ itr = 1
        BY DEF Init
      <3>2. hash \in [Blocks -> Nat]
        BY DEF Init
      <3>3. i \in 0 .. nblocks + nproc + 1 /\ itr \in 1 .. nblocks + 1
        BY <3>1
      <3>4. QED
        BY <3>2, <3>3 DEF Init, TypeOK
    <2>2. LaidOut
      BY <2>1, Types DEF Init, LaidOut, Placing, Blocks
    <2>3. CutAtBlocks
      BY DEF Init, CutAtBlocks
    <2>4. QED
      BY <2>1, <2>2, <2>3 DEF IInv
  <1>2. IInv /\ [Next]_vars => IInv'
    BY TypeStep, LaidOutStep, CutAtBlocksStep DEF IInv
  <1>3. QED
    BY <1>1, <1>2, PTL DEF Spec

-----------------------------------------------------------------------------
(* What the invariant gives when the constructor is done.                  *)

LEMMA DoneFacts ==
  ASSUME IInv, pc = "done"
  PROVE  /\ nproc \in Nat \ {0} /\ Blocks = 1 .. nblocks /\ nblocks \in Nat
         /\ offset \in Nat /\ PerProc \in Nat \ {0}
         /\ procOffsets[1] = 0 /\ procOffsets[nproc + 1] = offset
         /\ \A k \in Blocks : hash[k] \in Nat /\ size[k] \in Nat /\ hash[k] + size[k] <= offset
         /\ \A j, k \in Blocks : j < k => hash[j] + size[j] <= hash[k]
         /\ \A p \in 1 .. nproc + 1 : procOffsets[p] \in Nat /\ IsBoundary(procOffsets[p])
         /\ \A p \in 2 .. nproc : IsCut(procOffsets[p], p - 1)
  <1>1. TypeOK /\ LaidOut /\ CutAtBlocks /\ Placing = nblocks /\ procOffsets \in Seq(Nat)
    BY DEF IInv, TypeOK, Placing
  <1>2. Len(procOffsets) = nproc + 1 /\ nproc \in Nat \ {0}
    BY <1>1, Types DEF CutAtBlocks
  <1>3. \A p \in 1 .. nproc + 1 : procOffsets[p] \in Nat /\ IsBoundary(procOffsets[p])
    BY <1>1, <1>2 DEF CutAtBlocks
  <1>4. \A p \in 2 .. nproc : IsCut(procOffsets[p], p - 1)
    BY <1>1, <1>2 DEF CutAtBlocks
  <1>5. procOffsets[1] = 0 /\ procOffsets[nproc + 1] = offset
    BY <1>1, <1>2 DEF CutAtBlocks
  <1>6. QED
    BY <1>1, <1>2, <1>3, <1>4, <1>5, Types, PerProcType DEF LaidOut

\* The process of a block is the last whose part does not begin after it.
LEMMA PlacedWhenDone == IInv => Placed
  <1> SUFFICES ASSUME IInv, pc = "done", NEW k \in Blocks, size[k] > 0
               PROVE  \E p \in Procs : /\ IsProcOf(p, k) /\ OffsetIn(p, k) >= 0
                                       /\ OffsetIn(p, k) + size[k] <= BufSize(p)
    BY DEF Placed
  <1> DEFINE T == {u \in 1 .. nproc + 1 : procOffsets[u] > hash[k]}
  <1>1. nproc + 1 \in T
    BY DoneFacts
  <1>2. PICK u \in T : \A w \in T : u <= w
    <2>1. T \subseteq Nat /\ T # {}
      BY <1>1, DoneFacts
    <2> HIDE DEF T
    <2>2. QED
      BY <2>1, LeastNat
  <1>3. /\ u \in 2 .. nproc + 1 /\ procOffsets[u] > hash[k]
        /\ \A w \in 1 .. u - 1 : procOffsets[w] <= hash[k]
    <2>1. u \in 1 .. nproc + 1 /\ procOffsets[u] > hash[k] /\ u # 1
      BY <1>2, DoneFacts
    <2>2. ASSUME NEW w \in 1 .. u - 1 PROVE procOffsets[w] <= hash[k]
      <3>1. w \in 1 .. nproc + 1 /\ ~(u <= w)
        BY <2>1, DoneFacts
      <3>2. w \notin T
        BY <1>2, <3>1
      <3>3. QED
        BY <3>1, <3>2, DoneFacts
    <2>3. QED
      BY <2>1, <2>2, DoneFacts
  <1> HIDE DEF T
  <1>4. procOffsets[u] >= hash[k] + size[k]
    <2>1. IsBoundary(procOffsets[u])
      BY <1>3, DoneFacts
    <2>2. CASE procOffsets[u] = offset
      BY <2>2, DoneFacts
    <2>3. CASE \E j \in Blocks : procOffsets[u] = hash[j]
      <3>1. PICK j \in Blocks : procOffsets[u] = hash[j]
        BY <2>3
      <3>2. hash[j] > hash[k] /\ j \in Nat /\ k \in Nat
        BY <1>3, <3>1, DoneFacts
      <3>5. hash[j] \in Nat /\ size[j] \in Nat /\ hash[k] \in Nat
        BY DoneFacts
      <3>6. j < k => hash[j] + size[j] <= hash[k]
        BY DoneFacts
      <3>3. ~(j < k) /\ j # k
        BY <3>2, <3>5, <3>6
      <3>4. QED
        BY <3>1, <3>2, <3>3, DoneFacts
    <2>4. QED
      BY <2>1, <2>2, <2>3 DEF IsBoundary
  <1>5. PICK p \in Procs : u = p + 2
    <2>1. u - 2 \in Procs /\ u = (u - 2) + 2
      BY <1>3, DoneFacts DEF Procs
    <2>2. QED
      BY <2>1
  <1>6. p \in Nat /\ p < nproc /\ p + 1 \in 1 .. u - 1 /\ nproc \in Nat
    BY <1>3, <1>5, DoneFacts DEF Procs
  <1>7. IsProcOf(p, k)
    <2>1. \A q \in 0 .. p : q + 1 \in 1 .. u - 1
      BY <1>3, <1>5, <1>6
    <2>2. p \in -1 .. nproc
      BY <1>6
    <2>3. QED
      BY <1>3, <1>5, <2>1, <2>2 DEF IsProcOf
  <1>8. /\ procOffsets[p + 1] \in Nat /\ procOffsets[p + 2] \in Nat
        /\ procOffsets[p + 1] <= hash[k] /\ procOffsets[p + 2] >= hash[k] + size[k]
    <2>1. p + 1 \in 1 .. nproc + 1 /\ p + 2 \in 1 .. nproc + 1
      BY <1>6
    <2>2. QED
      BY <1>3, <1>4, <1>5, <1>6, <2>1, DoneFacts
  <1>9. hash[k] \in Nat /\ size[k] \in Nat
    BY DoneFacts
  <1>10. OffsetIn(p, k) >= 0 /\ OffsetIn(p, k) + size[k] <= BufSize(p)
    BY <1>8, <1>9 DEF OffsetIn, BufSize
  <1>11. QED
    BY <1>7, <1>10

LEMMA ApartWhenDone == IInv => Apart
  <1> SUFFICES ASSUME IInv, pc = "done", NEW j \in Blocks, NEW k \in Blocks, NEW p \in Procs, j < k
               PROVE  OffsetIn(p, j) + size[j] <= OffsetIn(p, k)
    BY DEF Apart
  <1>1. p + 1 \in 1 .. nproc + 1
    BY DoneFacts DEF Procs
  <1>2. /\ hash[j] \in Nat /\ hash[k] \in Nat /\ size[j] \in Nat /\ procOffsets[p + 1] \in Nat
        /\ hash[j] + size[j] <= hash[k]
    BY <1>1, DoneFacts
  <1>3. QED
    BY <1>2 DEF OffsetIn

LEMMA BalancedWhenDone == IInv => Balanced
  <1> SUFFICES ASSUME IInv, pc = "done", NEW p \in Procs
               PROVE  \/ BufSize(p) < PerProc + nproc
                      \/ \E k \in Blocks : BufSize(p) < PerProc + size[k]
    BY DoneFacts DEF Balanced
  <1> DEFINE from == procOffsets[p + 1]  to == procOffsets[p + 2]
  <1>1. /\ nproc \in Nat \ {0} /\ PerProc \in Nat \ {0} /\ offset \in Nat
        /\ p \in Nat /\ p < nproc /\ p \in 0 .. nproc - 1
    BY DoneFacts DEF Procs
  <1>2. p + 1 \in 1 .. nproc + 1 /\ p + 2 \in 1 .. nproc + 1
    BY <1>1
  <1>3. from \in Nat /\ to \in Nat /\ to <= offset /\ BufSize(p) = to - from
    <2>1. \A o \in Nat : IsBoundary(o) => o <= offset
      BY DoneFacts DEF IsBoundary
    <2>2. QED
      BY <1>2, <2>1, DoneFacts DEF BufSize
  <1>4. from = offset \/ from >= p * PerProc
    <2>1. CASE p = 0
      BY <1>1, <1>3, <2>1, DoneFacts
    <2>2. CASE p > 0
      <3>1. p + 1 \in 2 .. nproc /\ (p + 1) - 1 = p
        BY <1>1, <2>2
      <3>2. QED
        BY <3>1, DoneFacts DEF IsCut
    <2>3. QED
      BY <1>1, <2>1, <2>2
  <1>5. p * PerProc \in Nat /\ (p + 1) * PerProc = p * PerProc + PerProc
    BY <1>1
  <1> HIDE DEF from, to
  <1>6. CASE from = offset
    BY <1>1, <1>3, <1>6
  <1>7. CASE from >= p * PerProc /\ p + 1 < nproc
    <2>1. p + 2 \in 2 .. nproc /\ (p + 2) - 1 = p + 1
      BY <1>1, <1>7
    <2>2. PICK k \in Blocks : to < (p + 1) * PerProc + size[k]
      BY <2>1, DoneFacts DEF IsCut, to
    <2>3. size[k] \in Nat
      BY DoneFacts
    <2>4. to - from < PerProc + size[k]
      BY <1>1, <1>3, <1>5, <1>7, <2>2, <2>3
    <2>5. QED
      BY <1>3, <2>4
  <1>8. CASE from >= p * PerProc /\ p + 1 = nproc
    <2>1. offset < p * PerProc + PerProc + nproc
      <3> DEFINE d == offset \div nproc
      <3>1. /\ d \in Nat /\ offset < nproc * d + nproc
        BY <1>1
      <3>2. PerProc >= d
        BY <3>1 DEF PerProc
      <3> HIDE DEF d
      <3>3. nproc * d <= nproc * PerProc
        BY <1>1, <3>1, <3>2
      <3>4. nproc * PerProc = p * PerProc + PerProc
        BY <1>1, <1>5, <1>8
      <3>5. nproc * d \in Nat /\ nproc * PerProc \in Nat
        BY <1>1, <3>1
      <3>6. QED
        BY <1>1, <1>5, <3>1, <3>3, <3>4, <3>5
    <2>2. QED
      BY <1>1, <1>3, <1>5, <1>8, <2>1
  <1>9. QED
    BY <1>1, <1>4, <1>6, <1>7, <1>8

-----------------------------------------------------------------------------

\* The types are kept (distribution.hpp:199-259).
THEOREM TypeCorrect == Spec => []TypeOK
  BY Invariant, PTL DEF IInv

\* Whatever the sizes and the number of processes, every block that is not empty
\* has its place inside the buffer of a process (distribution.hpp:270-293).
THEOREM PlacedAlways == Spec => []Placed
  BY Invariant, PlacedWhenDone, PTL

\* Whatever the sizes and the number of processes, no two blocks on one process
\* overlap (distribution.hpp:280-284).
THEOREM ApartAlways == Spec => []Apart
  BY Invariant, ApartWhenDone, PTL

\* Whatever the sizes and the number of processes, no buffer exceeds the average by
\* more than a block or the remainder (distribution.hpp:243-256).
THEOREM BalancedAlways == Spec => []Balanced
  BY Invariant, BalancedWhenDone, PTL

HIDE DistributionAssumption

-----------------------------------------------------------------------------
(* Blocks in the order of their keys.                                      *)

Rank(K, S, b) == Cardinality({c \in S : K[c] < K[b]})

\* Numbered by how many are smaller, the members of a finite set get the numbers
\* from 0 on, each once.
LEMMA RanksRise ==
  ASSUME NEW S, IsFiniteSet(S), NEW K \in [S -> Nat]
  PROVE  /\ \A b \in S : Rank(K, S, b) \in 0 .. Cardinality(S) - 1
         /\ \A b, c \in S : K[b] < K[c] => Rank(K, S, b) < Rank(K, S, c)
  <1> DEFINE Lower(b) == {c \in S : K[c] < K[b]}
  <1>1. ASSUME NEW T \in SUBSET S, NEW U \in SUBSET T, NEW e \in T, e \notin U
        PROVE  Cardinality(U) \in Nat /\ Cardinality(T) \in Nat /\ Cardinality(U) < Cardinality(T)
    <2>1. IsFiniteSet(T)
      BY FS_Subset
    <2>2. IsFiniteSet(U) /\ Cardinality(U) <= Cardinality(T)
          /\ (Cardinality(T) = Cardinality(U) => T = U)
      BY <2>1, FS_Subset
    <2>3. Cardinality(U) \in Nat /\ Cardinality(T) \in Nat
      BY <2>1, <2>2, FS_CardinalityType
    <2>4. T # U
      BY <1>1
    <2>5. QED
      BY <2>2, <2>3, <2>4
  <1>2. ASSUME NEW b \in S
        PROVE  Rank(K, S, b) \in 0 .. Cardinality(S) - 1
    <2>1. Lower(b) \in SUBSET S /\ b \notin Lower(b) /\ S \in SUBSET S
      OBVIOUS
    <2> HIDE DEF Lower
    <2>2. /\ Cardinality(Lower(b)) \in Nat /\ Cardinality(S) \in Nat
          /\ Cardinality(Lower(b)) < Cardinality(S)
      BY <1>1, <2>1
    <2>3. Rank(K, S, b) = Cardinality(Lower(b))
      BY DEF Rank, Lower
    <2>4. QED
      BY <2>2, <2>3
  <1>3. ASSUME NEW b \in S, NEW c \in S, K[b] < K[c]
        PROVE  Rank(K, S, b) < Rank(K, S, c)
    <2>1. Lower(c) \in SUBSET S /\ Lower(b) \in SUBSET Lower(c) /\ b \in Lower(c)
          /\ b \notin Lower(b)
      BY <1>3
    <2> HIDE DEF Lower
    <2>2. Cardinality(Lower(b)) < Cardinality(Lower(c))
      BY <1>1, <2>1
    <2>3. QED
      BY <2>2 DEF Rank, Lower
  <1>4. QED
    BY <1>2, <1>3

LEMMA RanksAreAll ==
  ASSUME NEW S, IsFiniteSet(S), NEW K \in [S -> Nat],
         \A b, c \in S : K[b] = K[c] => b = c
  PROVE  /\ \A b, c \in S : Rank(K, S, b) = Rank(K, S, c) => b = c
         /\ \A k \in 1 .. Cardinality(S) : \E b \in S : Rank(K, S, b) = k - 1
  <1> DEFINE n == Cardinality(S)
             T == 0 .. n - 1
             f == [b \in S |-> Rank(K, S, b)]
  <1>1. n \in Nat
    BY FS_CardinalityType
  <1>2. f \in [S -> T]
    BY RanksRise
  <1>3. ASSUME NEW b \in S, NEW c \in S, Rank(K, S, b) = Rank(K, S, c)
        PROVE  b = c
    <2>1. Rank(K, S, b) \in Int /\ Rank(K, S, c) \in Int /\ K[b] \in Nat /\ K[c] \in Nat
      BY RanksRise
    <2>2. ~(K[b] < K[c]) /\ ~(K[c] < K[b])
      BY <1>3, <2>1, RanksRise
    <2>3. QED
      BY <2>1, <2>2
  <1>4. f \in Injection(S, T)
    <2>1. \A b, c \in S : f[b] = f[c] => b = c
      BY <1>3
    <2> HIDE DEF f, T
    <2>2. QED
      BY <1>2, <2>1 DEF Injection, IsInjective
  <1>5. IsFiniteSet(T) /\ Cardinality(T) = n
    <2>1. n - 1 \in Int /\ 0 \in Int
      BY <1>1
    <2>2. IsFiniteSet(T) /\ Cardinality(T) = IF 0 > n - 1 THEN 0 ELSE ((n - 1) - 0) + 1
      BY <2>1, FS_Interval
    <2> HIDE DEF n, T
    <2>3. QED
      BY <1>1, <2>2
  <1>6. f \in Surjection(S, T)
    <2> HIDE DEF f, T
    <2>1. QED
      BY <1>4, <1>5, FS_Injection
  <1>7. ASSUME NEW k \in 1 .. n
        PROVE  \E b \in S : Rank(K, S, b) = k - 1
    <2>1. k - 1 \in T
      BY <1>1
    <2>2. \E b \in S : f[b] = k - 1
      <3> HIDE DEF f, T
      <3>1. QED
        BY <1>6, <2>1 DEF Surjection
    <2>3. QED
      BY <2>2
  <1>8. QED
    BY <1>3, <1>7

-----------------------------------------------------------------------------
(* The keys of blocks.                                                     *)

IsShape(s) == s \in Seq([tiles : Seq(Nat \ {0}), made : Nat])
Extents == [r \in DOMAIN shape |-> NumTiles(shape[r])]

LEMMA ShapeFacts ==
  ASSUME IsShape(shape)
  PROVE  /\ Extents \in Seq(Nat) /\ Len(Extents) = Len(shape) /\ DOMAIN shape = 1 .. Len(shape)
         /\ Len(shape) \in Nat
         /\ \A r \in DOMAIN shape : /\ shape[r].tiles \in Seq(Nat \ {0})
                                    /\ Extents[r] = Len(shape[r].tiles) /\ Extents[r] \in Nat
  <1>1. DOMAIN shape = 1 .. Len(shape) /\ Len(shape) \in Nat
    BY DEF IsShape
  <1>2. ASSUME NEW r \in DOMAIN shape
        PROVE  shape[r].tiles \in Seq(Nat \ {0}) /\ Extents[r] = Len(shape[r].tiles)
    <2> DEFINE D == [tiles : Seq(Nat \ {0}), made : Nat]
    <2>1. shape \in Seq(D) /\ r \in 1 .. Len(shape)
      BY <1>1 DEF IsShape
    <2> HIDE DEF D
    <2>2. shape[r] \in D
      BY <2>1
    <2>3. shape[r].tiles \in Seq(Nat \ {0})
      BY <2>2 DEF D
    <2>4. QED
      BY <2>3 DEF Extents, NumTiles
  <1>3. \A r \in DOMAIN shape : Extents[r] \in Nat
    BY <1>2
  <1>4. Extents \in [1 .. Len(shape) -> Nat]
    BY <1>1, <1>3 DEF Extents
  <1>5. Extents \in Seq(Nat) /\ Len(Extents) = Len(shape)
    BY <1>1, <1>4
  <1>6. QED
    BY <1>1, <1>2, <1>3, <1>5

LEMMA Keys ==
  ASSUME IsShape(shape)
  PROVE  /\ \A b \in BlockIds(shape) : /\ IsBelow(b, Extents) /\ b \in [1 .. Len(shape) -> Nat]
                                       /\ Key(b) \in Nat /\ Key(b) < NumBlocks
         /\ \A b, c \in BlockIds(shape) : Key(b) = Key(c) => b = c
  <1>1. Extents \in Seq(Nat) /\ Len(Extents) = Len(shape)
    BY ShapeFacts
  <1>2. BlockIds(shape) = Tuples(Extents) /\ NumBlocks = ProductSeq(Extents)
    BY DEF BlockIds, Extents, NumBlocks
  <1>3. \A b : Key(b) = RowMajor(Extents, b)
    BY DEF Key, Extents
  <1>4. \A b \in Tuples(Extents) : IsBelow(b, Extents) /\ b \in [1 .. Len(shape) -> Nat]
    BY <1>1, Below
  <1>5. \A b \in Tuples(Extents) : RowMajor(Extents, b) \in Nat
                                   /\ RowMajor(Extents, b) < ProductSeq(Extents)
    BY <1>4, RowMajorBelow
  <1>6. ASSUME NEW b \in Tuples(Extents), NEW c \in Tuples(Extents),
               RowMajor(Extents, b) = RowMajor(Extents, c)
        PROVE  b = c
    <2>1. \A r \in 1 .. Len(Extents) : b[r] = c[r]
      BY <1>4, <1>6, RowMajorInjective
    <2>2. QED
      BY <1>1, <1>4, <2>1
  <1>7. QED
    BY <1>2, <1>3, <1>4, <1>5, <1>6

LEMMA FinitelyManyBlocks ==
  ASSUME IsShape(shape), NEW S \in SUBSET BlockIds(shape), S # {}
  PROVE  IsFiniteSet(S) /\ NumBlocks \in Nat \ {0}
  <1>1. PICK b \in S : TRUE
    OBVIOUS
  <1> DEFINE T == 0 .. NumBlocks - 1
             f == [c \in S |-> Key(c)]
  <1>2. NumBlocks \in Nat
    <2>1. Extents \in Seq(Nat) /\ 0 \in 0 .. Len(Extents) /\ DOMAIN Extents = 0 + 1 .. Len(Extents)
      BY ShapeFacts
    <2>2. NumBlocks = Weight(Extents, 0)
      BY <2>1 DEF NumBlocks, Extents, ProductSeq, Weight
    <2>3. QED
      BY <2>1, <2>2, WeightNat
  <1>3. f \in Injection(S, T)
    <2>1. f \in [S -> T] /\ \A c, d \in S : f[c] = f[d] => c = d
      BY <1>2, Keys
    <2> HIDE DEF f, T
    <2>2. QED
      BY <2>1 DEF Injection, IsInjective
  <1>4. IsFiniteSet(T)
    BY <1>2, FS_Interval
  <1>5. IsFiniteSet(S)
    <2> HIDE DEF f, T
    <2>1. QED
      BY <1>3, <1>4, FS_Injection
  <1>6. NumBlocks # 0
    BY <1>1, Keys
  <1>7. QED
    BY <1>2, <1>5, <1>6

\* The sorted blocks are the blocks, each once, and their keys rise.
LEMMA SortedByKey ==
  ASSUME IsShape(shape), NEW S \in SUBSET BlockIds(shape), S # {}, NEW s, s = SortByKey(S)
  PROVE  /\ s \in Seq(S)
         /\ \A b \in S : \E k \in DOMAIN s : s[k] = b
         /\ \A j, k \in DOMAIN s : j < k => Key(s[j]) < Key(s[k])
  <1> DEFINE n == Cardinality(S)
             K == [b \in S |-> Key(b)]
             R(b) == Rank(K, S, b)
  <1>1. IsFiniteSet(S) /\ n \in Nat
    BY FinitelyManyBlocks, FS_CardinalityType
  <1>2. K \in [S -> Nat] /\ \A b, c \in S : K[b] = K[c] => b = c
    BY Keys
  <1>3. \A b \in S : Cardinality({c \in S : Key(c) < Key(b)}) = R(b)
    <2>1. \A b \in S : {c \in S : Key(c) < Key(b)} = {c \in S : K[c] < K[b]}
      OBVIOUS
    <2> HIDE DEF K
    <2>2. QED
      BY <2>1 DEF Rank
  <1>5. /\ \A b \in S : R(b) \in 0 .. n - 1
        /\ \A b, c \in S : K[b] < K[c] => R(b) < R(c)
        /\ \A b, c \in S : R(b) = R(c) => b = c
        /\ \A k \in 1 .. n : \E b \in S : R(b) = k - 1
    <2> HIDE DEF K
    <2>1. QED
      BY <1>1, <1>2, RanksRise, RanksAreAll
  <1> HIDE DEF R
  <1>6. ASSUME NEW k \in 1 .. n
        PROVE  s[k] \in S /\ R(s[k]) = k - 1
    <2> DEFINE Here(b) == Cardinality({c \in S : Key(c) < Key(b)}) = k - 1
    <2>1. s[k] = CHOOSE b \in S : Here(b)
      BY <1>1 DEF SortByKey
    <2>2. \E b \in S : Here(b)
      BY <1>3, <1>5
    <2> HIDE DEF Here
    <2>3. s[k] \in S /\ Here(s[k])
      BY <2>1, <2>2
    <2>4. QED
      BY <1>3, <2>3 DEF Here
  <1>4. DOMAIN s = 1 .. n
    BY DEF SortByKey
  <1> HIDE DEF n
  <1>7. DOMAIN s = 1 .. n /\ s \in Seq(S)
    <2>1. s \in [1 .. n -> S]
      <3> DEFINE At(k) == CHOOSE b \in S : Cardinality({c \in S : Key(c) < Key(b)}) = k - 1
      <3>1. s = [k \in 1 .. n |-> At(k)]
        BY DEF SortByKey, n
      <3> HIDE DEF At
      <3>2. \A k \in 1 .. n : s[k] = At(k)
        BY <3>1
      <3>3. QED
        BY <1>6, <3>1, <3>2
    <2>2. QED
      BY <1>1, <2>1
  <1>8. ASSUME NEW b \in S
        PROVE  \E k \in DOMAIN s : s[k] = b
    <2>1. R(b) + 1 \in 1 .. n /\ (R(b) + 1) - 1 = R(b)
      BY <1>1, <1>5
    <2>2. s[R(b) + 1] = b
      BY <1>5, <1>6, <2>1
    <2>3. QED
      BY <1>7, <2>1, <2>2
  <1>9. ASSUME NEW j \in DOMAIN s, NEW k \in DOMAIN s, j < k
        PROVE  Key(s[j]) < Key(s[k])
    <2>1. s[j] \in S /\ s[k] \in S /\ R(s[j]) = j - 1 /\ R(s[k]) = k - 1 /\ j \in Int /\ k \in Int
      BY <1>6, <1>7
    <2>2. ~(R(s[k]) < R(s[j])) /\ s[j] # s[k]
      BY <1>9, <2>1
    <2>3. ~(K[s[k]] < K[s[j]]) /\ K[s[j]] # K[s[k]]
      BY <1>2, <1>5, <2>1, <2>2
    <2>4. K[s[j]] \in Nat /\ K[s[k]] \in Nat /\ K[s[j]] = Key(s[j]) /\ K[s[k]] = Key(s[k])
      BY <1>2, <2>1
    <2>5. QED
      BY <2>3, <2>4
  <1>10. QED
    BY <1>7, <1>8, <1>9

\* A finite set of numbers that is not empty has a largest.
LEMMA MaxIs ==
  ASSUME NEW S, IsFiniteSet(S), S \subseteq Int, S # {}
  PROVE  Max(S) \in S /\ \A x \in S : x <= Max(S)
  <1> DEFINE Top(s, m) == m \in s /\ \A x \in s : m >= x
             Bad == {s \in SUBSET S : s # {} /\ ~ \E m : Top(s, m)}
  <1>1. Bad = {}
    <2> SUFFICES ASSUME Bad # {}
                 PROVE  FALSE
      OBVIOUS
    <2>1. PICK s \in Bad : \A u \in Bad : u \subseteq s => u = s
      <3>1. Bad \subseteq SUBSET S /\ Bad # {} /\ IsFiniteSet(S)
        OBVIOUS
      <3> HIDE DEF Top, Bad
      <3>2. QED
        BY ONLY <3>1, SmallestSet
    <2> DEFINE e == Some(s)
               u == s \ {e}
    <2>2. e \in s /\ e \in Int /\ s \subseteq Int
      BY SomeOf
    <2> HIDE DEF e
    <2>3. CASE u = {}
      <3>1. Top(s, e)
        BY <2>2, <2>3
      <3>2. QED
        BY <3>1
    <2>4. CASE u # {}
      <3>1. u \in SUBSET S /\ u # s /\ u \subseteq s
        BY <2>2
      <3>2. PICK m : Top(u, m)
        BY <2>1, <2>4, <3>1
      <3>3. m \in Int /\ s = u \cup {e}
        BY <2>2, <3>2
      <3>4. CASE m >= e
        <4>1. Top(s, m)
          BY <2>2, <3>2, <3>3, <3>4
        <4>2. QED
          BY <4>1
      <3>5. CASE e >= m
        <4>1. Top(s, e)
          BY <2>2, <3>2, <3>3, <3>5
        <4>2. QED
          BY <4>1
      <3>6. QED
        BY <2>2, <3>3, <3>4, <3>5
    <2>5. QED
      BY <2>3, <2>4
  <1>2. \E m \in S : \A x \in S : m >= x
    BY <1>1
  <1>3. Max(S) \in S /\ \A x \in S : Max(S) >= x
    BY <1>2 DEF Max
  <1>4. QED
    BY <1>3

\* No block is empty, and none exceeds the largest tiles.
LEMMA BlockSizes ==
  ASSUME IsShape(shape), NEW b \in BlockIds(shape)
  PROVE  /\ BlockSize(shape, b) \in Nat \ {0}
         /\ MaxBlockSize \in Nat
         /\ BlockSize(shape, b) <= MaxBlockSize
  <1> DEFINE S == DOMAIN shape
             f == BlockDims(shape, b)
             g == [r \in S |-> MaxTileSize(shape[r])]
  <1>1. S = 1 .. Len(shape) /\ Len(shape) \in Nat
    BY ShapeFacts
  <1>2. ASSUME NEW r \in S
        PROVE  f[r] \in Nat \ {0} /\ g[r] \in Nat /\ f[r] <= g[r]
    <2> DEFINE tiles == shape[r].tiles
               T == {0} \cup ToSet(tiles)
    <2>1. tiles \in Seq(Nat \ {0}) /\ Extents[r] = Len(tiles)
      BY ShapeFacts
    <2>2. IsBelow(b, Extents) /\ r \in 1 .. Len(Extents)
      BY <1>1, Keys, ShapeFacts
    <2>3. b[r] \in Nat /\ b[r] < Len(tiles)
      BY <2>1, <2>2 DEF IsBelow
    <2> HIDE DEF tiles
    <2>4. b[r] + 1 \in DOMAIN tiles /\ Len(tiles) \in Nat /\ DOMAIN tiles = 1 .. Len(tiles)
      BY <2>1, <2>3
    <2>5. tiles[b[r] + 1] \in Nat \ {0} /\ tiles[b[r] + 1] \in ToSet(tiles)
      BY <2>1, <2>4 DEF ToSet
    <2>6. ToSet(tiles) \subseteq Nat
      BY <2>1 DEF ToSet
    <2>7. IsFiniteSet(T)
      <3>1. IsFiniteSet(1 .. Len(tiles))
        BY <2>4, FS_Interval
      <3>2. ToSet(tiles) = {tiles[k] : k \in 1 .. Len(tiles)}
        BY <2>4 DEF ToSet
      <3>3. IsFiniteSet(ToSet(tiles))
        BY <3>1, <3>2, FiniteImage
      <3>4. QED
        BY <3>3, FS_Singleton, FS_Union
    <2>8. T \subseteq Int /\ T # {}
      BY <2>6
    <2>9. Max(T) \in T /\ \A x \in T : x <= Max(T)
      <3> HIDE DEF T
      <3>1. QED
        BY <2>7, <2>8, MaxIs
    <2>10. f[r] = tiles[b[r] + 1] /\ g[r] = Max(T)
      BY DEF BlockDims, MaxTileSize, tiles
    <2>11. QED
      BY <2>5, <2>6, <2>9, <2>10
  <1>3. DOMAIN f = S /\ DOMAIN g = S /\ IsFiniteSet(S)
    BY <1>1, FS_Interval DEF BlockDims
  <1>4. BlockSize(shape, b) = ProductOn(f, S) /\ MaxBlockSize = ProductOn(g, S)
    BY <1>3 DEF BlockSize, MaxBlockSize, ProductSeq
  <1> HIDE DEF f, g, S
  <1>5. ProductOn(f, S) \in Nat /\ ProductOn(f, S) # 0 /\ ProductOn(g, S) \in Nat
    BY <1>2, <1>3, ProductNat
  <1>6. ProductOn(f, S) <= ProductOn(g, S)
    BY <1>2, <1>3, ProductMonotone
  <1>7. QED
    BY <1>4, <1>5, <1>6

-----------------------------------------------------------------------------
(* The layout of the blocks of a tensor.                                   *)

\* What is laid out are the blocks that are not zero, with their sizes.
DistInv ==
  /\ IInv
  /\ tensor \in Tensors
  /\ blocks = SortByKey(nonzero)
  /\ nblocks = Len(blocks)
  /\ size = [k \in DOMAIN blocks |-> BlockSize(shape, blocks[k])]

LEMMA BlockFacts ==
  ASSUME DistInv
  PROVE  /\ IsShape(shape) /\ nonzero \subseteq BlockIds(shape) /\ nonzero # {}
         /\ DOMAIN blocks = Blocks
         /\ \A k \in Blocks : /\ blocks[k] \in nonzero
                              /\ size[k] = BlockSize(shape, blocks[k])
                              /\ size[k] \in Nat \ {0}
         /\ \A b \in nonzero : \E k \in Blocks : blocks[k] = b
         /\ \A j, k \in Blocks : j < k => Key(blocks[j]) < Key(blocks[k])
  <1>1. IsShape(shape) /\ nonzero \subseteq BlockIds(shape)
    BY TensorsAssumption DEF DistInv, IsShape, shape, nonzero
  <1>2. nblocks \in Nat \ {0} /\ nblocks = Len(blocks) /\ Blocks = 1 .. nblocks
    BY Types DEF DistInv, IInv
  <1>3. nonzero # {}
    <2> SUFFICES ASSUME nonzero = {}
                 PROVE  FALSE
      OBVIOUS
    <2>1. DOMAIN blocks = 1 .. 0
      BY FS_EmptySet DEF DistInv, SortByKey
    <2>2. blocks = <<>>
      <3> DEFINE At(k) == CHOOSE b \in nonzero :
                            Cardinality({c \in nonzero : Key(c) < Key(b)}) = k - 1
      <3>1. blocks = [k \in 1 .. Cardinality(nonzero) |-> At(k)]
        BY DEF DistInv, SortByKey
      <3> HIDE DEF At
      <3>2. QED
        BY <2>1, <3>1
    <2>3. QED
      BY <1>2, <2>2
  <1>4. /\ blocks \in Seq(nonzero)
        /\ \A b \in nonzero : \E k \in DOMAIN blocks : blocks[k] = b
        /\ \A j, k \in DOMAIN blocks : j < k => Key(blocks[j]) < Key(blocks[k])
    <2>1. blocks = SortByKey(nonzero) /\ nonzero \in SUBSET BlockIds(shape)
      BY <1>1 DEF DistInv
    <2>2. QED
      BY <1>1, <1>3, <2>1, SortedByKey
  <1>5. DOMAIN blocks = Blocks
    BY <1>2, <1>4
  <1>6. ASSUME NEW k \in Blocks
        PROVE  /\ blocks[k] \in nonzero /\ size[k] = BlockSize(shape, blocks[k])
               /\ size[k] \in Nat \ {0}
    <2>1. blocks[k] \in nonzero
      BY <1>2, <1>4
    <2>2. size[k] = BlockSize(shape, blocks[k])
      BY <1>5 DEF DistInv
    <2>3. QED
      BY <1>1, <2>1, <2>2, BlockSizes
  <1>7. QED
    BY <1>1, <1>3, <1>4, <1>5, <1>6

\* A block is located on one process.
LEMMA OneProc ==
  ASSUME IInv, pc = "done", NEW k \in Blocks, NEW p, NEW q, IsProcOf(p, k), IsProcOf(q, k)
  PROVE  p = q
  <1>1. nproc \in Nat \ {0} /\ hash[k] \in Nat
        /\ \A u \in 1 .. nproc + 1 : procOffsets[u] \in Nat
    BY DoneFacts
  <1>2. ASSUME NEW s \in -1 .. nproc, NEW t \in -1 .. nproc, s < t, IsProcOf(s, k), IsProcOf(t, k)
        PROVE  FALSE
    <2>1. s + 1 \in 0 .. t /\ (s + 1) + 1 = s + 2 /\ s < nproc /\ s + 2 \in 1 .. nproc + 1
      BY <1>1, <1>2
    <2>2. procOffsets[s + 2] <= hash[k] /\ procOffsets[s + 2] > hash[k]
      BY <1>2, <2>1 DEF IsProcOf
    <2>3. QED
      BY <1>1, <2>1, <2>2
  <1>3. p \in -1 .. nproc /\ q \in -1 .. nproc
    BY DEF IsProcOf
  <1>4. ~(p < q) /\ ~(q < p)
    BY <1>2, <1>3
  <1>5. QED
    BY <1>1, <1>3, <1>4

\* Block b is the k-th and has its place on process p.
Lies(b, k, p) ==
  /\ k \in Blocks /\ p \in Procs /\ blocks[k] = b /\ IsProcOf(p, k)
  /\ Place(b) = <<p, OffsetIn(p, k)>>
  /\ OffsetIn(p, k) \in Nat
  /\ OffsetIn(p, k) + size[k] <= BufSize(p)

LEMMA PlaceIs ==
  ASSUME DistInv, pc = "done", NEW b \in nonzero
  PROVE  \E k, p : Lies(b, k, p)
  <1> DEFINE Finds(k) == /\ Key(blocks[k]) >= Key(b)
                         /\ \A m \in 1 .. k - 1 : Key(blocks[m]) < Key(b)
  <1>1. PICK k \in Blocks : blocks[k] = b
    BY BlockFacts
  <1>2. /\ Blocks = 1 .. nblocks /\ nblocks \in Nat
        /\ \A m \in Blocks : Key(blocks[m]) \in Nat
        /\ \A j, m \in Blocks : j < m => Key(blocks[j]) < Key(blocks[m])
    <2>1. \A m \in Blocks : blocks[m] \in BlockIds(shape)
      BY BlockFacts
    <2>2. QED
      BY <2>1, BlockFacts, Keys, DoneFacts DEF DistInv
  <1>3. Finds(k)
    BY <1>1, <1>2
  <1>4. ASSUME NEW j \in Blocks, Finds(j)
        PROVE  j = k
    <2>1. j \in Nat /\ k \in Nat /\ j >= 1 /\ k >= 1
      BY <1>2
    <2>2. ~(j < k)
      BY <1>1, <1>2, <1>4
    <2>3. ~(k < j)
      BY <1>1, <1>2, <1>4, <2>1
    <2>4. QED
      BY <2>1, <2>2, <2>3
  <1>5. DOMAIN blocks = Blocks
    BY BlockFacts
  <1>6. k = CHOOSE j \in DOMAIN blocks : Finds(j)
    <2> HIDE DEF Finds
    <2>1. QED
      BY <1>3, <1>4, <1>5
  <1>7. PICK p \in Procs : /\ IsProcOf(p, k) /\ OffsetIn(p, k) >= 0
                           /\ OffsetIn(p, k) + size[k] <= BufSize(p)
    <2>1. size[k] > 0
      BY BlockFacts
    <2>2. QED
      BY <2>1, PlacedWhenDone DEF DistInv, Placed
  <1>8. p \in -1 .. nproc
    BY <1>7 DEF IsProcOf
  <1>9. p = CHOOSE q \in -1 .. nproc : IsProcOf(q, k)
    <2>1. \A q \in -1 .. nproc : IsProcOf(q, k) => q = p
      BY <1>7, OneProc DEF DistInv
    <2>2. QED
      BY <1>7, <1>8, <2>1
  <1>10. Place(b) = <<p, OffsetIn(p, k)>>
    <2>1. Place(b) = LET j == CHOOSE j \in DOMAIN blocks : Finds(j)
                         q == CHOOSE q \in -1 .. nproc : IsProcOf(q, j)
                     IN  <<q, OffsetIn(q, j)>>
      BY DEF Place
    <2> HIDE DEF Finds
    <2>2. Place(b) = LET q == CHOOSE q \in -1 .. nproc : IsProcOf(q, k)
                     IN  <<q, OffsetIn(q, k)>>
      BY <1>6, <2>1
    <2>3. QED
      BY <1>9, <2>2
  <1>11. OffsetIn(p, k) \in Nat
    <2>0. IInv
      BY DEF DistInv
    <2>1. p + 1 \in 1 .. nproc + 1
      BY <2>0, DoneFacts DEF Procs
    <2>2. hash[k] \in Nat /\ procOffsets[p + 1] \in Nat
      BY <2>0, <2>1, DoneFacts
    <2>3. QED
      BY <1>7, <2>2 DEF OffsetIn
  <1>12. QED
    BY <1>1, <1>7, <1>10, <1>11 DEF Lies

LEMMA BufSizes ==
  ASSUME IInv, pc = "done"
  PROVE  \A p \in Procs : BufSize(p) \in Int /\ BufSize(p) <= LargestBufSize
                          /\ LargestBufSize \in Int
  <1> DEFINE f == [p \in Procs |-> BufSize(p)]
             T == {f[p] : p \in Procs}
  <1>1. nproc \in Nat \ {0} /\ Procs = 0 .. nproc - 1
    BY DoneFacts DEF Procs
  <1>2. ASSUME NEW p \in Procs
        PROVE  BufSize(p) \in Int
    <2>1. p + 1 \in 1 .. nproc + 1 /\ p + 2 \in 1 .. nproc + 1
      BY <1>1
    <2>2. procOffsets[p + 1] \in Nat /\ procOffsets[p + 2] \in Nat
      BY <2>1, DoneFacts
    <2>3. QED
      BY <2>2 DEF BufSize
  <1>3. IsFiniteSet(T)
    <2>1. IsFiniteSet(Procs)
      BY <1>1, FS_Interval
    <2> HIDE DEF f
    <2>2. QED
      BY <2>1, FiniteImage
  <1>4. T \subseteq Int /\ 0 \in Procs
    BY <1>1, <1>2
  <1>5. T = {BufSize(p) : p \in Procs} /\ T # {}
    BY <1>4
  <1> HIDE DEF T
  <1>6. Max(T) \in T /\ \A x \in T : x <= Max(T)
    BY <1>3, <1>4, <1>5, MaxIs
  <1>7. LargestBufSize = Max(T)
    BY <1>5 DEF LargestBufSize
  <1>8. QED
    BY <1>2, <1>4, <1>5, <1>6, <1>7

\* What begins on different processes is apart, and so is what is apart on one.
LEMMA RoomsApart ==
  ASSUME NEW room \in Int, NEW p \in Nat, NEW q \in Nat, NEW x \in Nat, NEW y \in Nat,
         NEW u \in Nat, NEW v \in Nat, x + u <= room, y + v <= room,
         p = q => x + u <= y \/ y + v <= x
  PROVE  \/ (p * room + x) + u <= q * room + y
         \/ (q * room + y) + v <= p * room + x
  <1>0. room \in Nat
    OBVIOUS
  <1>1. ASSUME NEW a \in Nat, NEW b \in Nat, NEW c \in Nat, NEW d \in Nat, NEW w \in Nat,
               a < b, c + w <= room
        PROVE  (a * room + c) + w <= b * room + d
    <2>1. (a + 1) * room <= b * room /\ (a + 1) * room = a * room + room
      BY <1>0, <1>1
    <2>2. a * room \in Nat /\ b * room \in Nat
      BY <1>0
    <2>3. QED
      BY <1>0, <1>1, <2>1, <2>2
  <1>2. CASE p < q
    BY <1>1, <1>2
  <1>3. CASE q < p
    BY <1>1, <1>3
  <1>4. CASE p = q
    <2>1. p * room \in Nat
      BY <1>0
    <2>2. QED
      BY <1>4, <2>1
  <1>5. QED
    BY <1>2, <1>3, <1>4

LEMMA AddressIs ==
  ASSUME NEW p \in Procs, NEW o, NEW room
  PROVE  Address(<<p, o>>, room) = p * room + o
  BY DEF Address, MapOf

\* The blocks of Distribution_NW lie apart (distribution.hpp:211-233, 270-309).
LEMMA SortedBlocksApart ==
  ASSUME DistInv, pc = "done"
  PROVE  /\ \A b \in nonzero : Place(b)[1] \in Procs
         /\ PutApart(nonzero, Place, LargestBufSize)
  <1> DEFINE room == LargestBufSize
             Put(b) == [block |-> b, at |-> Address(Place(b), room),
                        length |-> BlockSize(shape, b)]
  <1>0. IInv /\ nproc \in Nat \ {0} /\ Procs = 0 .. nproc - 1
    BY DoneFacts DEF DistInv, Procs
  <1>1. ASSUME NEW b \in nonzero, NEW k, NEW p, Lies(b, k, p)
        PROVE  /\ Place(b)[1] = p /\ Place(b)[2] = OffsetIn(p, k) /\ p \in Procs /\ p \in Nat
               /\ OffsetIn(p, k) \in Nat /\ size[k] \in Nat /\ size[k] = BlockSize(shape, b)
               /\ room \in Int /\ OffsetIn(p, k) + size[k] <= room
               /\ Address(Place(b), room) = p * room + OffsetIn(p, k)
    <2>1. /\ Place(b) = <<p, OffsetIn(p, k)>> /\ p \in Procs /\ k \in Blocks /\ blocks[k] = b
          /\ OffsetIn(p, k) \in Nat /\ OffsetIn(p, k) + size[k] <= BufSize(p)
      BY <1>1 DEF Lies
    <2>2. size[k] \in Nat /\ size[k] = BlockSize(shape, b)
      BY <2>1, BlockFacts
    <2>3. BufSize(p) \in Int /\ BufSize(p) <= room /\ room \in Int
      BY <1>0, <2>1, BufSizes
    <2> HIDE DEF room
    <2>4. Address(Place(b), room) = p * room + OffsetIn(p, k)
      BY <2>1, AddressIs
    <2>5. p \in Nat
      BY <1>0, <2>1
    <2>6. QED
      BY <2>1, <2>2, <2>3, <2>4, <2>5
  <1>2. ASSUME NEW b \in nonzero
        PROVE  Place(b)[1] \in Procs /\ Place(b)[2] + BlockSize(shape, b) <= room
    <2>1. PICK k, p : Lies(b, k, p)
      BY PlaceIs
    <2> HIDE DEF room
    <2>2. QED
      BY <1>1, <2>1
  <1>3. ASSUME NEW b \in nonzero, NEW c \in nonzero, b # c
        PROVE  \/ Address(Place(b), room) + BlockSize(shape, b) <= Address(Place(c), room)
               \/ Address(Place(c), room) + BlockSize(shape, c) <= Address(Place(b), room)
    <2>1. PICK k, p : Lies(b, k, p)
      BY PlaceIs
    <2>2. PICK l, q : Lies(c, l, q)
      BY PlaceIs
    <2>3. /\ k \in Blocks /\ l \in Blocks /\ p \in Procs /\ q \in Procs
          /\ IsProcOf(p, k) /\ IsProcOf(q, l) /\ blocks[k] = b /\ blocks[l] = c
      BY <2>1, <2>2 DEF Lies
    <2>4. k # l /\ k \in Nat /\ l \in Nat
      BY <1>0, <1>3, <2>3, DoneFacts
    <2>5. p = q => \/ OffsetIn(p, k) + size[k] <= OffsetIn(q, l)
                   \/ OffsetIn(q, l) + size[l] <= OffsetIn(p, k)
      BY <1>0, <2>3, <2>4, ApartWhenDone DEF Apart
    <2> DEFINE x == OffsetIn(p, k)
               y == OffsetIn(q, l)
               u == size[k]
               v == size[l]
    <2> HIDE DEF room
    <2>6. /\ room \in Int /\ p \in Nat /\ q \in Nat /\ x \in Nat /\ y \in Nat /\ u \in Nat /\ v \in Nat
          /\ x + u <= room /\ y + v <= room
          /\ u = BlockSize(shape, b) /\ v = BlockSize(shape, c)
          /\ Address(Place(b), room) = p * room + x /\ Address(Place(c), room) = q * room + y
      BY <1>1, <2>1, <2>2
    <2> HIDE DEF x, y, u, v
    <2>7. p = q => x + u <= y \/ y + v <= x
      BY <2>5 DEF x, y, u, v
    <2>8. \/ (p * room + x) + u <= q * room + y
          \/ (q * room + y) + v <= p * room + x
      BY <2>6, <2>7, RoomsApart
    <2>9. QED
      BY <2>6, <2>8
  <1>4. PutApart(nonzero, Place, room)
    <2> HIDE DEF room
    <2>1. ASSUME NEW x \in {Put(b) : b \in nonzero}, NEW y \in {Put(b) : b \in nonzero}, x # y
          PROVE  x.at + x.length <= y.at \/ y.at + y.length <= x.at
      <3>1. PICK b \in nonzero : x = Put(b)
        OBVIOUS
      <3>2. PICK c \in nonzero : y = Put(c)
        OBVIOUS
      <3>3. b # c
        BY <2>1, <3>1, <3>2
      <3>4. QED
        BY <1>3, <3>1, <3>2, <3>3
    <2>2. QED
      BY <1>2, <2>1 DEF PutApart
  <1>5. QED
    BY <1>2, <1>4

LEMMA DivMod ==
  ASSUME NEW a \in Nat, NEW n \in Nat \ {0}
  PROVE  /\ a \div n \in Nat /\ a % n \in Nat /\ a % n < n
         /\ a = n * (a \div n) + (a % n)
  OBVIOUS

LEMMA ModBelow ==
  ASSUME NEW a \in Nat, NEW n \in Nat \ {0}, a < n
  PROVE  a \div n = 0 /\ a % n = a
  OBVIOUS

LEMMA ProductLess ==
  ASSUME NEW n \in Nat, NEW c \in Nat, NEW d \in Nat
  PROVE  /\ c < d => n * c + n <= n * d
         /\ c <= d => n * c <= n * d
         /\ n * c \in Nat
  <1>1. n * c \in Nat /\ n * d \in Nat
    OBVIOUS
  <1>2. ASSUME c < d
        PROVE  n * c + n <= n * d
    <2>1. n * (c + 1) <= n * d /\ n * (c + 1) = n * c + n
      BY <1>2
    <2>2. QED
      BY <2>1
  <1>3. c <= d => n * c <= n * d
    OBVIOUS
  <1>4. QED
    BY <1>1, <1>2, <1>3

\* Of N things dealt to n, each gets no more than the share rounded up.
Share(N, n) == N \div n + (IF N % n # 0 THEN 1 ELSE 0)

LEMMA ShareIs ==
  ASSUME NEW N \in Nat, NEW n \in Nat \ {0}, NEW k \in Nat, k < N
  PROVE  Share(N, n) \in Nat /\ k \div n < Share(N, n)
  <1> DEFINE c == Share(N, n)
             d == N \div n
             e == k \div n
  <1>1. /\ d \in Nat /\ N % n \in Nat /\ N % n < n /\ N = n * d + (N % n)
        /\ e \in Nat /\ k % n \in Nat /\ k = n * e + (k % n)
    BY DivMod
  <1>2. c \in Nat /\ (N % n = 0 => c = d) /\ (N % n # 0 => c = d + 1)
    BY <1>1 DEF Share
  <1> HIDE DEF c, d, e
  <1>3. n * d \in Nat /\ n * e \in Nat /\ n * c \in Nat /\ n * (d + 1) = n * d + n
    BY <1>1, <1>2
  <1>4. N <= n * c
    <2>1. CASE N % n = 0
      BY <1>1, <1>2, <1>3, <2>1
    <2>2. CASE N % n # 0
      BY <1>1, <1>2, <1>3, <2>2
    <2>3. QED
      BY <2>1, <2>2
  <1>5. n * e < n * c
    BY <1>1, <1>3, <1>4
  <1>6. ~(c <= e)
    BY <1>1, <1>2, <1>3, <1>5, ProductLess
  <1>7. QED
    BY <1>1, <1>2, <1>6 DEF c, e

\* Where block number k of N is put on n processes.
Dealt(k, N, n, m) ==
  LET s == IF n \div N > 1 THEN n \div N ELSE 1
  IN  <<(k * s) % n, IF s # 1 THEN 0 ELSE (k \div n) * m>>

\* With more processes than blocks, every (n \div N)-th gets one.
LEMMA DealtWide ==
  ASSUME NEW N \in Nat \ {0}, NEW n \in Nat \ {0}, NEW m \in Nat, NEW k \in Nat, k < N,
         n \div N > 1
  PROVE  /\ Dealt(k, N, n, m) = <<k * (n \div N), 0>>
         /\ k * (n \div N) \in Nat /\ k * (n \div N) < n
  <1> DEFINE s == n \div N
  <1>1. Dealt(k, N, n, m) = <<(k * s) % n, 0>>
    BY DEF Dealt
  <1>2. s \in Nat /\ n % N \in Nat /\ n = N * s + (n % N)
    BY DivMod
  <1>3. s > 1
    OBVIOUS
  <1> HIDE DEF s
  <1>4. s * k + s <= s * N /\ s * k \in Nat
    BY <1>2, ProductLess
  <1>5. s * k = k * s /\ s * N = N * s /\ N * s \in Nat
    BY <1>2
  <1> DEFINE x == N * s
             y == k * s
             z == n % N
  <1>6. x \in Nat /\ y \in Nat /\ y + s <= x /\ n = x + z /\ z \in Nat
    BY <1>2, <1>4, <1>5
  <1>7. y < n
    <2> HIDE DEF x, y, z
    <2>1. QED
      BY <1>2, <1>3, <1>6
  <1>8. y % n = y
    <2> HIDE DEF y
    <2>1. QED
      BY <1>6, <1>7, ModBelow
  <1>9. QED
    BY <1>1, <1>6, <1>7, <1>8 DEF s

LEMMA DealtFits ==
  ASSUME NEW N \in Nat \ {0}, NEW n \in Nat \ {0}, NEW m \in Nat, NEW k \in Nat, k < N
  PROVE  /\ Dealt(k, N, n, m)[1] \in 0 .. n - 1
         /\ Dealt(k, N, n, m)[2] \in Nat
         /\ Dealt(k, N, n, m)[2] + m <= Share(N, n) * m
  <1> DEFINE c == Share(N, n)
             e == k \div n
             o == k % n
  <1>1. c \in Nat /\ e < c /\ e \in Nat /\ o \in 0 .. n - 1
    <2>1. c \in Nat /\ e < c
      BY ShareIs
    <2>2. e \in Nat /\ o \in Nat /\ o < n
      BY DivMod
    <2> HIDE DEF c, e, o
    <2>3. QED
      BY <2>1, <2>2
  <1>2. m + e * m <= c * m /\ e * m \in Nat /\ m <= c * m /\ c * m \in Nat
    <2> HIDE DEF c, e
    <2>1. m * e + m <= m * c /\ m * e \in Nat /\ m * c \in Nat
      BY <1>1, ProductLess
    <2>2. m * e = e * m /\ m * c = c * m
      BY <1>1
    <2>3. QED
      BY <2>1, <2>2
  <1>3. CASE n \div N > 1
    <2> DEFINE x == k * (n \div N)
    <2>1. Dealt(k, N, n, m) = <<x, 0>> /\ x \in Nat /\ x < n
      BY <1>3, DealtWide
    <2> HIDE DEF x, c
    <2>2. QED
      BY <1>2, <2>1 DEF c
  <1>4. CASE ~(n \div N > 1)
    <2>1. Dealt(k, N, n, m) = <<o, e * m>>
      <3>1. Dealt(k, N, n, m) = <<(k * 1) % n, e * m>>
        BY <1>4 DEF Dealt
      <3>2. k * 1 = k
        OBVIOUS
      <3>3. QED
        BY <3>1, <3>2
    <2> DEFINE y == e * m
               z == c * m
    <2>2. y \in Nat /\ z \in Nat /\ m + y <= z
      BY <1>2
    <2> HIDE DEF y, z, o
    <2>3. QED
      BY <1>1, <2>1, <2>2 DEF z
  <1>5. QED
    BY <1>3, <1>4

LEMMA DealtApart ==
  ASSUME NEW N \in Nat \ {0}, NEW n \in Nat \ {0}, NEW m \in Nat, NEW k \in Nat, k < N,
         NEW l \in Nat, l < N, k # l, Dealt(k, N, n, m)[1] = Dealt(l, N, n, m)[1]
  PROVE  \/ Dealt(k, N, n, m)[2] + m <= Dealt(l, N, n, m)[2]
         \/ Dealt(l, N, n, m)[2] + m <= Dealt(k, N, n, m)[2]
  <1> DEFINE s == n \div N
             d == k \div n
             e == l \div n
  <1>1. /\ s \in Nat /\ d \in Nat /\ e \in Nat
        /\ k = n * d + (k % n) /\ l = n * e + (l % n)
    BY DivMod
  <1>2. CASE s > 1
    <2>1. k * s = l * s
      <3>1. Dealt(k, N, n, m) = <<k * s, 0>> /\ Dealt(l, N, n, m) = <<l * s, 0>>
        BY <1>2, DealtWide
      <3> HIDE DEF s
      <3>2. QED
        BY <3>1
    <2> HIDE DEF s
    <2>2. k * s = s * k /\ l * s = s * l
      BY <1>1
    <2>3. ~(k < l) /\ ~(l < k)
      BY <1>1, <1>2, <2>1, <2>2, ProductLess
    <2>4. QED
      BY <2>3
  <1>3. CASE ~(s > 1)
    <2>1. /\ k % n = l % n
          /\ Dealt(k, N, n, m)[2] = d * m /\ Dealt(l, N, n, m)[2] = e * m
      <3>1. /\ Dealt(k, N, n, m) = <<(k * 1) % n, d * m>>
            /\ Dealt(l, N, n, m) = <<(l * 1) % n, e * m>>
        BY <1>3 DEF Dealt
      <3>2. k * 1 = k /\ l * 1 = l
        OBVIOUS
      <3> HIDE DEF d, e
      <3>3. QED
        BY <3>1, <3>2
    <2>2. d # e
      BY <1>1, <2>1
    <2> HIDE DEF d, e
    <2>3. d * m = m * d /\ e * m = m * e
      BY <1>1
    <2>4. m * d + m <= m * e \/ m * e + m <= m * d
      BY <1>1, <2>2, ProductLess
    <2>5. QED
      BY <2>1, <2>3, <2>4
  <1>4. QED
    BY <1>2, <1>3

\* The blocks of Distribution_SimpleRoundRobin lie apart (distribution.hpp:377-429).
LEMMA DealtBlocksApart ==
  ASSUME DistInv
  PROVE  /\ \A b \in BlockIds(shape) : RoundRobinPlace(b)[1] \in Procs
         /\ PutApart(BlockIds(shape), RoundRobinPlace, MaxProcBufSize)
  <1> DEFINE N == NumBlocks
             n == nproc
             m == MaxBlockSize
             room == MaxProcBufSize
             Put(b) == [block |-> b, at |-> Address(RoundRobinPlace(b), room),
                        length |-> BlockSize(shape, b)]
  <1>1. IsShape(shape) /\ N \in Nat \ {0}
    BY BlockFacts, FinitelyManyBlocks
  <1>2. n \in Nat \ {0} /\ Procs = 0 .. n - 1
    BY Types DEF DistInv, IInv, Procs
  <1>3. room = Share(N, n) * m
    BY DEF MaxProcBufSize, Share
  <1>4. \A b : RoundRobinPlace(b) = Dealt(Key(b), N, n, m)
    BY DEF RoundRobinPlace, Dealt, StepProc
  <1> HIDE DEF N, n, m
  <1>5. ASSUME NEW b \in BlockIds(shape)
        PROVE  /\ Key(b) \in Nat /\ Key(b) < N
               /\ BlockSize(shape, b) \in Nat /\ m \in Nat /\ BlockSize(shape, b) <= m
    BY <1>1, Keys, BlockSizes DEF N, m
  <1>6. ASSUME NEW b \in BlockIds(shape)
        PROVE  /\ RoundRobinPlace(b)[1] \in Procs /\ RoundRobinPlace(b)[1] \in Nat
               /\ RoundRobinPlace(b)[2] \in Nat /\ RoundRobinPlace(b)[2] + m <= room
               /\ room \in Int
               /\ Address(RoundRobinPlace(b), room)
                    = RoundRobinPlace(b)[1] * room + RoundRobinPlace(b)[2]
    <2> DEFINE k == Key(b)
    <2>1. k \in Nat /\ k < N /\ m \in Nat
      BY <1>5
    <2> HIDE DEF k
    <2>2. /\ Dealt(k, N, n, m)[1] \in 0 .. n - 1
          /\ Dealt(k, N, n, m)[2] \in Nat
          /\ Dealt(k, N, n, m)[2] + m <= Share(N, n) * m
      BY <1>1, <1>2, <2>1, DealtFits
    <2>3. Share(N, n) \in Nat
      BY <1>1, <1>2, <2>1, ShareIs
    <2>4. RoundRobinPlace(b) = Dealt(k, N, n, m)
      BY <1>4 DEF k
    <2>5. RoundRobinPlace(b)[1] \in Procs
      BY <1>2, <2>2, <2>4
    <2>6. room \in Int
      BY <1>3, <2>1, <2>3
    <2> HIDE DEF room
    <2>7. Address(RoundRobinPlace(b), room)
            = RoundRobinPlace(b)[1] * room + RoundRobinPlace(b)[2]
      BY <2>5 DEF Address, MapOf
    <2>8. QED
      BY <1>2, <1>3, <2>2, <2>4, <2>5, <2>6, <2>7
  <1>7. ASSUME NEW b \in BlockIds(shape), NEW c \in BlockIds(shape), b # c
        PROVE  \/ Address(RoundRobinPlace(b), room) + BlockSize(shape, b)
                    <= Address(RoundRobinPlace(c), room)
               \/ Address(RoundRobinPlace(c), room) + BlockSize(shape, c)
                    <= Address(RoundRobinPlace(b), room)
    <2> DEFINE p == RoundRobinPlace(b)[1]
               q == RoundRobinPlace(c)[1]
               x == RoundRobinPlace(b)[2]
               y == RoundRobinPlace(c)[2]
               u == BlockSize(shape, b)
               v == BlockSize(shape, c)
               k == Key(b)
               l == Key(c)
    <2>1. k \in Nat /\ k < N /\ l \in Nat /\ l < N /\ k # l /\ m \in Nat
      BY <1>1, <1>5, <1>7, Keys
    <2>2. p = q => x + m <= y \/ y + m <= x
      <3>1. RoundRobinPlace(b) = Dealt(k, N, n, m) /\ RoundRobinPlace(c) = Dealt(l, N, n, m)
        BY <1>4
      <3> HIDE DEF k, l
      <3>2. QED
        BY <1>1, <1>2, <2>1, <3>1, DealtApart
    <2> HIDE DEF room
    <2>3. /\ room \in Int /\ p \in Nat /\ q \in Nat /\ x \in Nat /\ y \in Nat
          /\ u \in Nat /\ v \in Nat /\ m \in Nat
          /\ x + m <= room /\ y + m <= room /\ u <= m /\ v <= m
          /\ Address(RoundRobinPlace(b), room) = p * room + x
          /\ Address(RoundRobinPlace(c), room) = q * room + y
      BY <1>5, <1>6
    <2> HIDE DEF p, q, x, y, u, v, k, l
    <2>4. /\ x + u <= room /\ y + v <= room
          /\ p = q => x + u <= y \/ y + v <= x
      BY <2>2, <2>3
    <2>5. \/ (p * room + x) + u <= q * room + y
          \/ (q * room + y) + v <= p * room + x
      BY <2>3, <2>4, RoomsApart
    <2>6. QED
      BY <2>3, <2>5 DEF u, v
  <1>8. PutApart(BlockIds(shape), RoundRobinPlace, room)
    <2> HIDE DEF room
    <2>1. \A b \in BlockIds(shape) : RoundRobinPlace(b)[2] + BlockSize(shape, b) <= room
      BY <1>5, <1>6
    <2>2. ASSUME NEW x \in {Put(b) : b \in BlockIds(shape)},
                 NEW y \in {Put(b) : b \in BlockIds(shape)}, x # y
          PROVE  x.at + x.length <= y.at \/ y.at + y.length <= x.at
      <3>1. PICK b \in BlockIds(shape) : x = Put(b)
        OBVIOUS
      <3>2. PICK c \in BlockIds(shape) : y = Put(c)
        OBVIOUS
      <3>3. b # c
        BY <2>2, <3>1, <3>2
      <3>4. QED
        BY <1>7, <3>1, <3>2, <3>3
    <2>3. QED
      BY <2>1, <2>2 DEF PutApart
  <1>9. QED
    BY <1>6, <1>8

-----------------------------------------------------------------------------

\* The layout is that of the non-zero blocks of the tensor throughout.
LEMMA DistInvariant == DistSpec => []DistInv
  <1> DEFINE Fixed == /\ tensor \in Tensors /\ blocks = SortByKey(nonzero)
                      /\ nblocks = Len(blocks)
                      /\ size = [k \in DOMAIN blocks |-> BlockSize(shape, blocks[k])]
  <1>1. DistInit => Init /\ Fixed
    BY DEF DistInit
  <1>2. [DistNext]_<<vars, tensor, blocks>> => [Next]_vars
    BY DEF DistNext
  <1>3. Fixed /\ [DistNext]_<<vars, tensor, blocks>> => Fixed'
    <2> SUFFICES ASSUME Fixed, [DistNext]_<<vars, tensor, blocks>>
                 PROVE  Fixed'
      OBVIOUS
    <2>1. tensor' = tensor /\ blocks' = blocks
      BY DEF DistNext
    <2>2. nblocks' = nblocks /\ size' = size
      BY DEF DistNext, Next, SumOffsets, EndSum, BeginPart, EndParts, vars, input
    <2>3. shape' = shape /\ nonzero' = nonzero
      BY <2>1 DEF shape, nonzero
    <2>4. SortByKey(nonzero)' = SortByKey(nonzero)
      BY <2>3 DEF SortByKey, Key
    <2>5. (size = [k \in DOMAIN blocks |-> BlockSize(shape, blocks[k])])'
      BY <2>1, <2>2, <2>3
    <2>6. QED
      BY <2>1, <2>2, <2>4, <2>5
  <1>4. DistSpec => Spec
    BY <1>1, <1>2, PTL DEF DistSpec, Spec
  <1>5. DistSpec => []Fixed
    BY <1>1, <1>3, PTL DEF DistSpec
  <1>6. IInv /\ Fixed => DistInv
    BY DEF DistInv
  <1> HIDE DEF Fixed
  <1>7. QED
    BY <1>4, <1>5, <1>6, Invariant, PTL

\* Whatever the tensors, which of their blocks are zero and the number of
\* processes, the blocks lie apart in the parts of their processes, of both
\* distributions (distribution.hpp:211-233, 270-309, 337-358, 377-402, 414-429).
THEOREM BlocksApartAlways == DistSpec => []BlocksApart
  <1>1. DistInv => BlocksApart
    <2> SUFFICES ASSUME DistInv, pc = "done"
                 PROVE  /\ \A b \in nonzero : Place(b)[1] \in Procs /\ RoundRobinPlace(b)[1] \in Procs
                        /\ PutApart(nonzero, Place, LargestBufSize)
                        /\ PutApart(BlockIds(shape), RoundRobinPlace, MaxProcBufSize)
      BY DEF BlocksApart
    <2>1. nonzero \subseteq BlockIds(shape)
      BY BlockFacts
    <2>2. QED
      BY <2>1, SortedBlocksApart, DealtBlocksApart
  <1>2. QED
    BY <1>1, DistInvariant, PTL

-----------------------------------------------------------------------------
(* Views with unit tiles.                                                  *)

LEMMA SumPlus ==
  ASSUME NEW S, IsFiniteSet(S), NEW f, NEW g, NEW h,
         \A x \in S : f[x] \in Int /\ g[x] \in Int /\ h[x] = f[x] + g[x]
  PROVE  SumFunctionOnSet(h, S) = SumFunctionOnSet(f, S) + SumFunctionOnSet(g, S)
  <1> DEFINE F(s) == SumFunctionOnSet(f, s)
             G(s) == SumFunctionOnSet(g, s)
             H(s) == SumFunctionOnSet(h, s)
             Bad == {s \in SUBSET S : H(s) # F(s) + G(s)}
  <1> SUFFICES ASSUME Bad # {}
               PROVE  FALSE
    OBVIOUS
  <1>1. PICK s \in Bad : \A u \in Bad : u \subseteq s => u = s
    <2>1. Bad \subseteq SUBSET S
      OBVIOUS
    <2> HIDE DEF Bad
    <2>2. QED
      BY <2>1, SmallestSet
  <1>2. IsFiniteSet(s)
    BY FS_Subset
  <1>3. s # {}
    <2>1. H({}) = 0 /\ F({}) = 0 /\ G({}) = 0
      BY SumEmpty
    <2>2. H({}) = F({}) + G({})
      BY <2>1
    <2>3. H(s) # F(s) + G(s)
      OBVIOUS
    <2> HIDE DEF F, G, H, Bad
    <2>4. QED
      BY <2>2, <2>3
  <1> DEFINE u == s \ {Some(s)}
             a == f[Some(s)]
             b == g[Some(s)]
  <1>4. /\ u \subseteq s /\ u # s /\ u \in SUBSET S /\ a \in Int /\ b \in Int
        /\ h[Some(s)] = a + b
    BY <1>3, SomeOf
  <1>5. F(s) = a + F(u) /\ G(s) = b + G(u) /\ H(s) = (a + b) + H(u)
    BY <1>2, <1>3, <1>4, SumUnfold
  <1>6. H(u) = F(u) + G(u) /\ H(s) # F(s) + G(s)
    BY <1>1, <1>4
  <1>7. F(u) \in Int /\ G(u) \in Int
    <2>1. IsFiniteSet(u) /\ \A x \in u : f[x] \in Int /\ g[x] \in Int
      BY <1>2, <1>4, FS_Subset
    <2> HIDE DEF u
    <2>2. QED
      BY <2>1, SumType
  <1> HIDE DEF F, G, H, Bad, u, a, b
  <1>8. QED
    BY <1>4, <1>5, <1>6, <1>7

\* Where the tiles of a dimension begin.
LEMMA TileOffsets ==
  ASSUME NEW d, d.tiles \in Seq(Nat \ {0}), NEW t \in 0 .. Len(d.tiles)
  PROVE  /\ TileOffset(d, t) \in Nat
         /\ t = 0 => TileOffset(d, t) = 0
         /\ t > 0 => TileOffset(d, t) = TileOffset(d, t - 1) + d.tiles[t]
  <1> DEFINE f == d.tiles
             S == 1 .. t
  <1>1. Len(f) \in Nat /\ t \in Nat /\ S \subseteq 1 .. Len(f) /\ IsFiniteSet(S)
    BY FS_Interval
  <1>2. \A x \in S : f[x] \in Nat
    BY <1>1
  <1>3. SumFunctionOnSet(f, S) \in Nat
    <2> HIDE DEF f, S
    <2>1. QED
      BY <1>1, <1>2, SumNat
  <1>4. t = 0 => SumFunctionOnSet(f, S) = 0
    <2>1. t = 0 => S = {}
      OBVIOUS
    <2> HIDE DEF f, S
    <2>2. QED
      BY <2>1, SumEmpty
  <1>5. ASSUME t > 0
        PROVE  SumFunctionOnSet(f, S) = SumFunctionOnSet(f, 1 .. t - 1) + f[t]
    <2> DEFINE T == 1 .. t - 1
    <2>1. S = T \cup {t} /\ t \notin T /\ IsFiniteSet(T)
      <3>1. t - 1 \in Int /\ t \in Int
        BY <1>1
      <3>2. IsFiniteSet(T)
        BY <3>1, FS_Interval
      <3>3. QED
        BY <1>1, <1>5, <3>2
    <2> HIDE DEF f, S, T
    <2>2. \A x \in T \cup {t} : f[x] \in Int
      BY <1>2, <2>1
    <2>3. SumFunctionOnSet(f, T \cup {t}) = SumFunctionOnSet(f, T) + f[t]
      BY <2>1, <2>2, SumAdd
    <2>4. QED
      BY <2>1, <2>3 DEF T
  <1>6. QED
    BY <1>3, <1>4, <1>5 DEF TileOffset

\* A tile ends no later than any after it begins.
LEMMA TilesInOrder ==
  ASSUME NEW d, d.tiles \in Seq(Nat \ {0}), NEW s \in Nat, NEW t \in 0 .. Len(d.tiles), s < t
  PROVE  TileOffset(d, s) + d.tiles[s + 1] <= TileOffset(d, t)
  <1> DEFINE n == Len(d.tiles)
             Bad == {k \in s + 1 .. n : ~(TileOffset(d, s + 1) <= TileOffset(d, k))}
  <1>1. n \in Nat /\ \A k \in 0 .. n : TileOffset(d, k) \in Nat
    BY TileOffsets
  <1>2. Bad = {}
    <2> SUFFICES ASSUME Bad # {}
                 PROVE  FALSE
      OBVIOUS
    <2>1. PICK k \in Bad : \A j \in Bad : k <= j
      <3>1. Bad \subseteq Nat
        BY <1>1
      <3> HIDE DEF Bad
      <3>2. QED
        BY <3>1, LeastNat
    <2>2. k \in 1 .. n /\ k > s + 1 /\ k - 1 \in s + 1 .. n /\ k - 1 \in 0 .. n /\ s + 1 \in 0 .. n
      <3>1. k \in s + 1 .. n /\ n \in Nat /\ s \in Nat /\ k # s + 1
        <4>1. k # s + 1
          BY <1>1
        <4>2. QED
          BY <1>1, <4>1
      <3> HIDE DEF n, Bad
      <3>2. QED
        BY ONLY <3>1
    <2>3. TileOffset(d, s + 1) <= TileOffset(d, k - 1)
      BY <2>1, <2>2
    <2>4. TileOffset(d, k) = TileOffset(d, k - 1) + d.tiles[k]
      BY <2>2, TileOffsets
    <2>5. d.tiles[k] \in Nat
      BY <2>2
    <2> DEFINE x == TileOffset(d, s + 1)
               y == TileOffset(d, k - 1)
               z == d.tiles[k]
    <2>8. x \in Nat /\ y \in Nat /\ z \in Nat /\ x <= y /\ TileOffset(d, k) = y + z
      BY <1>1, <2>2, <2>3, <2>4, <2>5
    <2>6. x <= TileOffset(d, k)
      <3> HIDE DEF x, y, z
      <3>1. QED
        BY <2>8
    <2>7. QED
      BY <2>1, <2>6
  <1>3. TileOffset(d, s + 1) = TileOffset(d, s) + d.tiles[s + 1]
    <2>1. s + 1 \in 0 .. Len(d.tiles) /\ s + 1 > 0 /\ (s + 1) - 1 = s
      BY <1>1
    <2>2. QED
      BY <2>1, TileOffsets
  <1>4. TileOffset(d, s + 1) <= TileOffset(d, t)
    <2>1. t \in s + 1 .. n
      BY <1>1
    <2>2. QED
      BY <1>2, <2>1
  <1>5. QED
    BY <1>3, <1>4

\* The tile of an element is the one it lies in.
LEMMA FindTileIs ==
  ASSUME NEW d, d.tiles \in Seq(Nat \ {0}), NEW t \in 0 .. Len(d.tiles) - 1,
         NEW y \in Nat, y < d.tiles[t + 1]
  PROVE  /\ FindTile(TileOffset(d, t) + y, d) = t
         /\ TileOffset(d, t) + y \in Nat
         /\ TileOffset(d, t) + y < NumIndices(d)
  <1> DEFINE n == Len(d.tiles)
             x == TileOffset(d, t) + y
             Has(u) == TileOffset(d, u) <= x /\ x < TileOffset(d, u + 1)
  <1>1. /\ n \in Nat /\ t \in Nat /\ t + 1 \in 0 .. n /\ t \in 0 .. n
        /\ \A k \in 0 .. n : TileOffset(d, k) \in Nat
    BY TileOffsets
  <1>2. TileOffset(d, t + 1) = TileOffset(d, t) + d.tiles[t + 1]
    <2>1. t + 1 > 0 /\ (t + 1) - 1 = t
      BY <1>1
    <2>2. QED
      BY <1>1, <2>1, TileOffsets
  <1>3. \A k \in 1 .. n : d.tiles[k] \in Nat
    OBVIOUS
  <1>4. x \in Nat /\ Has(t)
    <2> DEFINE a == TileOffset(d, t)
               b == TileOffset(d, t + 1)
               c == d.tiles[t + 1]
    <2>1. a \in Nat /\ b = a + c /\ c \in Nat /\ y < c
      <3>1. t + 1 \in 1 .. n
        BY <1>1
      <3>2. QED
        BY <1>1, <1>2, <1>3, <3>1
    <2> HIDE DEF a, b, c
    <2>2. a + y \in Nat /\ a <= a + y /\ a + y < b
      BY <2>1
    <2>3. QED
      BY <2>2 DEF a, b
  <1>5. ASSUME NEW u \in 0 .. n - 1, Has(u)
        PROVE  u = t
    <2>1. u \in Nat /\ u + 1 \in 0 .. n /\ u \in 0 .. n
      BY <1>1
    <2>2. ASSUME NEW v \in 0 .. n - 1, NEW w \in 0 .. n - 1, v < w, Has(v), Has(w)
          PROVE  FALSE
      <3>1. v \in Nat /\ w \in 0 .. n /\ v + 1 \in 0 .. n /\ v \in 0 .. n /\ (v + 1) - 1 = v /\ v + 1 > 0
        <4>1. v \in 0 .. n - 1 /\ w \in 0 .. n - 1 /\ n \in Nat
          BY <1>1
        <4> HIDE DEF Has, n, x
        <4>2. QED
          BY ONLY <4>1
      <3>2. TileOffset(d, v) + d.tiles[v + 1] <= TileOffset(d, w)
        BY <2>2, <3>1, TilesInOrder
      <3>3. TileOffset(d, v + 1) = TileOffset(d, v) + d.tiles[v + 1]
        BY <3>1, TileOffsets
      <3>4. x < TileOffset(d, v + 1) /\ TileOffset(d, w) <= x
        BY <2>2
      <3> DEFINE a == TileOffset(d, v + 1)
                 b == TileOffset(d, w)
      <3>5. a \in Nat /\ b \in Nat /\ a <= b /\ x < a /\ b <= x /\ x \in Nat
        BY <1>1, <1>4, <3>1, <3>2, <3>3, <3>4
      <3> HIDE DEF x, a, b
      <3>6. QED
        BY <3>5
    <2>3. ~(u < t) /\ ~(t < u)
      BY <1>4, <1>5, <2>2
    <2>4. QED
      BY <1>1, <2>1, <2>3
  <1>6. FindTile(x, d) = t
    <2>1. FindTile(x, d) = CHOOSE u \in 0 .. n - 1 : Has(u)
      BY DEF FindTile, NumTiles
    <2> HIDE DEF Has
    <2>2. QED
      BY <1>4, <1>5, <2>1
  <1>7. x < NumIndices(d)
    <2>1. NumIndices(d) = TileOffset(d, n)
      BY DEF NumIndices, SumSeq, TileOffset
    <2>2. CASE t + 1 = n
      BY <1>4, <2>1, <2>2
    <2>3. CASE t + 1 # n
      <3>1. t < n /\ n \in 0 .. Len(d.tiles)
        BY <1>1, <2>3
      <3>2. TileOffset(d, t) + d.tiles[t + 1] <= TileOffset(d, n)
        BY <1>1, <3>1, TilesInOrder
      <3>3. /\ TileOffset(d, t + 1) <= TileOffset(d, n) /\ x < TileOffset(d, t + 1)
            /\ TileOffset(d, t + 1) \in Nat /\ TileOffset(d, n) \in Nat /\ x \in Nat
        BY <1>1, <1>2, <1>4, <3>1, <3>2
      <3> HIDE DEF n, x
      <3>4. QED
        BY <2>1, <3>3
    <2>4. QED
      BY <2>2, <2>3
  <1>8. QED
    BY <1>4, <1>6, <1>7

\* As many tiles as elements: each tile is one element.
LEMMA UnitTiles ==
  ASSUME NEW d, d.tiles \in Seq(Nat \ {0}), NumTiles(d) = NumIndices(d),
         NEW t \in 0 .. Len(d.tiles) - 1
  PROVE  FindTile(t, d) = t /\ TileOffset(d, t) = t
  <1> DEFINE n == Len(d.tiles)
             T == {k \in 0 .. n : TileOffset(d, k) >= k}
  <1>1. n \in Nat /\ \A k \in 0 .. n : TileOffset(d, k) \in Nat
    BY TileOffsets
  <1>2. 0 .. n \subseteq T
    <2>1. 0 \in T
      BY <1>1, TileOffsets
    <2>2. ASSUME NEW k \in 1 .. n, k - 1 \in T
          PROVE  k \in T
      <3>1. k \in 0 .. n /\ k > 0 /\ k - 1 \in 0 .. n
        BY <1>1
      <3>2. TileOffset(d, k) = TileOffset(d, k - 1) + d.tiles[k]
        BY <3>1, TileOffsets
      <3>3. d.tiles[k] \in Nat /\ d.tiles[k] >= 1
        <4>1. d.tiles[k] \in Nat \ {0}
          OBVIOUS
        <4>2. QED
          BY <4>1
      <3>4. TileOffset(d, k - 1) >= k - 1
        BY <2>2
      <3> DEFINE x == TileOffset(d, k - 1)
                 z == d.tiles[k]
      <3>5. x \in Nat /\ z \in Nat /\ z >= 1 /\ x >= k - 1 /\ TileOffset(d, k) = x + z /\ k \in Nat
        <4>1. x \in Nat /\ k \in Nat
          BY <1>1, <3>1
        <4>2. QED
          BY <3>2, <3>3, <3>4, <4>1
      <3>6. TileOffset(d, k) >= k
        <4> HIDE DEF x, z
        <4>1. QED
          BY <3>5
      <3>7. QED
        BY <3>1, <3>6
    <2> HIDE DEF T
    <2>3. QED
      BY <1>1, <2>1, <2>2, UpFromZero
  <1> DEFINE U == {k \in 0 .. n : TileOffset(d, n - k) <= n - k}
  <1>3. TileOffset(d, n) = n
    <2>1. NumIndices(d) = TileOffset(d, n)
      BY DEF NumIndices, SumSeq, TileOffset
    <2>2. QED
      BY <2>1 DEF NumTiles
  <1>4. 0 .. n \subseteq U
    <2>1. 0 \in U
      BY <1>1, <1>3
    <2>2. ASSUME NEW k \in 1 .. n, k - 1 \in U
          PROVE  k \in U
      <3> DEFINE j == n - (k - 1)
      <3>1. j \in 1 .. n /\ j \in 0 .. n /\ j > 0 /\ j - 1 \in 0 .. n /\ n - k = j - 1
        BY <1>1
      <3>2. TileOffset(d, j) = TileOffset(d, j - 1) + d.tiles[j]
        BY <3>1, TileOffsets
      <3>3. d.tiles[j] \in Nat /\ d.tiles[j] >= 1
        <4>1. \A q \in 1 .. n : d.tiles[q] \in Nat \ {0}
          OBVIOUS
        <4> HIDE DEF n, j
        <4>2. d.tiles[j] \in Nat \ {0}
          BY <3>1, <4>1
        <4>3. QED
          BY <4>2
      <3>4. TileOffset(d, j) <= j
        BY <2>2
      <3> DEFINE x == TileOffset(d, j - 1)
                 z == d.tiles[j]
      <3>5. x \in Nat /\ z \in Nat /\ z >= 1 /\ x + z <= j /\ j \in Nat
        <4>1. x \in Nat /\ j \in Nat
          <5>1. j \in Nat /\ j - 1 \in 0 .. n
            BY <1>1, <3>1
          <5> HIDE DEF j
          <5>2. QED
            BY <1>1, <5>1
        <4>2. QED
          BY <3>2, <3>3, <3>4, <4>1
      <3>6. x <= j - 1
        <4> HIDE DEF x, z, j
        <4>1. QED
          BY <3>5
      <3>7. k \in 0 .. n /\ TileOffset(d, n - k) = x
        BY <1>1, <3>1
      <3> HIDE DEF x, j
      <3>8. QED
        BY <3>1, <3>6, <3>7
    <2> HIDE DEF U
    <2>3. QED
      BY <1>1, <2>1, <2>2, UpFromZero
  <1>5. \A k \in 0 .. n : TileOffset(d, k) = k
    <2> SUFFICES ASSUME NEW k \in 0 .. n
                 PROVE  TileOffset(d, k) = k
      OBVIOUS
    <2>1. n - k \in 0 .. n /\ n - (n - k) = k
      BY <1>1
    <2>2. TileOffset(d, k) <= k /\ TileOffset(d, k) >= k
      BY <1>2, <1>4, <2>1
    <2>3. QED
      BY <1>1, <2>2
  <1>6. t \in 0 .. n /\ d.tiles[t + 1] \in Nat \ {0} /\ t + 0 = t
    BY <1>1
  <1>7. FindTile(TileOffset(d, t) + 0, d) = t
    BY <1>6, FindTileIs
  <1>8. QED
    BY <1>5, <1>6, <1>7

\* Where an element of a block is in the view: the block, and the element in it.
ViewBlock(u, b, e) ==
  [r \in DOMAIN b |-> IF r <= u THEN TileOffset(shape[r], b[r]) + e[r] ELSE b[r]]
InView(u, b, e) == [r \in DOMAIN b |-> IF r <= u THEN 0 ELSE e[r]]

\* e is an element of block b.
IsElement(b, e) ==
  /\ IsShape(shape)
  /\ b \in BlockIds(shape)
  /\ e \in Tuples(BlockDims(shape, b))

LEMMA ElementFacts ==
  ASSUME NEW b, NEW e, IsElement(b, e)
  PROVE  /\ DOMAIN b = DOMAIN shape /\ DOMAIN shape = 1 .. Len(shape) /\ Len(shape) \in Nat
         /\ b \in [DOMAIN shape -> Nat]
         /\ BlockDims(shape, b) \in Seq(Nat) /\ DOMAIN BlockDims(shape, b) = DOMAIN shape
         /\ Len(BlockDims(shape, b)) = Len(shape)
         /\ \A r \in DOMAIN shape :
              /\ shape[r].tiles \in Seq(Nat \ {0})
              /\ b[r] \in 0 .. Len(shape[r].tiles) - 1
              /\ BlockDims(shape, b)[r] = shape[r].tiles[b[r] + 1]
              /\ e[r] \in Nat /\ e[r] < shape[r].tiles[b[r] + 1]
  <1> DEFINE D == BlockDims(shape, b)
  <1>1. /\ IsShape(shape) /\ DOMAIN shape = 1 .. Len(shape) /\ Len(shape) \in Nat
        /\ Extents \in Seq(Nat) /\ Len(Extents) = Len(shape)
        /\ \A r \in DOMAIN shape : /\ shape[r].tiles \in Seq(Nat \ {0})
                                   /\ Extents[r] = Len(shape[r].tiles)
    BY ShapeFacts DEF IsElement
  <1>2. IsBelow(b, Extents) /\ b \in [1 .. Len(shape) -> Nat]
    BY <1>1, Keys DEF IsElement
  <1>3. ASSUME NEW r \in DOMAIN shape
        PROVE  /\ b[r] \in 0 .. Len(shape[r].tiles) - 1
               /\ D[r] = shape[r].tiles[b[r] + 1] /\ D[r] \in Nat
    <2>1. b[r] \in Nat /\ b[r] < Len(shape[r].tiles)
      BY <1>1, <1>2 DEF IsBelow
    <2> DEFINE tiles == shape[r].tiles
    <2>2. tiles \in Seq(Nat \ {0}) /\ Len(tiles) \in Nat
      BY <1>1
    <2>3. D[r] = tiles[b[r] + 1]
      BY DEF BlockDims
    <2> HIDE DEF tiles
    <2>4. b[r] + 1 \in 1 .. Len(tiles) /\ b[r] \in 0 .. Len(tiles) - 1
      BY <2>1, <2>2 DEF tiles
    <2>5. tiles[b[r] + 1] \in Nat
      BY <2>2, <2>4
    <2>6. QED
      BY <2>3, <2>4, <2>5 DEF tiles
  <1>4. D \in [1 .. Len(shape) -> Nat]
    BY <1>1, <1>3 DEF BlockDims
  <1>5. D \in Seq(Nat) /\ DOMAIN D = DOMAIN shape /\ Len(D) = Len(shape)
    <2> DEFINE n == Len(shape)
    <2>1. n \in Nat /\ D \in [1 .. n -> Nat] /\ DOMAIN shape = 1 .. n
      BY <1>1, <1>4
    <2> HIDE DEF D, n
    <2>2. D \in Seq(Nat) /\ DOMAIN D = 1 .. n /\ Len(D) = n
      BY ONLY <2>1
    <2>3. QED
      BY <2>1, <2>2 DEF n
  <1>6. IsBelow(e, D)
    BY <1>5, Below DEF IsElement
  <1>7. ASSUME NEW r \in DOMAIN shape
        PROVE  e[r] \in Nat /\ e[r] < shape[r].tiles[b[r] + 1]
    <2>1. r \in 1 .. Len(D)
      BY <1>1, <1>5
    <2>2. e[r] \in Nat /\ e[r] < D[r]
      BY <1>6, <2>1 DEF IsBelow
    <2>3. QED
      BY <1>3, <2>2
  <1>8. QED
    BY <1>1, <1>2, <1>3, <1>5, <1>7

\* One dimension of the view.
LEMMA ViewOf ==
  ASSUME NEW b, NEW e, IsElement(b, e), NEW u \in DOMAIN shape, NEW r \in DOMAIN shape
  PROVE  /\ r <= u => /\ r \in UnitTiledDims(u)
                      /\ ViewBlock(u, b, e)[r] = TileOffset(shape[r], b[r]) + e[r]
                      /\ UnitShape(u)[r].tiles[ViewBlock(u, b, e)[r] + 1] = 1
         /\ r > u => /\ ViewBlock(u, b, e)[r] = b[r]
                     /\ UnitShape(u)[r].tiles[ViewBlock(u, b, e)[r] + 1]
                          = shape[r].tiles[b[r] + 1]
         /\ r \in UnitTiledDims(u) =>
              /\ FindTile(ViewBlock(u, b, e)[r], shape[r]) = b[r]
              /\ FindRemainingOffset(ViewBlock(u, b, e)[r], shape[r])
                   = IF r <= u THEN e[r] ELSE 0
  <1> DEFINE d == shape[r]
             t == b[r]
             y == e[r]
             v == ViewBlock(u, b, e)[r]
  <1>1. /\ d.tiles \in Seq(Nat \ {0}) /\ t \in 0 .. Len(d.tiles) - 1 /\ t \in Nat
        /\ y \in Nat /\ y < d.tiles[t + 1] /\ r \in DOMAIN b /\ r \in Nat /\ u \in Nat
    <2>1. r \in DOMAIN b /\ r \in Nat /\ u \in Nat
      BY ElementFacts
    <2>2. /\ d.tiles \in Seq(Nat \ {0}) /\ t \in 0 .. Len(d.tiles) - 1
          /\ y \in Nat /\ y < d.tiles[t + 1]
      BY ElementFacts
    <2>3. t \in Nat
      BY <2>2
    <2>4. QED
      BY <2>1, <2>2, <2>3
  <1>2. v = IF r <= u THEN TileOffset(d, t) + y ELSE t
    BY <1>1 DEF ViewBlock
  <1>3. UnitShape(u)[r] = IF r <= u THEN UnitDim(d) ELSE d
    BY DEF UnitShape, ViewDim
  <1> DEFINE n == NumIndices(d)
             o == TileOffset(d, t)
  <1>4. FindTile(o + y, d) = t /\ o + y \in Nat /\ o + y < n
    BY <1>1, FindTileIs
  <1>5. n \in Nat /\ o \in Nat
    <2>1. Len(d.tiles) \in 0 .. Len(d.tiles) /\ t \in 0 .. Len(d.tiles)
      BY <1>1
    <2>2. n = TileOffset(d, Len(d.tiles))
      BY DEF NumIndices, SumSeq, TileOffset
    <2>3. QED
      BY <1>1, <2>1, <2>2, TileOffsets
  <1>6. ViewDim(u, r) = IF r <= u THEN UnitDim(d) ELSE d
    BY DEF ViewDim
  <1>7. r \in UnitTiledDims(u) <=> NumTiles(ViewDim(u, r)) = n
    BY DEF UnitTiledDims
  <1> HIDE DEF d, t, y, v, o, n
  <1>8. CASE r <= u
    <2>1. UnitDim(d).tiles = [k \in 1 .. n |-> 1]
      BY DEF UnitDim, n
    <2>2. NumTiles(UnitDim(d)) = n
      BY <1>5, <2>1 DEF NumTiles
    <2>3. o + y + 1 \in 1 .. n
      BY <1>1, <1>4, <1>5
    <2>4. FindRemainingOffset(o + y, d) = (o + y) - o
      BY <1>4 DEF FindRemainingOffset, o
    <2>5. (o + y) - o = y
      BY <1>1, <1>5
    <2>6. v = o + y /\ v + 1 \in 1 .. n /\ r \in UnitTiledDims(u)
      BY <1>2, <1>6, <1>7, <1>8, <2>2, <2>3 DEF o
    <2>7. UnitShape(u)[r].tiles[v + 1] = 1
      BY <1>3, <1>8, <2>1, <2>6
    <2>8. r <= u /\ ~(r > u)
      BY <1>1, <1>8
    <2>9. QED
      BY <1>4, <2>4, <2>5, <2>6, <2>7, <2>8 DEF d, t, y, v, o
  <1>9. CASE ~(r <= u)
    <2>1. v = t /\ UnitShape(u)[r] = d
      BY <1>2, <1>3, <1>9
    <2>2. ASSUME r \in UnitTiledDims(u)
          PROVE  FindTile(t, d) = t /\ FindRemainingOffset(t, d) = 0
      <3>1. NumTiles(d) = NumIndices(d)
        BY <1>6, <1>7, <1>9, <2>2 DEF n
      <3>2. FindTile(t, d) = t /\ TileOffset(d, t) = t
        BY <1>1, <3>1, UnitTiles
      <3>3. QED
        BY <1>1, <3>2 DEF FindRemainingOffset
    <2>3. QED
      BY <1>9, <2>1, <2>2 DEF d, t, y, v
  <1>10. QED
    BY <1>8, <1>9

\* The block of the base tensor is found.
LEMMA TranslatedBlock ==
  ASSUME NEW b, NEW e, IsElement(b, e), NEW u \in DOMAIN shape
  PROVE  TranslateBlockid(u, ViewBlock(u, b, e)) = b
  <1> DEFINE view == ViewBlock(u, b, e)
             U == UnitTiledDims(u)
             c == TranslateBlockid(u, view)
  <1>1. DOMAIN view = DOMAIN b /\ DOMAIN b = DOMAIN shape /\ b \in [DOMAIN shape -> Nat]
    BY ElementFacts DEF ViewBlock
  <1>2. c = [r \in DOMAIN shape |-> IF r \in U THEN FindTile(view[r], shape[r]) ELSE view[r]]
    BY <1>1 DEF TranslateBlockid
  <1>3. ASSUME NEW r \in DOMAIN shape
        PROVE  c[r] = b[r]
    <2>1. r \in Nat /\ u \in Nat
      BY ElementFacts
    <2>2. CASE r \in U
      <3>1. FindTile(view[r], shape[r]) = b[r]
        BY <2>2, ViewOf
      <3>2. QED
        BY <1>2, <2>2, <3>1
    <2>3. CASE r \notin U
      <3>1. r > u
        BY <2>1, <2>3, ViewOf
      <3>2. view[r] = b[r]
        BY <3>1, ViewOf
      <3>3. QED
        BY <1>2, <2>3, <3>2
    <2>4. QED
      BY <2>2, <2>3
  <1>4. QED
    BY <1>1, <1>2, <1>3

\* From dimension u on, the strides of a block of the view are those of the block.
LEMMA ViewStrides ==
  ASSUME NEW b, NEW e, IsElement(b, e), NEW u \in DOMAIN shape, NEW r \in DOMAIN shape,
         NEW dims, dims = BlockDims(UnitShape(u), ViewBlock(u, b, e))
  PROVE  /\ DOMAIN dims = DOMAIN shape
         /\ Strides(BlockDims(shape, b))[r] \in Nat
         /\ Strides(dims)[r] \in Nat
         /\ r > u => Strides(dims)[r] = Strides(BlockDims(shape, b))[r]
  <1> DEFINE D == BlockDims(shape, b)
             n == Len(shape)
             S == r + 1 .. n
  <1>1. /\ DOMAIN shape = 1 .. n /\ n \in Nat /\ D \in Seq(Nat) /\ DOMAIN D = 1 .. n
        /\ Len(D) = n /\ r \in Nat /\ u \in Nat
    BY ElementFacts
  <1>2. \A q \in 1 .. n : D[q] \in Nat /\ D[q] = shape[q].tiles[b[q] + 1]
    <2>1. \A q \in 1 .. n : D[q] = shape[q].tiles[b[q] + 1]
      BY <1>1, ElementFacts
    <2>2. \A q \in 1 .. n : D[q] \in Nat
      <3> HIDE DEF D, n
      <3>1. QED
        BY <1>1
    <2>3. QED
      BY <2>1, <2>2
  <1>3. DOMAIN dims = 1 .. n
    BY <1>1 DEF BlockDims, UnitShape
  <1>4. ASSUME NEW q \in 1 .. n
        PROVE  dims[q] \in Nat /\ (q > u => dims[q] = D[q])
    <2>1. q \in DOMAIN shape /\ q \in Nat
      BY <1>1
    <2>2. dims[q] = UnitShape(u)[q].tiles[ViewBlock(u, b, e)[q] + 1]
      BY <1>1, <2>1 DEF BlockDims, UnitShape
    <2>3. CASE q <= u
      <3>1. dims[q] = 1
        BY <2>1, <2>2, <2>3, ViewOf
      <3>2. QED
        BY <1>1, <2>1, <2>3, <3>1
    <2>4. CASE q > u
      <3>1. dims[q] = shape[q].tiles[b[q] + 1]
        BY <2>1, <2>2, <2>4, ViewOf
      <3>2. QED
        BY <1>2, <3>1
    <2>5. QED
      BY <1>1, <2>1, <2>3, <2>4
  <1>5. dims \in Seq(Nat) /\ Len(dims) = n
    <2>1. dims = [q \in 1 .. n |-> dims[q]]
      BY <1>1 DEF BlockDims, UnitShape
    <2> HIDE DEF D, n
    <2>2. QED
      BY <1>1, <1>3, <1>4, <2>1
  <1>6. r \in 1 .. n /\ r \in 0 .. n
    BY <1>1
  <1>7. Strides(D)[r] = ProductOn(D, S) /\ Strides(dims)[r] = ProductOn(dims, S)
    BY <1>1, <1>3, <1>5, <1>6 DEF Strides
  <1>8. IsFiniteSet(S) /\ S \subseteq 1 .. n
    <2>1. S \subseteq 1 .. n /\ r + 1 \in Int
      BY <1>1
    <2>2. IsFiniteSet(S)
      BY <1>1, <2>1, FS_Interval
    <2>3. QED
      BY <2>1, <2>2
  <1>9. ProductOn(D, S) \in Nat /\ ProductOn(dims, S) \in Nat
    <2>1. \A q \in S : D[q] \in Nat /\ dims[q] \in Nat
      BY <1>2, <1>4, <1>8
    <2> HIDE DEF D, S
    <2>2. QED
      BY <1>8, <2>1, ProductNat
  <1>10. ASSUME r > u
         PROVE  ProductOn(D, S) = ProductOn(dims, S)
    <2>1. \A q \in S : D[q] \in Nat /\ D[q] = dims[q]
      BY <1>1, <1>2, <1>4, <1>8, <1>10
    <2> HIDE DEF D, S
    <2>2. QED
      BY <1>8, <2>1, ProductSame
  <1>11. QED
    BY <1>1, <1>3, <1>7, <1>9, <1>10

\* The offset of the view's block and the position in it are together the position
\* in the block of the base tensor.
LEMMA SamePosition ==
  ASSUME NEW b, NEW e, IsElement(b, e), NEW u \in DOMAIN shape, NEW o \in Int
  PROVE  TranslateOffset(u, ViewBlock(u, b, e), o)
           + RowMajor(BlockDims(UnitShape(u), ViewBlock(u, b, e)), InView(u, b, e))
           = o + RowMajor(BlockDims(shape, b), e)
  <1> DEFINE view == ViewBlock(u, b, e)
             inView == InView(u, b, e)
             U == UnitTiledDims(u)
             D == BlockDims(shape, b)
             E == BlockDims(UnitShape(u), view)
             f == [r \in DOMAIN view |->
                     IF r \in U THEN FindRemainingOffset(view[r], shape[r])
                                     * Strides(BlockDims(shape, TranslateBlockid(u, view)))[r]
                     ELSE 0]
             g == [r \in DOMAIN E |-> inView[r] * Strides(E)[r]]
             h == [r \in DOMAIN D |-> e[r] * Strides(D)[r]]
             S == DOMAIN shape
  <1>1. /\ S = 1 .. Len(shape) /\ Len(shape) \in Nat /\ DOMAIN b = S /\ DOMAIN D = S
        /\ IsFiniteSet(S)
    BY ElementFacts, FS_Interval
  <1>2. DOMAIN view = S /\ DOMAIN inView = S /\ DOMAIN E = S
    BY <1>1 DEF ViewBlock, InView, BlockDims, UnitShape
  <1>3. TranslateBlockid(u, view) = b
    BY TranslatedBlock
  <1>4. DOMAIN f = S /\ DOMAIN g = S /\ DOMAIN h = S
    BY <1>1, <1>2
  <1>5. /\ TranslateOffset(u, view, o) = o + SumFunctionOnSet(f, S)
        /\ RowMajor(E, inView) = SumFunctionOnSet(g, S)
        /\ RowMajor(D, e) = SumFunctionOnSet(h, S)
    <2>1. /\ TranslateOffset(u, view, o) = o + SumSeq(f)
          /\ RowMajor(E, inView) = SumSeq(g)
          /\ RowMajor(D, e) = SumSeq(h)
      BY DEF TranslateOffset, RowMajor
    <2> HIDE DEF f, g, h
    <2>2. QED
      BY <1>4, <2>1 DEF SumSeq
  <1>6. ASSUME NEW r \in S
        PROVE  f[r] \in Int /\ g[r] \in Int /\ h[r] = f[r] + g[r]
    <2> DEFINE x == Strides(D)[r]
               y == Strides(E)[r]
               rest == FindRemainingOffset(view[r], shape[r])
    <2>1. x \in Nat /\ y \in Nat /\ (r > u => y = x)
      BY ViewStrides
    <2>2. r \in Nat /\ u \in Nat /\ e[r] \in Nat
      BY ElementFacts
    <2>3. /\ f[r] = IF r \in U THEN rest * x ELSE 0
          /\ g[r] = (IF r <= u THEN 0 ELSE e[r]) * y
          /\ h[r] = e[r] * x
      BY <1>1, <1>2, <1>3 DEF InView
    <2>4. /\ r <= u => r \in U
          /\ r \in U => rest = IF r <= u THEN e[r] ELSE 0
      BY ViewOf
    <2> DEFINE a == e[r]
               F == f[r]
               G == g[r]
               H == h[r]
               R == r \in U
    <2>5. /\ a \in Nat
          /\ R => F = rest * x
          /\ ~R => F = 0
          /\ r <= u => G = 0 * y
          /\ ~(r <= u) => G = a * y
          /\ H = a * x
          /\ R /\ r <= u => rest = a
          /\ R /\ ~(r <= u) => rest = 0
          /\ r <= u => R
      BY <2>2, <2>3, <2>4
    <2> HIDE DEF x, y, rest, a, F, G, H, R
    <2>6. a * x \in Nat /\ 0 * y = 0 /\ 0 * x = 0
      BY <2>1, <2>5
    <2>7. CASE r <= u
      <3>1. F = a * x /\ G = 0 /\ H = a * x
        BY <2>5, <2>6, <2>7
      <3>2. QED
        BY <2>6, <3>1 DEF F, G, H
    <2>8. CASE ~(r <= u)
      <3>1. y = x
        BY <2>1, <2>2, <2>8
      <3>2. F = 0
        BY <2>5, <2>6, <2>8
      <3>3. G = a * x /\ H = a * x
        BY <2>5, <2>8, <3>1
      <3>4. QED
        BY <2>6, <3>2, <3>3 DEF F, G, H
    <2>9. QED
      BY <2>7, <2>8
  <1> HIDE DEF view, inView, U, D, E, f, g, h, S
  <1>7. SumFunctionOnSet(h, S) = SumFunctionOnSet(f, S) + SumFunctionOnSet(g, S)
    <2>1. IsFiniteSet(S) /\ \A r \in S : f[r] \in Int /\ g[r] \in Int /\ h[r] = f[r] + g[r]
      BY <1>1, <1>6
    <2>2. QED
      BY ONLY <2>1, SumPlus
  <1>8. SumFunctionOnSet(f, S) \in Int /\ SumFunctionOnSet(g, S) \in Int
    BY <1>1, <1>6, SumType
  <1> DEFINE p == SumFunctionOnSet(f, S)
             q == SumFunctionOnSet(g, S)
  <1>9. (o + p) + q = o + (p + q)
    <2> HIDE DEF p, q
    <2>1. QED
      BY <1>8 DEF p, q
  <1>10. QED
    BY <1>5, <1>7, <1>9 DEF view, inView, D, E

\* Whatever the tensors and the processes, an element has one address, through the
\* base tensor and through any view of it with unit tiles
\* (distribution.hpp:862-912).
THEOREM OneAddressAlways == DistSpec => []OneAddress
  <1>1. DistInv => OneAddress
    <2> SUFFICES ASSUME DistInv, pc = "done", NEW u \in DOMAIN shape, NEW b \in nonzero,
                        NEW e \in Tuples(BlockDims(shape, b))
                 PROVE  /\ UnitTilePlace(u, ViewBlock(u, b, e))[1] = Place(b)[1]
                        /\ UnitTilePlace(u, ViewBlock(u, b, e))[2]
                             + RowMajor(BlockDims(UnitShape(u), ViewBlock(u, b, e)), InView(u, b, e))
                             = Place(b)[2] + RowMajor(BlockDims(shape, b), e)
      BY DEF OneAddress, ViewBlock, InView
    <2>1. IsElement(b, e)
      BY BlockFacts DEF IsElement
    <2>2. PICK k, p : Lies(b, k, p)
      BY PlaceIs
    <2>3. Place(b)[2] \in Int
      BY <2>2 DEF Lies
    <2>4. TranslateBlockid(u, ViewBlock(u, b, e)) = b
      BY <2>1, TranslatedBlock
    <2>5. UnitTilePlace(u, ViewBlock(u, b, e))
            = <<Place(b)[1], TranslateOffset(u, ViewBlock(u, b, e), Place(b)[2])>>
      BY <2>4 DEF UnitTilePlace
    <2> DEFINE o == Place(b)[2]
    <2>6. TranslateOffset(u, ViewBlock(u, b, e), o)
            + RowMajor(BlockDims(UnitShape(u), ViewBlock(u, b, e)), InView(u, b, e))
            = o + RowMajor(BlockDims(shape, b), e)
      <3> HIDE DEF o
      <3>1. o \in Int
        BY <2>3 DEF o
      <3>2. QED
        BY <2>1, <3>1, SamePosition
    <2>7. QED
      BY <2>5, <2>6
  <1>2. QED
    BY <1>1, DistInvariant, PTL

-----------------------------------------------------------------------------
(* The process grid.                                                       *)

\* One factor changed.
LEMMA ProductChange ==
  ASSUME NEW S, IsFiniteSet(S), NEW f, NEW g, NEW e \in S, NEW p \in Nat,
         \A x \in S : f[x] \in Nat, g[e] = f[e] * p, \A x \in S \ {e} : g[x] = f[x]
  PROVE  ProductOn(g, S) = ProductOn(f, S) * p
  <1> DEFINE T == S \ {e}
             a == ProductOn(f, T)
             b == f[e]
  <1>1. IsFiniteSet(T)
    BY FS_Subset
  <1>2. ProductOn(g, T) = a /\ a \in Nat
    <2>1. \A x \in T : f[x] \in Nat /\ f[x] = g[x]
      OBVIOUS
    <2> HIDE DEF T
    <2>2. QED
      BY <1>1, <2>1, ProductSame, ProductNat
  <1>3. b \in Nat /\ g[e] \in Nat
    OBVIOUS
  <1>4. \A x \in S : g[x] \in Nat
    BY <1>3
  <1>5. ProductOn(f, S) = b * a /\ ProductOn(g, S) = g[e] * a
    <2>1. ProductOn(f, S) = f[e] * ProductOn(f, T)
      BY ProductRemove
    <2>2. ProductOn(g, S) = g[e] * ProductOn(g, T)
      BY <1>4, ProductRemove
    <2>3. QED
      BY <1>2, <2>1, <2>2
  <1>6. g[e] = b * p
    OBVIOUS
  <1> HIDE DEF a, b, T
  <1>7. (b * p) * a = (b * a) * p
    BY <1>2, <1>3
  <1>8. QED
    BY <1>5, <1>6, <1>7

LEMMA ProductOnes ==
  ASSUME NEW S, IsFiniteSet(S), NEW f, \A x \in S : f[x] = 1
  PROVE  ProductOn(f, S) = 1
  <1> DEFINE Bad == {s \in SUBSET S : ProductOn(f, s) # 1}
  <1> SUFFICES ASSUME Bad # {}
               PROVE  FALSE
    OBVIOUS
  <1>1. PICK s \in Bad : \A u \in Bad : u \subseteq s => u = s
    <2>1. Bad \subseteq SUBSET S
      OBVIOUS
    <2> HIDE DEF Bad
    <2>2. QED
      BY <2>1, SmallestSet
  <1>2. IsFiniteSet(s)
    BY FS_Subset
  <1>3. s # {}
    BY ProductEmpty
  <1> DEFINE u == s \ {Some(s)}
  <1>4. u \subseteq s /\ u # s /\ f[Some(s)] = 1
    BY <1>3, SomeOf
  <1>5. ProductOn(f, u) = 1
    BY <1>1, <1>4
  <1>6. ProductOn(f, s) = f[Some(s)] * ProductOn(f, u)
    BY <1>2, <1>3, ProductUnfold
  <1>7. QED
    BY <1>4, <1>5, <1>6

LEMMA MinIs ==
  ASSUME NEW T, T \subseteq Nat, T # {}
  PROVE  Min(T) \in T /\ \A k \in T : Min(T) <= k
  <1>1. \E m \in T : \A k \in T : m <= k
    BY LeastNat
  <1>2. QED
    BY <1>1 DEF Min

\* A product with one more factor.
LEMMA ProductAppend ==
  ASSUME NEW s \in Seq(Nat \ {0}), NEW p \in Nat \ {0}
  PROVE  /\ Append(s, p) \in Seq(Nat \ {0})
         /\ ProductSeq(Append(s, p)) = ProductSeq(s) * p
         /\ ProductSeq(s) \in Nat
  <1> DEFINE t == Append(s, p)
             n == Len(s)
             S == 1 .. n
             T == 1 .. n + 1
  <1>1. n \in Nat /\ DOMAIN s = S /\ DOMAIN t = T /\ t[n + 1] = p
        /\ \A x \in S : t[x] = s[x] /\ s[x] \in Nat
    OBVIOUS
  <1>2. IsFiniteSet(S) /\ IsFiniteSet(T) /\ n + 1 \in T /\ T \ {n + 1} = S
    <2> HIDE DEF n
    <2>1. n + 1 \in Int /\ n \in Int /\ 1 \in Int
      BY <1>1
    <2>2. IsFiniteSet(S) /\ IsFiniteSet(T)
      <3> DEFINE m == n + 1
      <3> HIDE DEF m
      <3>1. IsFiniteSet(1 .. m)
        BY <2>1, FS_Interval DEF m
      <3>2. QED
        BY <2>1, <3>1, FS_Interval DEF m
    <2>3. QED
      BY <1>1, <2>2
  <1>3. \A x \in T : t[x] \in Nat
    BY <1>1
  <1>7. t \in Seq(Nat \ {0})
    OBVIOUS
  <1> HIDE DEF t, n, S, T
  <1>4. ProductOn(t, T) = t[n + 1] * ProductOn(t, S)
    BY <1>2, <1>3, ProductRemove
  <1>5. ProductOn(t, S) = ProductOn(s, S) /\ ProductOn(s, S) \in Nat
    BY <1>1, <1>2, ProductSame, ProductNat
  <1>6. ProductSeq(t) = ProductOn(t, T) /\ ProductSeq(s) = ProductOn(s, S)
    BY <1>1 DEF ProductSeq
  <1>8. QED
    BY <1>1, <1>4, <1>5, <1>6, <1>7 DEF t

-----------------------------------------------------------------------------
(* The sieve.                                                              *)

LEMMA Factors ==
  ASSUME NEW a \in Nat, NEW b \in Nat, NEW c \in Nat
  PROVE  /\ a * (b * c) = (a * b) * c /\ b * c \in Nat
         /\ a # 0 /\ a * b = a * c => b = c
  <1>1. a * (b * c) = (a * b) * c /\ b * c \in Nat /\ a * b \in Nat /\ a * c \in Nat
    OBVIOUS
  <1>2. ASSUME a # 0, a * b = a * c, b # c
        PROVE  FALSE
    <2>1. CASE b < c
      <3>1. a * b + a <= a * c
        BY <2>1, ProductLess
      <3>2. QED
        BY <1>1, <1>2, <3>1
    <2>2. CASE c < b
      <3>1. a * c + a <= a * b
        BY <2>2, ProductLess
      <3>2. QED
        BY <1>1, <1>2, <3>1
    <2>3. QED
      BY <1>2, <2>1, <2>2
  <1>3. QED
    BY <1>1, <1>2

\* A number divides its multiples.
LEMMA DivisorOf ==
  ASSUME NEW d \in Nat \ {0}, NEW c \in Nat, NEW m, m = d * c
  PROVE  m % d = 0 /\ m \div d = c /\ (m # 0 => d <= m)
  <1> DEFINE e == m \div d
             r == m % d
  <1>1. m \in Nat
    OBVIOUS
  <1>2. e \in Nat /\ r \in Nat /\ r < d /\ m = d * e + r
    BY <1>1, DivMod
  <1> HIDE DEF e, r
  <1>3. e <= c
    <2> SUFFICES ASSUME c < e
                 PROVE  FALSE
      BY <1>2
    <2>1. d * c + d <= d * e /\ d * e \in Nat
      BY <1>2, ProductLess
    <2>2. QED
      BY <1>1, <1>2, <2>1
  <1>4. c <= e
    <2> SUFFICES ASSUME e < c
                 PROVE  FALSE
      BY <1>2
    <2>1. d * e + d <= d * c /\ d * e \in Nat
      BY <1>2, ProductLess
    <2>2. QED
      BY <1>1, <1>2, <2>1
  <1>5. e = c
    BY <1>2, <1>3, <1>4
  <1>6. r = 0
    BY <1>1, <1>2, <1>5
  <1>7. m # 0 => d <= m
    <2>1. m # 0 => 0 < c
      OBVIOUS
    <2>2. 0 < c => d * 0 + d <= d * c
      BY ProductLess
    <2>3. QED
      BY <2>1, <2>2
  <1>8. QED
    BY <1>5, <1>6, <1>7 DEF e, r

Sieved == [primes : Seq(Nat \ {0}), left : SUBSET (Nat \ {0})]

LEMMA SieveType ==
  ASSUME NEW s \in Sieved
  PROVE  Sieve(s) \in Sieved
  <1> DEFINE p == Min(s.left)
             L == {d \div p : d \in {d \in s.left \ {p} : d % p = 0}}
             P == Append(s.primes, p)
  <1>1. CASE s.left = {}
    BY <1>1 DEF Sieve
  <1>2. CASE s.left # {}
    <2>1. s.left \subseteq Nat /\ s.left \subseteq Nat \ {0} /\ s.primes \in Seq(Nat \ {0})
      BY DEF Sieved
    <2>2. p \in s.left
      BY <1>2, <2>1, MinIs
    <2>3. p \in Nat \ {0}
      BY <2>1, <2>2
    <2> HIDE DEF p
    <2>4. P \in Seq(Nat \ {0})
      BY <2>1, <2>3
    <2>5. ASSUME NEW d \in Nat \ {0}, d % p = 0
          PROVE  d \div p \in Nat \ {0}
      <3>1. d \div p \in Nat /\ d = p * (d \div p) + (d % p)
        BY <2>3, DivMod
      <3>2. CASE d \div p = 0
        BY <2>3, <2>5, <3>1, <3>2
      <3>3. QED
        BY <3>1, <3>2
    <2>6. L \subseteq Nat \ {0}
      BY <2>1, <2>5
    <2>7. Sieve(s) = [primes |-> P, left |-> L]
      BY <1>2 DEF Sieve, p
    <2> HIDE DEF L, P
    <2>8. QED
      BY <2>4, <2>6, <2>7 DEF Sieved
  <1>3. QED
    BY <1>1, <1>2

\* The sieve is a sequence of rounds.
IsSieve(f, n) ==
  /\ f \in [0 .. n -> Sieved] /\ f[0] = [primes |-> <<>>, left |-> Divisors(n)]
  /\ \A k \in 1 .. n : f[k] = Sieve(f[k - 1])

LEMMA SieveRuns ==
  ASSUME NEW n \in Nat
  PROVE  \E f : IsSieve(f, n) /\ PrimeDivisors(n) = f[n].primes
  <1> DEFINE init == [primes |-> <<>>, left |-> Divisors(n)]
             G == [k \in 1 .. n |-> [s \in Sieved |-> Sieve(s)]]
             Is(f) == f = [k \in 0 .. n |-> IF k = 0 THEN init ELSE Sieve(f[k - 1])]
             pdivs == CHOOSE f : Is(f)
  <1>1. init \in Sieved
    BY DEF Sieved, Divisors
  <1>2. \A k \in 1 .. n : G[k] \in [Sieved -> Sieved]
    BY SieveType
  <1>3. \A k \in 1 .. n, s \in Sieved : G[k][s] = Sieve(s)
    OBVIOUS
  <1>4. PrimeDivisors(n) = pdivs[n].primes
    BY DEF PrimeDivisors
  <1> HIDE DEF G
  <1>5. PICK f \in [0 .. n -> Sieved] : f[0] = init /\ \A k \in 1 .. n : f[k] = G[k][f[k - 1]]
    <2>1. \E f \in [0 .. n -> Sieved] : Follows(f, n, init, G)
      <3> HIDE DEF init
      <3>1. QED
        BY <1>1, <1>2, StepByStep
    <2>2. QED
      BY <2>1 DEF Follows
  <1> HIDE DEF init
  <1>6. \A k \in 1 .. n : f[k - 1] \in Sieved /\ f[k] = Sieve(f[k - 1])
    BY <1>3, <1>5
  <1>7. Is(f)
    BY <1>5, <1>6
  <1>8. Is(pdivs)
    BY <1>7
  <1> HIDE DEF pdivs
  <1>9. pdivs[0] = init /\ (\A k \in 1 .. n : pdivs[k] = Sieve(pdivs[k - 1]))
        /\ DOMAIN pdivs = 0 .. n /\ pdivs = [k \in 0 .. n |-> pdivs[k]]
    <2>1. /\ \A k \in 0 .. n : pdivs[k] = IF k = 0 THEN init ELSE Sieve(pdivs[k - 1])
          /\ DOMAIN pdivs = 0 .. n /\ pdivs = [k \in 0 .. n |-> pdivs[k]]
      BY <1>8, Zenon
    <2>2. 0 \in 0 .. n /\ \A k \in 1 .. n : k \in 0 .. n /\ k # 0
      OBVIOUS
    <2> HIDE DEF Is
    <2>3. pdivs[0] = init /\ \A k \in 1 .. n : pdivs[k] = Sieve(pdivs[k - 1])
      BY ONLY <2>1, <2>2, Zenon
    <2>4. QED
      BY ONLY <2>1, <2>3, Zenon
  <1>10. \A k \in 0 .. n : pdivs[k] \in Sieved
    <2> DEFINE T == {k \in 0 .. n : pdivs[k] \in Sieved}
    <2>1. 0 \in T
      BY <1>1, <1>9
    <2>2. ASSUME NEW k \in 1 .. n, k - 1 \in T
          PROVE  k \in T
      <3>1. pdivs[k - 1] \in Sieved
        BY <2>2
      <3>2. Sieve(pdivs[k - 1]) \in Sieved
        BY ONLY <3>1, SieveType
      <3>3. pdivs[k] = Sieve(pdivs[k - 1]) /\ k \in 0 .. n
        BY <1>9
      <3>4. QED
        BY <3>2, <3>3
    <2> HIDE DEF T
    <2>3. 0 .. n \subseteq T
      BY <2>1, <2>2, UpFromZero
    <2>4. QED
      BY <2>3 DEF T
  <1>11. pdivs \in [0 .. n -> Sieved]
    BY <1>9, <1>10
  <1>12. IsSieve(pdivs, n)
    BY <1>9, <1>11 DEF IsSieve, init
  <1>13. QED
    BY <1>4, <1>12 DEF pdivs


\* Divided by a divisor, a number has as divisors what the sieve keeps.
LEMMA SieveKeeps ==
  ASSUME NEW m \in Nat \ {0, 1}, NEW p, p = Min(Divisors(m))
  PROVE  /\ p \in Nat \ {0, 1} /\ m \div p \in Nat \ {0} /\ m = p * (m \div p)
         /\ {d \div p : d \in {d \in Divisors(m) \ {p} : d % p = 0}} = Divisors(m \div p)
  <1> DEFINE q == m \div p
             Multiples == {d \in Divisors(m) \ {p} : d % p = 0}
  <1>1. p \in Divisors(m)
    <2>1. m \in Divisors(m)
      BY DEF Divisors
    <2>2. Divisors(m) \subseteq Nat
      BY DEF Divisors
    <2>3. QED
      BY <2>1, <2>2, MinIs
  <1>2. p \in Nat /\ p # 0 /\ p # 1 /\ m % p = 0
    BY <1>1 DEF Divisors
  <1>0. m \in Nat /\ p \in Nat \ {0}
    BY <1>2
  <1>3. q \in Nat /\ m = p * q + (m % p)
    BY ONLY <1>0, DivMod
  <1> HIDE DEF q
  <1>4. p * q \in Nat /\ m = p * q
    BY <1>2, <1>3
  <1>5. q # 0
    BY <1>2, <1>4
  <1>6. ASSUME NEW d \in Multiples
        PROVE  d \div p \in Divisors(q)
    <2> DEFINE e == d \div p
               c == m \div d
    <2>1. d \in Nat /\ d # 0 /\ d # p /\ d % p = 0 /\ m % d = 0
      BY DEF Divisors
    <2>2. e \in Nat /\ d = p * e + (d % p)
      BY <1>2, <2>1, DivMod
    <2>3. c \in Nat /\ m = d * c + (m % d)
      BY <2>1, DivMod
    <2> HIDE DEF e, c
    <2>4. p * e \in Nat /\ d = p * e /\ d * c \in Nat /\ m = d * c
      BY <1>2, <2>1, <2>2, <2>3
    <2>5. e # 0 /\ e # 1
      BY <1>2, <2>1, <2>2, <2>4
    <2>6. q = e * c
      <3>1. p * (e * c) = (p * e) * c /\ e * c \in Nat
        BY ONLY <1>2, <2>2, <2>3, Factors
      <3>2. p * q = p * (e * c)
        BY <1>4, <2>4, <3>1
      <3>3. QED
        BY ONLY <1>2, <1>3, <3>1, <3>2, Factors
    <2>7. q % e = 0 /\ e <= q
      BY <1>3, <1>5, <2>2, <2>3, <2>5, <2>6, DivisorOf
    <2>8. QED
      BY <1>3, <2>2, <2>5, <2>7 DEF Divisors, e
  <1>7. ASSUME NEW e \in Divisors(q)
        PROVE  \E d \in Multiples : e = d \div p
    <2> DEFINE c == q \div e
               d == p * e
    <2>1. e \in Nat /\ e # 0 /\ e # 1 /\ q % e = 0
      BY <1>3 DEF Divisors
    <2>2. c \in Nat /\ q = e * c + (q % e)
      BY <1>3, <2>1, DivMod
    <2> HIDE DEF c
    <2>3. q = e * c
      BY <2>1, <2>2
    <2>4. d \in Nat /\ d # 0 /\ d # 1 /\ d # p
      BY <1>2, <2>1
    <2>5. m = d * c
      BY <1>2, <1>4, <2>1, <2>2, <2>3
    <2>6. d % p = 0 /\ d \div p = e
      <3>1. d = p * e /\ p \in Nat \ {0}
        BY <1>2
      <3> HIDE DEF d
      <3>2. QED
        BY <2>1, <2>4, <3>1, DivisorOf
    <2> HIDE DEF d
    <2>7. m % d = 0 /\ d <= m
      BY <2>2, <2>4, <2>5, DivisorOf
    <2>8. d \in Multiples
      BY <2>4, <2>6, <2>7 DEF Divisors
    <2>9. QED
      BY <2>6, <2>8
  <1>8. {d \div p : d \in Multiples} = Divisors(q)
    <2> HIDE DEF Multiples
    <2>1. QED
      BY <1>6, <1>7
  <1>9. QED
    BY <1>2, <1>3, <1>4, <1>5, <1>8 DEF q

\* What is left are the divisors of what n is divided by the primes.
SieveInv(s, n, k) ==
  \E m \in Nat \ {0} : /\ s.left = Divisors(m) /\ ProductSeq(s.primes) * m = n
                       /\ m = 1 \/ m + k <= n

LEMMA SieveStep ==
  ASSUME NEW n \in Nat \ {0}, NEW k \in Nat, NEW s \in Sieved, SieveInv(s, n, k)
  PROVE  SieveInv(Sieve(s), n, k + 1)
  <1>1. PICK m \in Nat \ {0} : /\ s.left = Divisors(m) /\ ProductSeq(s.primes) * m = n
                               /\ m = 1 \/ m + k <= n
    BY DEF SieveInv
  <1>2. CASE m = 1
    <2>1. s.left = {}
      BY <1>1, <1>2 DEF Divisors
    <2>2. Sieve(s) = s
      BY <2>1 DEF Sieve
    <2>3. QED
      BY <1>1, <1>2, <2>2 DEF SieveInv
  <1>3. CASE m # 1
    <2> DEFINE p == Min(Divisors(m))
               q == m \div p
               L == {d \div p : d \in {d \in Divisors(m) \ {p} : d % p = 0}}
               P == Append(s.primes, p)
               t == Sieve(s)
    <2>1. p \in Nat \ {0, 1} /\ q \in Nat \ {0} /\ m = p * q /\ L = Divisors(q)
      BY <1>3, SieveKeeps
    <2>2. s.left # {}
      <3>1. m \in Divisors(m)
        BY <1>3 DEF Divisors
      <3>2. QED
        BY <1>1, <3>1
    <2>3. t = [primes |-> P, left |-> L]
      BY <1>1, <2>2 DEF Sieve
    <2>4. s.primes \in Seq(Nat \ {0})
      BY DEF Sieved
    <2> HIDE DEF p, q, L, t
    <2>5. ProductSeq(P) = ProductSeq(s.primes) * p /\ ProductSeq(s.primes) \in Nat
      BY <2>1, <2>4, ProductAppend
    <2> DEFINE a == ProductSeq(s.primes)
    <2>6. (a * p) * q = n
      BY ONLY <1>1, <2>1, <2>5, Factors
    <2> HIDE DEF P
    <2>7. t.left = Divisors(q) /\ ProductSeq(t.primes) * q = n
      BY <2>1, <2>3, <2>5, <2>6
    <2>8. q = 1 \/ q + (k + 1) <= n
      <3>1. q * 2 <= q * p /\ q * 2 = q + q /\ q * p = m
        <4>1. q * 2 <= q * p
          BY <2>1, ProductLess
        <4>2. q * 2 = q + q /\ q * p = m
          BY <2>1
        <4>3. QED
          BY <4>1, <4>2
      <3>2. q + q <= m
        BY <3>1
      <3>3. QED
        BY <1>1, <1>3, <2>1, <3>2
    <2>9. QED
      BY <2>1, <2>7, <2>8 DEF SieveInv, t
  <1>4. QED
    BY <1>2, <1>3

\* The primes that the sieve finds have the product n.
LEMMA PrimesAreAll ==
  ASSUME NEW n \in Nat \ {0}
  PROVE  PrimeDivisors(n) \in Seq(Nat \ {0}) /\ ProductSeq(PrimeDivisors(n)) = n
  <1>1. PICK f : IsSieve(f, n) /\ PrimeDivisors(n) = f[n].primes
    BY SieveRuns
  <1> DEFINE T == {k \in 0 .. n : SieveInv(f[k], n, k)}
  <1>2. 0 \in T
    <2>1. f[0].left = Divisors(n) /\ f[0].primes = <<>>
      BY <1>1 DEF IsSieve
    <2>2. ProductSeq(<<>>) = 1
      <3>1. DOMAIN <<>> = {}
        OBVIOUS
      <3>2. QED
        BY <3>1, ProductEmpty DEF ProductSeq
    <2>3. ProductSeq(f[0].primes) * n = n /\ n + 0 <= n
      BY <2>1, <2>2
    <2>4. QED
      BY <2>1, <2>3 DEF SieveInv
  <1>3. ASSUME NEW k \in 1 .. n, k - 1 \in T
        PROVE  k \in T
    <2>1. f[k - 1] \in Sieved /\ f[k] = Sieve(f[k - 1]) /\ k - 1 \in Nat /\ (k - 1) + 1 = k
      BY <1>1 DEF IsSieve
    <2>2. SieveInv(f[k - 1], n, k - 1)
      BY <1>3
    <2>3. SieveInv(Sieve(f[k - 1]), n, (k - 1) + 1)
      BY <2>1, <2>2, SieveStep
    <2>4. QED
      BY <2>1, <2>3
  <1> HIDE DEF T
  <1>4. 0 .. n \subseteq T
    BY <1>2, <1>3, UpFromZero
  <1>5. SieveInv(f[n], n, n)
    BY <1>4 DEF T
  <1>6. PICK m \in Nat \ {0} : ProductSeq(f[n].primes) * m = n /\ (m = 1 \/ m + n <= n)
    BY <1>5 DEF SieveInv
  <1>7. m = 1
    BY <1>6
  <1>8. f[n].primes \in Seq(Nat \ {0})
    BY <1>1 DEF IsSieve, Sieved
  <1>9. ProductSeq(f[n].primes) \in Nat
    BY <1>8, ProductAppend
  <1>10. QED
    BY <1>1, <1>6, <1>7, <1>8, <1>9

-----------------------------------------------------------------------------
(* The primes are dealt to the axes.                                       *)

Fractions == Nat \X (Nat \ {0})

LEMMA LessThrough ==
  ASSUME NEW v \in Fractions, NEW w \in Fractions, NEW u \in Fractions,
         Less(v, w), ~Less(u, w)
  PROVE  Less(v, u)
  <1> DEFINE a == v[1]  b == v[2]  c == w[1]  d == w[2]  e == u[1]  f == u[2]
  <1>1. /\ a \in Nat /\ b \in Nat \ {0} /\ c \in Nat /\ d \in Nat \ {0}
        /\ e \in Nat /\ f \in Nat \ {0}
    BY DEF Fractions
  <1>2. a * d < c * b /\ ~(e * d < c * f)
    BY DEF Less
  <1> HIDE DEF a, b, c, d, e, f
  <1>3. a * f < e * b
    <2> DEFINE ad == a * d  cb == c * b  ed == e * d  cf == c * f  af == a * f  eb == e * b
    <2>1. /\ ad \in Nat /\ cb \in Nat /\ ed \in Nat /\ cf \in Nat /\ af \in Nat /\ eb \in Nat
          /\ ad < cb /\ cf <= ed
      BY <1>1, <1>2
    <2>2. f * ad = d * af /\ b * cf = f * cb /\ b * ed = d * eb
      BY ONLY <1>1
    <2> HIDE DEF ad, cb, ed, cf, af, eb
    <2>3. f * ad + f <= f * cb /\ b * cf <= b * ed
      BY <1>1, <2>1, ProductLess
    <2>4. /\ f * ad \in Nat /\ f * cb \in Nat /\ b * cf \in Nat /\ b * ed \in Nat
          /\ d * af \in Nat /\ d * eb \in Nat
      BY <1>1, <2>1
    <2>5. d * af < d * eb
      BY <1>1, <2>2, <2>3, <2>4
    <2>6. ~(eb <= af)
      <3>1. eb <= af => d * eb <= d * af
        BY <1>1, <2>1, ProductLess
      <3>2. QED
        BY <2>4, <2>5, <3>1
    <2>7. af < eb
      BY <2>1, <2>6
    <2>8. QED
      BY <2>7 DEF af, eb
  <1>4. QED
    BY <1>3 DEF Less, a, b, e, f

LEMMA LessOneWay ==
  ASSUME NEW v \in Fractions, NEW w \in Fractions
  PROVE  ~Less(v, v) /\ (Less(v, w) => ~Less(w, v))
  <1> DEFINE a == v[1] * w[2]  b == w[1] * v[2]  c == v[1] * v[2]
  <1>1. a \in Nat /\ b \in Nat /\ c \in Nat
    BY DEF Fractions
  <1>2. (Less(v, w) <=> a < b) /\ (Less(w, v) <=> b < a) /\ (Less(v, v) <=> c < c)
    BY DEF Less
  <1> HIDE DEF a, b, c
  <1>3. QED
    BY <1>1, <1>2

\* Some number in a row has the smallest fraction, and is the first of these.
IsFirst(O, N, j) == /\ \A m \in 0 .. N : ~Less(O[m], O[j])
                    /\ \A m \in 0 .. j - 1 : Less(O[j], O[m])

LEMMA FirstExists ==
  ASSUME NEW N \in Nat, NEW O \in [0 .. N -> Fractions]
  PROVE  \E j \in 0 .. N : IsFirst(O, N, j)
  <1> DEFINE T == {n \in 0 .. N : \E j \in 0 .. n : IsFirst(O, n, j)}
  <1>1. 0 \in T
    <2>1. O[0] \in Fractions
      OBVIOUS
    <2>2. ~Less(O[0], O[0])
      BY <2>1, LessOneWay
    <2>3. IsFirst(O, 0, 0)
      BY <2>2 DEF IsFirst
    <2>4. QED
      BY <2>3
  <1>2. ASSUME NEW n \in 1 .. N, n - 1 \in T
        PROVE  n \in T
    <2>1. PICK j \in 0 .. n - 1 : IsFirst(O, n - 1, j)
      BY <1>2
    <2>2. /\ j \in 0 .. n /\ n \in 0 .. n /\ O[j] \in Fractions /\ O[n] \in Fractions
          /\ \A m \in 0 .. n - 1 : O[m] \in Fractions
          /\ \A m \in 0 .. n : m \in 0 .. n - 1 \/ m = n
      OBVIOUS
    <2>3. CASE ~Less(O[n], O[j])
      <3>1. IsFirst(O, n, j)
        BY <2>1, <2>2, <2>3 DEF IsFirst
      <3>2. QED
        BY <2>2, <3>1
    <2>4. CASE Less(O[n], O[j])
      <3>1. ASSUME NEW m \in 0 .. n - 1
            PROVE  Less(O[n], O[m])
        <4>1. ~Less(O[m], O[j])
          BY <2>1 DEF IsFirst
        <4>2. QED
          BY <2>2, <2>4, <4>1, LessThrough
      <3>2. ASSUME NEW m \in 0 .. n - 1, Less(O[m], O[n])
            PROVE  FALSE
        BY <2>2, <3>1, <3>2, LessOneWay
      <3>3. ~Less(O[n], O[n])
        BY <2>2, LessOneWay
      <3>4. IsFirst(O, n, n)
        BY <2>2, <3>1, <3>2, <3>3 DEF IsFirst
      <3>5. QED
        BY <2>2, <3>4
    <2>5. QED
      BY <2>3, <2>4
  <1> HIDE DEF T
  <1>3. 0 .. N \subseteq T
    BY <1>1, <1>2, UpFromZero
  <1>4. QED
    BY <1>3 DEF T

Grids(ndims) == [1 .. ndims -> Nat \ {0}]

\* A prime goes to one of the axes.
LEMMA BestIsAxis ==
  ASSUME NEW nd \in Nat \ {0}, NEW tard \in Grids(nd), NEW grid \in Grids(nd),
         NEW p \in Nat \ {0}, NEW k \in Nat \ {0}
  PROVE  BestAxis(tard, grid, p, k) \in 1 .. nd
  <1> DEFINE Axis(j) == ((k - 1 + j) % nd) + 1
             Over(j) == Excess(tard[Axis(j)], p * grid[Axis(j)])
             N == nd - 1
             O == [j \in 0 .. N |-> Over(j)]
             First(j) == /\ \A m \in 0 .. N : ~Less(Over(m), Over(j))
                         /\ \A m \in 0 .. j - 1 : Less(Over(j), Over(m))
  <1>1. Len(tard) = nd
    BY DEF Grids
  <1>2. ASSUME NEW j \in 0 .. N
        PROVE  Axis(j) \in 1 .. nd
    <2>1. k - 1 + j \in Nat
      OBVIOUS
    <2> DEFINE x == k - 1 + j
    <2> HIDE DEF x
    <2>2. x % nd \in Nat /\ x % nd < nd
      BY <2>1, DivMod DEF x
    <2>3. QED
      BY <2>2 DEF x
  <1>3. ASSUME NEW j \in 0 .. N
        PROVE  Over(j) \in Fractions
    <2> DEFINE e == tard[Axis(j)]
               q == p * grid[Axis(j)]
    <2>1. e \in Nat \ {0} /\ grid[Axis(j)] \in Nat \ {0}
      BY <1>2 DEF Grids
    <2>2. q \in Nat \ {0}
      BY <2>1
    <2> HIDE DEF e, q
    <2>3. e % q \in Nat
      BY <2>1, <2>2, DivMod
    <2>4. QED
      BY <2>1, <2>3 DEF Excess, Fractions, e, q
  <1>4. N \in Nat /\ O \in [0 .. N -> Fractions]
    <2> HIDE DEF Over
    <2>1. QED
      BY <1>3
  <1>5. PICK j \in 0 .. N : IsFirst(O, N, j)
    <2> HIDE DEF N, O
    <2>1. QED
      BY <1>4, FirstExists
  <1>6. First(j)
    <2>1. /\ \A m \in 0 .. N : O[m] = Over(m)
          /\ \A m \in 0 .. j - 1 : m \in 0 .. N
      BY <1>4
    <2> HIDE DEF O, Over
    <2>2. QED
      BY <1>5, <2>1 DEF IsFirst
  <1>7. BestAxis(tard, grid, p, k) = Axis(CHOOSE m \in 0 .. N : First(m))
    BY <1>1 DEF BestAxis
  <1> HIDE DEF First, Axis
  <1>8. (CHOOSE m \in 0 .. N : First(m)) \in 0 .. N
    BY <1>6
  <1>9. QED
    BY <1>2, <1>7, <1>8

\* Dealing a prime multiplies the places of the grid by it.
LEMMA DealStep ==
  ASSUME NEW nd \in Nat \ {0}, NEW tard \in Grids(nd), NEW grid \in Grids(nd),
         NEW p \in Nat \ {0}, NEW k \in Nat \ {0}
  PROVE  /\ Deal(tard, grid, p, k) \in Grids(nd)
         /\ ProductOn(Deal(tard, grid, p, k), 1 .. nd) = ProductOn(grid, 1 .. nd) * p
  <1> DEFINE a == BestAxis(tard, grid, p, k)
             S == 1 .. nd
             dealt == Deal(tard, grid, p, k)
  <1>1. a \in S
    BY BestIsAxis
  <1>0. dealt = [grid EXCEPT ![a] = grid[a] * p]
    BY DEF Deal
  <1> HIDE DEF a, dealt
  <1>2. grid \in [S -> Nat \ {0}]
    BY DEF Grids
  <1>3. grid[a] * p \in Nat \ {0}
    BY <1>1, <1>2
  <1>4. /\ dealt \in [S -> Nat \ {0}] /\ dealt[a] = grid[a] * p
        /\ \A x \in S \ {a} : dealt[x] = grid[x]
    BY ONLY <1>0, <1>1, <1>2, <1>3
  <1>5. IsFiniteSet(S) /\ \A x \in S : grid[x] \in Nat
    <2>1. nd \in Int /\ 1 \in Int
      OBVIOUS
    <2>2. \A x \in S : grid[x] \in Nat
      BY <1>2
    <2>3. QED
      BY <2>1, <2>2, FS_Interval
  <1> HIDE DEF S
  <1>6. ProductOn(dealt, S) = ProductOn(grid, S) * p
    <2>1. p \in Nat /\ dealt[a] = grid[a] * p /\ \A x \in S \ {a} : dealt[x] = grid[x]
      BY <1>4
    <2>2. QED
      BY ONLY <1>1, <1>5, <2>1, ProductChange
  <1>7. QED
    BY <1>4, <1>6 DEF S, dealt, Grids

\* After the k-th prime the places are the product of the last k primes.
DealtPrimes(primes, k) == ProductOn(primes, Len(primes) - k + 1 .. Len(primes))

LEMMA DealtPrimesStep ==
  ASSUME NEW primes \in Seq(Nat \ {0})
  PROVE  /\ DealtPrimes(primes, 0) = 1
         /\ \A k \in 1 .. Len(primes) :
              DealtPrimes(primes, k) = DealtPrimes(primes, k - 1) * primes[Len(primes) - k + 1]
         /\ DealtPrimes(primes, Len(primes)) = ProductSeq(primes)
  <1> DEFINE n == Len(primes)
  <1>1. n \in Nat /\ DOMAIN primes = 1 .. n /\ \A x \in 1 .. n : primes[x] \in Nat
    OBVIOUS
  <1> HIDE DEF n
  <1>2. DealtPrimes(primes, 0) = 1
    <2>1. n - 0 + 1 .. n = {}
      BY <1>1
    <2>2. QED
      BY <2>1, ProductEmpty DEF DealtPrimes, n
  <1>3. ASSUME NEW k \in 1 .. n
        PROVE  DealtPrimes(primes, k) = DealtPrimes(primes, k - 1) * primes[n - k + 1]
    <2> DEFINE e == n - k + 1
               S == e .. n
    <2>1. e \in 1 .. n /\ e \in Int /\ e \in S /\ S \ {e} = (n - (k - 1) + 1) .. n
          /\ \A x \in S : primes[x] \in Nat
      BY <1>1
    <2>2. IsFiniteSet(S)
      <3> HIDE DEF e
      <3>1. QED
        BY <1>1, <2>1, FS_Interval
    <2>3. DealtPrimes(primes, k) = ProductOn(primes, S)
          /\ DealtPrimes(primes, k - 1) = ProductOn(primes, S \ {e})
      BY <2>1 DEF DealtPrimes, n
    <2> HIDE DEF S
    <2>4. ProductOn(primes, S) = primes[e] * ProductOn(primes, S \ {e})
      BY <2>1, <2>2, ProductRemove
    <2>5. IsFiniteSet(S \ {e}) /\ \A x \in S \ {e} : primes[x] \in Nat
      BY <2>1, <2>2, FS_Subset
    <2>6. primes[e] \in Nat /\ ProductOn(primes, S \ {e}) \in Nat
      BY <2>1, <2>5, ProductNat
    <2> DEFINE x == primes[e]
               y == ProductOn(primes, S \ {e})
    <2>7. x * y = y * x
      <3> HIDE DEF x, y, e
      <3>1. x \in Nat /\ y \in Nat
        BY <2>6 DEF x, y
      <3>2. QED
        BY <3>1
    <2>8. QED
      BY <2>3, <2>4, <2>7
  <1>4. DealtPrimes(primes, n) = ProductSeq(primes)
    <2>1. n - n + 1 = 1
      BY <1>1
    <2>2. QED
      BY <1>1, <2>1 DEF DealtPrimes, ProductSeq, n
  <1>5. QED
    BY <1>2, <1>3, <1>4 DEF n

\* A grid has as many places as there are processes.
LEMMA GridIsDealt ==
  ASSUME NEW nd \in Nat \ {0}, NEW extents \in [1 .. nd -> Nat], NEW n \in Nat \ {0}
  PROVE  ProcGrid(extents, n) \in Grids(nd) /\ ProductOn(ProcGrid(extents, n), 1 .. nd) = n
  <1> DEFINE tard == [r \in DOMAIN extents |-> IF extents[r] < 1 THEN 1 ELSE extents[r]]
             primes == PrimeDivisors(n)
             N == Len(primes)
             M == Grids(nd)
             init == [r \in DOMAIN extents |-> 1]
             G == [k \in 1 .. N |-> [g \in M |-> Deal(tard, g, primes[N - k + 1], k)]]
             Is(f) == f = [k \in 0 .. N |->
                        IF k = 0 THEN init ELSE Deal(tard, f[k - 1], primes[N - k + 1], k)]
             pedims == CHOOSE f : Is(f)
  <1>1. primes \in Seq(Nat \ {0}) /\ ProductSeq(primes) = n
    BY PrimesAreAll
  <1>2. N \in Nat /\ \A k \in 1 .. N : primes[N - k + 1] \in Nat \ {0}
    <2> HIDE DEF primes
    <2>1. N \in Nat /\ \A k \in 1 .. N : N - k + 1 \in 1 .. N
      BY <1>1
    <2>2. \A x \in 1 .. N : primes[x] \in Nat \ {0}
      BY <1>1
    <2>3. QED
      BY <2>1, <2>2
  <1>3. tard \in M
    BY DEF Grids
  <1>4. init \in M /\ ProductOn(init, 1 .. nd) = 1
    <2>1. init \in M /\ \A x \in 1 .. nd : init[x] = 1
      BY DEF Grids
    <2>2. IsFiniteSet(1 .. nd)
      BY FS_Interval
    <2> HIDE DEF init
    <2>3. QED
      BY <2>1, <2>2, ProductOnes
  <1>5. ProcGrid(extents, n) = pedims[N]
    BY DEF ProcGrid
  <1> HIDE DEF init, tard, primes
  <1>6. ASSUME NEW g \in M, NEW k \in 1 .. N
        PROVE  /\ Deal(tard, g, primes[N - k + 1], k) \in M
               /\ ProductOn(Deal(tard, g, primes[N - k + 1], k), 1 .. nd)
                    = ProductOn(g, 1 .. nd) * primes[N - k + 1]
    <2>1. k \in Nat \ {0}
      OBVIOUS
    <2>2. tard \in Grids(nd) /\ g \in Grids(nd) /\ primes[N - k + 1] \in Nat \ {0}
      BY <1>2, <1>3
    <2> DEFINE q == primes[N - k + 1]
    <2> HIDE DEF q
    <2>3. nd \in Nat \ {0} /\ k \in Nat \ {0} /\ tard \in Grids(nd) /\ g \in Grids(nd)
          /\ q \in Nat \ {0}
      BY <2>1, <2>2 DEF q
    <2>4. Deal(tard, g, q, k) \in Grids(nd)
      BY ONLY <2>3, DealStep
    <2>5. ProductOn(Deal(tard, g, q, k), 1 .. nd) = ProductOn(g, 1 .. nd) * q
      BY ONLY <2>3, DealStep
    <2>6. QED
      BY <2>4, <2>5 DEF q
  <1> HIDE DEF M, N
  <1>7. \A k \in 1 .. N : G[k] \in [M -> M]
    BY <1>6
  <1>8. \A k \in 1 .. N, g \in M : G[k][g] = Deal(tard, g, primes[N - k + 1], k)
    OBVIOUS
  <1> HIDE DEF G
  <1>9. PICK f \in [0 .. N -> M] : f[0] = init /\ \A k \in 1 .. N : f[k] = G[k][f[k - 1]]
    <2>1. \E f \in [0 .. N -> M] : Follows(f, N, init, G)
      BY <1>2, <1>4, <1>7, StepByStep
    <2>2. QED
      BY <2>1 DEF Follows
  <1>10. \A k \in 1 .. N : f[k - 1] \in M /\ f[k] = Deal(tard, f[k - 1], primes[N - k + 1], k)
    <2>1. \A k \in 1 .. N : k - 1 \in 0 .. N
      BY <1>2
    <2>2. QED
      BY <1>8, <1>9, <2>1
  <1>11. Is(f)
    BY <1>9, <1>10
  <1>12. Is(pedims)
    BY <1>11
  <1> HIDE DEF pedims
  <1>13. /\ pedims[0] = init
         /\ \A k \in 1 .. N : pedims[k] = Deal(tard, pedims[k - 1], primes[N - k + 1], k)
    <2>1. \A k \in 0 .. N :
            pedims[k] = IF k = 0 THEN init ELSE Deal(tard, pedims[k - 1], primes[N - k + 1], k)
      BY <1>12, Zenon
    <2>2. 0 \in 0 .. N /\ \A k \in 1 .. N : k \in 0 .. N /\ k # 0
      BY <1>2
    <2> HIDE DEF Is
    <2>3. QED
      BY ONLY <2>1, <2>2, Zenon
  <1> DEFINE T == {k \in 0 .. N : /\ pedims[k] \in M
                                  /\ ProductOn(pedims[k], 1 .. nd) = DealtPrimes(primes, k)}
  <1>14. /\ DealtPrimes(primes, 0) = 1 /\ DealtPrimes(primes, N) = n
         /\ \A k \in 1 .. N :
              DealtPrimes(primes, k) = DealtPrimes(primes, k - 1) * primes[N - k + 1]
    BY <1>1, DealtPrimesStep DEF N
  <1>15. 0 \in T
    BY <1>2, <1>4, <1>13, <1>14
  <1>16. ASSUME NEW k \in 1 .. N, k - 1 \in T
         PROVE  k \in T
    <2>1. pedims[k - 1] \in M
          /\ ProductOn(pedims[k - 1], 1 .. nd) = DealtPrimes(primes, k - 1)
      BY <1>16
    <2>2. /\ pedims[k] \in M
          /\ ProductOn(pedims[k], 1 .. nd) = DealtPrimes(primes, k - 1) * primes[N - k + 1]
      BY <1>6, <1>13, <2>1
    <2>3. k \in 0 .. N
      BY <1>2
    <2>4. QED
      BY <1>14, <2>2, <2>3
  <1> HIDE DEF T
  <1>17. 0 .. N \subseteq T
    BY <1>2, <1>15, <1>16, UpFromZero
  <1>18. N \in 0 .. N
    BY <1>2
  <1>19. QED
    BY <1>5, <1>14, <1>17, <1>18 DEF T, M

-----------------------------------------------------------------------------
(* The grid of a tensor.                                                   *)

\* The product does not depend on how the factors are numbered.
LEMMA ProductRenamed ==
  ASSUME NEW S, IsFiniteSet(S), NEW h, NEW f, NEW g,
         \A x \in S : g[x] \in Nat /\ g[x] = f[h[x]],
         \A x, y \in S : h[x] = h[y] => x = y
  PROVE  ProductOn(g, S) = ProductOn(f, {h[x] : x \in S})
  <1> DEFINE Image(s) == {h[x] : x \in s}
             Bad == {s \in SUBSET S : ProductOn(g, s) # ProductOn(f, Image(s))}
  <1> SUFFICES ASSUME Bad # {}
               PROVE  FALSE
    OBVIOUS
  <1>1. PICK s \in Bad : \A u \in Bad : u \subseteq s => u = s
    <2>1. Bad \subseteq SUBSET S
      OBVIOUS
    <2> HIDE DEF Bad
    <2>2. QED
      BY <2>1, SmallestSet
  <1>2. IsFiniteSet(s) /\ s \subseteq S
    BY FS_Subset
  <1>3. s # {}
    <2>1. Image({}) = {}
      OBVIOUS
    <2> HIDE DEF Image
    <2>2. QED
      BY <2>1, ProductEmpty
  <1> DEFINE e == Some(s)
             u == s \ {e}
  <1>4. e \in s /\ u \subseteq s /\ u # s
    BY <1>3, SomeOf
  <1>5. ProductOn(g, u) = ProductOn(f, Image(u))
    BY <1>1, <1>4
  <1>6. ProductOn(g, s) = g[e] * ProductOn(g, u)
    BY <1>2, <1>3, ProductUnfold
  <1> HIDE DEF e
  <1>7. IsFiniteSet(Image(s))
    BY <1>2, FiniteImage
  <1>8. \A y \in Image(s) : f[y] \in Nat
    BY <1>2
  <1>9. h[e] \in Image(s) /\ Image(s) \ {h[e]} = Image(u)
    BY <1>2, <1>4
  <1>10. g[e] = f[h[e]]
    BY <1>2, <1>4
  <1> HIDE DEF Image, u
  <1>11. ProductOn(f, Image(s)) = f[h[e]] * ProductOn(f, Image(u))
    BY <1>7, <1>8, <1>9, ProductRemove
  <1>12. QED
    BY <1>5, <1>6, <1>10, <1>11 DEF Bad

\* Factors that are one can be left out.
LEMMA ProductWithoutOnes ==
  ASSUME NEW S, IsFiniteSet(S), NEW g \in [S -> Nat \ {0}], NEW T \in SUBSET S,
         \A x \in S \ T : g[x] = 1
  PROVE  ProductOn(g, S) = ProductOn(g, T)
  <1> DEFINE Bad == {s \in SUBSET S : T \subseteq s /\ ProductOn(g, s) # ProductOn(g, T)}
  <1> SUFFICES ASSUME Bad # {}
               PROVE  FALSE
    OBVIOUS
  <1>1. PICK s \in Bad : \A u \in Bad : u \subseteq s => u = s
    <2>1. Bad \subseteq SUBSET S
      OBVIOUS
    <2> HIDE DEF Bad
    <2>2. QED
      BY <2>1, SmallestSet
  <1>2. IsFiniteSet(s) /\ s \subseteq S /\ T \subseteq s /\ ProductOn(g, s) # ProductOn(g, T)
    BY FS_Subset
  <1>3. PICK e \in s : e \notin T
    BY <1>2
  <1> DEFINE u == s \ {e}
  <1>4. u \in SUBSET S /\ T \subseteq u /\ u \subseteq s /\ u # s /\ g[e] = 1
    BY <1>2, <1>3
  <1>5. ProductOn(g, u) = ProductOn(g, T)
    BY <1>1, <1>4
  <1>6. \A x \in s : g[x] \in Nat
    BY <1>2
  <1>7. ProductOn(g, s) = g[e] * ProductOn(g, u)
    BY <1>2, <1>6, ProductRemove
  <1>8. ProductOn(g, u) \in Nat
    <2>1. IsFiniteSet(u) /\ \A x \in u : g[x] \in Nat
      BY <1>2, <1>6, FS_Subset
    <2> HIDE DEF u
    <2>2. QED
      BY <2>1, ProductNat
  <1>9. QED
    BY <1>2, <1>4, <1>5, <1>7, <1>8

\* The divided dimensions are numbered from 1 on.
LEMMA Numbers ==
  ASSUME IsShape(shape)
  PROVE  /\ IsFiniteSet(Divided) /\ Cardinality(Divided) \in Nat
         /\ \A r \in Divided : NumberOf(r) \in 1 .. Cardinality(Divided)
         /\ \A q, r \in Divided : NumberOf(q) = NumberOf(r) => q = r
         /\ \A k \in 1 .. Cardinality(Divided) : \E r \in Divided : NumberOf(r) = k
  <1> DEFINE S == Divided
             K == [r \in S |-> r]
             n == Cardinality(S)
  <1>1. DOMAIN shape = 1 .. Len(shape) /\ Len(shape) \in Nat
    BY ShapeFacts
  <1>2. S \subseteq 1 .. Len(shape) /\ S \subseteq Nat
    BY <1>1 DEF Divided
  <1>3. IsFiniteSet(S)
    <2>1. IsFiniteSet(1 .. Len(shape))
      BY <1>1, FS_Interval
    <2>2. QED
      BY <1>2, <2>1, FS_Subset
  <1>4. n \in Nat
    BY <1>3, FS_CardinalityType
  <1>5. K \in [S -> Nat] /\ \A q, r \in S : K[q] = K[r] => q = r
    BY <1>2
  <1>6. \A r \in S : NumberOf(r) = Rank(K, S, r) + 1
    <2>1. \A r \in S : {q \in S : q < r} = {q \in S : K[q] < K[r]}
      OBVIOUS
    <2> HIDE DEF K
    <2>2. QED
      BY <2>1 DEF Rank, NumberOf
  <1> HIDE DEF K, S, n
  <1>7. \A r \in S : Rank(K, S, r) \in 0 .. n - 1
    BY <1>3, <1>5, RanksRise DEF n
  <1>8. /\ \A q, r \in S : Rank(K, S, q) = Rank(K, S, r) => q = r
        /\ \A k \in 1 .. n : \E r \in S : Rank(K, S, r) = k - 1
    BY <1>3, <1>5, RanksAreAll DEF n
  <1>9. \A r \in S : NumberOf(r) \in 1 .. n
    BY <1>4, <1>6, <1>7
  <1>10. ASSUME NEW q \in S, NEW r \in S, NumberOf(q) = NumberOf(r)
         PROVE  q = r
    <2>1. Rank(K, S, q) \in Int /\ Rank(K, S, r) \in Int
      BY <1>7
    <2>2. Rank(K, S, q) = Rank(K, S, r)
      BY <1>6, <1>10, <2>1
    <2>3. QED
      BY <1>8, <2>2
  <1>11. ASSUME NEW k \in 1 .. n
         PROVE  \E r \in S : NumberOf(r) = k
    <2>1. PICK r \in S : Rank(K, S, r) = k - 1
      BY <1>8
    <2>2. QED
      BY <1>6, <2>1
  <1>12. QED
    BY <1>3, <1>4, <1>9, <1>10, <1>11 DEF S, n

LEMMA IndicesNat ==
  ASSUME IsShape(shape), NEW r \in DOMAIN shape
  PROVE  NumIndices(shape[r]) \in Nat
  <1> DEFINE t == shape[r].tiles
             S == 1 .. Len(t)
  <1>1. t \in Seq(Nat \ {0})
    BY ShapeFacts
  <1> HIDE DEF t
  <1>2. DOMAIN t = S /\ Len(t) \in Nat /\ \A x \in S : t[x] \in Nat
    BY <1>1
  <1>3. IsFiniteSet(S)
    BY <1>2, FS_Interval
  <1> HIDE DEF S
  <1>4. SumFunctionOnSet(t, S) \in Nat
    BY <1>2, <1>3, SumNat
  <1>5. QED
    BY <1>2, <1>4 DEF NumIndices, SumSeq, t

LEMMA DenseGridIs ==
  ASSUME IsShape(shape), nproc \in Nat \ {0}
  PROVE  /\ DenseGrid \in [DOMAIN shape -> Nat \ {0}]
         /\ ProductSeq(DenseGrid) = IF Divided # {} THEN nproc ELSE 1
  <1> DEFINE n == Cardinality(Divided)
             extents == [k \in 1 .. n |-> NumIndices(shape[CHOOSE r \in Divided : NumberOf(r) = k])]
             pgrid == ProcGrid(extents, nproc)
             D == DOMAIN shape
             g == [r \in D |-> IF r \in Divided THEN pgrid[NumberOf(r)] ELSE 1]
             h == [r \in Divided |-> NumberOf(r)]
  <1>1. /\ IsFiniteSet(Divided) /\ n \in Nat
        /\ \A r \in Divided : NumberOf(r) \in 1 .. n
        /\ \A q, r \in Divided : NumberOf(q) = NumberOf(r) => q = r
        /\ \A k \in 1 .. n : \E r \in Divided : NumberOf(r) = k
    BY Numbers
  <1>2. Divided \subseteq D
    BY DEF Divided
  <1>3. extents \in [1 .. n -> Nat]
    <2>1. \A k \in 1 .. n : (CHOOSE r \in Divided : NumberOf(r) = k) \in Divided
      BY <1>1
    <2>2. QED
      BY <1>2, <2>1, IndicesNat
  <1>4. DenseGrid = g /\ ProductSeq(DenseGrid) = ProductOn(g, D)
    BY DEF DenseGrid, ProductSeq
  <1>5. IsFiniteSet(D)
    <2>1. D = 1 .. Len(shape) /\ Len(shape) \in Nat
      BY ShapeFacts
    <2>2. QED
      BY <2>1, FS_Interval
  <1> HIDE DEF extents
  <1>6. CASE Divided = {}
    <2>1. \A r \in D : g[r] = 1
      BY <1>6
    <2>2. g \in [D -> Nat \ {0}]
      BY <1>6
    <2> HIDE DEF g, D
    <2>3. ProductOn(g, D) = 1
      BY <1>5, <2>1, ProductOnes
    <2>4. QED
      BY <1>4, <1>6, <2>2, <2>3 DEF D
  <1>7. CASE Divided # {}
    <2>1. n \in Nat \ {0}
      BY <1>1, <1>7
    <2>2. pgrid \in Grids(n) /\ ProductOn(pgrid, 1 .. n) = nproc
      <3> HIDE DEF n
      <3>1. QED
        BY <1>3, <2>1, GridIsDealt
    <2> HIDE DEF pgrid, n
    <2>3. \A r \in Divided : pgrid[NumberOf(r)] \in Nat \ {0}
      BY <1>1, <2>2 DEF Grids
    <2>4. g \in [D -> Nat \ {0}]
      BY <2>3
    <2>5. /\ \A r \in Divided : h[r] = NumberOf(r) /\ g[r] = pgrid[h[r]] /\ g[r] \in Nat
          /\ \A q, r \in Divided : h[q] = h[r] => q = r
      BY <1>1, <1>2, <2>3
    <2>6. {h[r] : r \in Divided} = 1 .. n
      <3>1. \A r \in Divided : h[r] \in 1 .. n
        BY <1>1
      <3>2. \A k \in 1 .. n : \E r \in Divided : h[r] = k
        BY <1>1
      <3> HIDE DEF h
      <3>3. QED
        BY <3>1, <3>2
    <2>7. \A r \in D \ Divided : g[r] = 1
      OBVIOUS
    <2> HIDE DEF g, h, D
    <2>8. ProductOn(g, Divided) = nproc
      <3>1. ProductOn(g, Divided) = ProductOn(pgrid, {h[r] : r \in Divided})
        BY <1>1, <2>5, ProductRenamed
      <3>2. QED
        BY <2>2, <2>6, <3>1
    <2>9. ProductOn(g, D) = ProductOn(g, Divided)
      BY <1>2, <1>5, <2>4, <2>7, ProductWithoutOnes
    <2>10. QED
      BY <1>4, <1>7, <2>4, <2>8, <2>9 DEF D
  <1>8. QED
    BY <1>6, <1>7

\* No part of a dimension is empty.
LEMMA PartsNotEmpty ==
  ASSUME IsShape(shape), NEW grid, NEW r \in DOMAIN shape, grid[r] \in Nat \ {0}
  PROVE  LET starts == PartStarts(grid, r) \o <<NumIndices(shape[r])>>
         IN  \A k \in 1 .. PartsOf(grid, r) : starts[k] < starts[k + 1]
  <1> DEFINE N == NumIndices(shape[r])
             parts == PartsOf(grid, r)
             q == N \div parts
             begins == [k \in 1 .. parts |-> (k - 1) * q]
             starts == begins \o <<N>>
  <1>1. N \in Nat
    BY IndicesNat
  <1>2. parts \in Nat /\ parts <= N
    <2>1. {grid[r], N} \subseteq Nat /\ {grid[r], N} # {}
      BY <1>1
    <2>2. Min({grid[r], N}) \in {grid[r], N} /\ \A k \in {grid[r], N} : Min({grid[r], N}) <= k
      BY <2>1, MinIs
    <2>3. QED
      BY <2>1, <2>2 DEF PartsOf
  <1>3. PartStarts(grid, r) = begins
    BY DEF PartStarts
  <1> HIDE DEF N, parts
  <1>4. ASSUME NEW k \in 1 .. parts
        PROVE  starts[k] < starts[k + 1]
    <2>1. parts \in Nat \ {0} /\ k \in Nat /\ k - 1 \in Nat
      BY <1>2
    <2>2. q \in Nat /\ N % parts \in Nat /\ N = parts * q + (N % parts)
      BY <1>1, <2>1, DivMod
    <2>3. q # 0
      <3>1. N % parts < parts
        BY <1>1, <2>1, DivMod
      <3>2. q = 0 => parts * q = 0
        <4> HIDE DEF q
        <4>1. QED
          BY <2>1
      <3>3. QED
        BY <1>1, <1>2, <2>1, <2>2, <3>1, <3>2
    <2> HIDE DEF q
    <2>4. \A j \in Nat : j * q \in Nat /\ (j + 1) * q = j * q + q
      BY <2>2
    <2>5. begins \in Seq(Nat) /\ Len(begins) = parts
      <3>1. \A j \in 1 .. parts : j - 1 \in Nat /\ (j - 1) * q \in Nat
        BY <2>1, <2>4
      <3>2. begins \in [1 .. parts -> Nat]
        BY <3>1
      <3> HIDE DEF begins
      <3>3. QED
        BY <2>1, <3>2
    <2>6. \A j \in 1 .. parts : begins[j] = (j - 1) * q
      OBVIOUS
    <2> HIDE DEF begins
    <2>7. (\A j \in 1 .. parts : starts[j] = begins[j]) /\ starts[parts + 1] = N
      BY <1>1, <2>5
    <2> HIDE DEF starts
    <2>8. CASE k < parts
      <3>1. k \in 1 .. parts /\ k + 1 \in 1 .. parts /\ (k + 1) - 1 = k /\ (k - 1) + 1 = k
        BY <2>1, <2>8
      <3>2. starts[k] = (k - 1) * q /\ starts[k + 1] = k * q
        BY <2>6, <2>7, <3>1
      <3>3. (k - 1) * q \in Nat /\ k * q = (k - 1) * q + q
        BY <2>1, <2>4, <3>1
      <3> DEFINE x == (k - 1) * q
                 y == k * q
      <3>4. x \in Nat /\ y = x + q /\ starts[k] = x /\ starts[k + 1] = y
        BY <3>2, <3>3
      <3> HIDE DEF x, y
      <3>5. QED
        BY <2>2, <2>3, <3>4
    <2>9. CASE k = parts
      <3>1. starts[k] = (k - 1) * q /\ starts[k + 1] = N /\ (k - 1) + 1 = k
        BY <2>1, <2>6, <2>7, <2>9
      <3>2. (k - 1) * q \in Nat /\ k * q = (k - 1) * q + q
        BY <2>1, <2>4, <3>1
      <3> DEFINE x == (k - 1) * q
                 y == k * q
      <3>3. x \in Nat /\ y = x + q /\ starts[k] = x /\ starts[k + 1] = N /\ N = y + (N % parts)
        BY <2>2, <2>9, <3>1, <3>2
      <3> DEFINE z == N % parts
      <3> HIDE DEF x, y, z
      <3>4. x \in Nat /\ y = x + q /\ N = y + z /\ z \in Nat
        BY <2>2, <3>3 DEF z
      <3>5. x < N
        BY <2>2, <2>3, <3>4
      <3>6. QED
        BY <3>3, <3>5
    <2>10. QED
      BY <2>1, <2>8, <2>9
  <1>5. QED
    BY <1>3, <1>4 DEF N, parts

\* Whatever the tensors and the number of processes, the grid over the dimensions
\* that are divided has as many places as there are processes, and no part of a
\* dimension is empty (distribution.hpp:510-560, proc_grid.hpp:195-306,
\* tensor_impl.hpp:971-1023).
THEOREM GridIsWholeAlways == DistSpec => []GridIsWhole
  <1>1. DistInv => GridIsWhole
    <2> SUFFICES ASSUME DistInv
                 PROVE  /\ ProductSeq(DenseGrid) = IF Divided # {} THEN nproc ELSE 1
                        /\ \A r \in DOMAIN shape :
                             LET starts == PartStarts(DenseGrid, r) \o <<NumIndices(shape[r])>>
                             IN  \A k \in 1 .. PartsOf(DenseGrid, r) : starts[k] < starts[k + 1]
      BY DEF GridIsWhole
    <2>1. IsShape(shape) /\ nproc \in Nat \ {0}
      <3>1. TypeOK
        BY DEF DistInv, IInv
      <3>2. nproc \in Nat \ {0}
        BY <3>1, Types
      <3>3. IsShape(shape)
        BY BlockFacts
      <3>4. QED
        BY <3>2, <3>3
    <2>2. DenseGrid \in [DOMAIN shape -> Nat \ {0}]
          /\ ProductSeq(DenseGrid) = IF Divided # {} THEN nproc ELSE 1
      BY <2>1, DenseGridIs
    <2>3. \A r \in DOMAIN shape : DenseGrid[r] \in Nat \ {0}
      BY <2>2
    <2> HIDE DEF DistInv
    <2>4. QED
      BY <2>1, <2>2, <2>3, PartsNotEmpty
  <1>2. QED
    BY <1>1, DistInvariant, PTL
=============================================================================
