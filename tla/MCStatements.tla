---------------------------- MODULE MCStatements ----------------------------
(* Statements on small tensors, with labels of all sorts, by two ranks.    *)
EXTENDS Statements

Count(n) == [k \in 1 .. n |-> k - 1]
Half == RangeSpace(Count(3), Empty, 1 :> <<range(0, 2)>> @@ 2 :> <<range(2, 3)>>)

\* A space of two tiles, one of three, parts of them, and spaces that depend on tiles.
SpacesOn(N, M, S, ends, one) ==
  [N |-> N, M |-> M, S |-> S, ends |-> ends, late |-> SubTisOfRange(M, range(1, 3)),
   part |-> SubTisOfRange(M, range(0, 3)), upper |-> SubTis(N, <<1>>),
   dep |-> DepTis(M, <<N>>, <<0>> :> ends @@ <<1>> :> one),
   less |-> DepTis(M, <<N>>, <<0>> :> SubTis(M, <<2>>) @@ <<1>> :> one)]
SpacesOver(M) ==
  SpacesOn(RootTiling(RangeSpace(Count(3), Empty, Empty), 2, <<>>), M, RootTiling(Half, 2, <<>>),
           SubTis(M, <<0, 2>>), SubTis(M, <<1>>))
Spaces == SpacesOver(RootTiling(RangeSpace(Count(4), Empty, Empty), 0, <<1, 2, 1>>))

\* Tensors held by both ranks, by one, or by a rank and a process of no rank.
Tensor(tiss, deps) ==
  [tiss |-> tiss, deps |-> deps, spins |-> <<>>, inEc |-> <<0, 1>>, first |-> 0, view |-> FALSE]
Dense(tiss) == Tensor(tiss, [k \in DOMAIN tiss |-> <<>>])
Elsewhere(t, inEc, first) == [t EXCEPT !.inEc = inEc, !.first = first]
View(t) == [t EXCEPT !.view = TRUE]
TensorsOn(s) ==
  [NM |-> Dense(<<s.N, s.M>>), MN |-> Dense(<<s.M, s.N>>), NN |-> Dense(<<s.N, s.N>>),
   ND |-> Tensor(<<s.N, s.dep>>, <<<<>>, <<1>>>>), NV |-> Dense(<<s.N>>), MV |-> Dense(<<s.M>>),
   RV |-> Dense(<<s.part>>), scalar |-> Dense(<<>>), SV |-> Dense(<<s.S>>),
   SS |-> [Dense(<<s.S, s.S>>) EXCEPT !.spins = <<"upper", "lower">>]]

LabelsWith(s, i) ==
  [i |-> i, j |-> label(s.N, 2), k |-> label(s.M, 3), ends |-> label(s.ends, 5), late |-> label(s.late, 6),
   upper |-> label(s.upper, 7), dep |-> DependingOn(label(s.dep, 8), <<i>>),
   less |-> DependingOn(label(s.less, 9), <<i>>), orphan |-> label(s.dep, 10),
   s1 |-> label(s.S, 11), s2 |-> label(s.S, 12), s3 |-> label(s.S, 13)]
LabelsOn(s) == LabelsWith(s, label(s.N, 1))

Of(x, ls) == [t |-> x, ls |-> ls]
Stmt(left, isAssign, alpha, right) == [left |-> left, assign |-> isAssign, alpha |-> alpha, right |-> right]

\* C() = 3 and C() += 3
Settings(t, l) ==
  {Stmt(Of(x, <<l1, l2>>), b, 3, <<>>) :
     x \in {t.NM, View(t.NM), Elsewhere(t.NM, <<0, -1>>, 1), Elsewhere(t.NM, <<1>>, 0)},
     l1 \in {l.i, l.upper}, l2 \in {l.k, l.ends, l.late}, b \in BOOLEAN}
  \cup {Stmt(Of(t.ND, <<l.i, l2>>), b, 3, <<>>) : l2 \in {l.dep, l.less, l.orphan, l.k}, b \in BOOLEAN}
  \cup {Stmt(Of(t.NN, <<l.i, l2>>), b, 3, <<>>) : l2 \in {l.i, l.j}, b \in BOOLEAN}
  \cup {Stmt(Of(t.SS, ls), b, 3, <<>>) : ls \in {<<l.s1, l.s2>>, <<l.s1, l.s1>>}, b \in BOOLEAN}
  \cup {Stmt(Of(t.RV, <<m>>), b, 3, <<>>) : m \in {l.ends, l.late, l.k}, b \in BOOLEAN}
  \cup {Stmt(Of(t.scalar, <<>>), b, 3, <<>>) : b \in BOOLEAN}

Apart(t) == Elsewhere(t.NM, <<0, -1>>, 1)
Both(left, alpha, right) == {Stmt(left, b, alpha, right) : b \in BOOLEAN}
Placements(t) == {t.NM, View(t.NM), Elsewhere(t.NM, <<1, 0>>, 0), Apart(t)}

\* C() = -2 A() and C() += -2 A(): permuted, sliced, repeated and dependent labels,
\* labels of one side only, absent blocks
Pairs(t, l) == {
  <<Of(t.NN, <<l.j, l.i>>), Of(t.NN, <<l.i, l.j>>)>>,
  <<Of(t.NV, <<l.i>>), Of(t.NM, <<l.i, l.k>>)>>,
  <<Of(t.scalar, <<>>), Of(t.NM, <<l.i, l.k>>)>>,
  <<Of(t.NM, <<l.i, l.k>>), Of(t.MV, <<l.k>>)>>,
  <<Of(t.NM, <<l.i, l.ends>>), Of(t.scalar, <<>>)>>,
  <<Of(t.NV, <<l.i>>), Of(t.NN, <<l.i, l.i>>)>>,
  <<Of(t.NN, <<l.i, l.i>>), Of(t.NV, <<l.i>>)>>,
  <<Of(t.NM, <<l.i, l.dep>>), Of(t.NM, <<l.i, l.dep>>)>>,
  <<Of(t.ND, <<l.i, l.dep>>), Of(t.MN, <<l.dep, l.i>>)>>,
  <<Of(t.NM, <<l.i, l.less>>), Of(t.ND, <<l.i, l.less>>)>>,
  <<Of(t.ND, <<l.i, l.dep>>), Of(t.ND, <<l.i, l.dep>>)>>,
  <<Of(t.NV, <<l.i>>), Of(t.ND, <<l.i, l.dep>>)>>,
  <<Of(t.ND, <<l.i, l.orphan>>), Of(t.NM, <<l.i, l.orphan>>)>>,
  <<Of(t.ND, <<l.i, l.k>>), Of(t.MN, <<l.k, l.i>>)>>,
  <<Of(t.NM, <<l.i, l.k>>), Of(t.ND, <<l.i, l.k>>)>>,
  <<Of(t.SS, <<l.s1, l.s2>>), Of(t.SS, <<l.s2, l.s1>>)>>,
  <<Of(t.SS, <<l.s1, l.s2>>), Of(t.SV, <<l.s2>>)>>}
Sums(t, l) ==
  UNION {Both(Of(x, <<l.i, l.k>>), -2, <<Of(y, <<l.i, l.k>>)>>) : x \in Placements(t), y \in Placements(t)}
  \cup UNION {Both(Of(t.NM, <<l1, l2>>), -2, <<Of(t.MN, <<l2, l1>>)>>) :
                l1 \in {l.i, l.upper}, l2 \in {l.k, l.ends, l.late}}
  \cup UNION {Both(pair[1], -2, <<pair[2]>>) : pair \in Pairs(t, l)}

\* C() = 3 A() B() and C() += 3 A() B(): by the ranks that hold the blocks of C, or
\* shared out
Alone(t) == Elsewhere(t.NN, <<1>>, 0)
Triples(t, l) == {
  <<Of(t.NN, <<l.i, l.j>>), Of(t.NM, <<l.i, l.k>>), Of(t.MN, <<l.k, l.j>>)>>,
  <<Of(Alone(t), <<l.i, l.j>>), Of(t.NM, <<l.i, l.k>>), Of(t.NM, <<l.j, l.k>>)>>,
  <<Of(View(t.NN), <<l.j, l.i>>), Of(t.MN, <<l.ends, l.i>>), Of(t.MN, <<l.ends, l.j>>)>>,
  <<Of(Alone(t), <<l.upper, l.j>>), Of(t.NM, <<l.upper, l.late>>), Of(t.MN, <<l.late, l.j>>)>>,
  <<Of(t.NM, <<l.i, l.k>>), Of(t.NM, <<l.i, l.k>>), Of(t.MN, <<l.k, l.i>>)>>,
  <<Of(Apart(t), <<l.i, l.k>>), Of(t.MV, <<l.k>>), Of(t.NV, <<l.i>>)>>,
  <<Of(t.NM, <<l.i, l.k>>), Of(t.NM, <<l.i, l.k>>), Of(t.NV, <<l.i>>)>>,
  <<Of(Apart(t), <<l.i, l.ends>>), Of(t.scalar, <<>>), Of(t.MN, <<l.ends, l.i>>)>>,
  <<Of(t.NV, <<l.i>>), Of(t.NM, <<l.i, l.k>>), Of(t.NV, <<l.j>>)>>,
  <<Of(t.scalar, <<>>), Of(t.NM, <<l.i, l.k>>), Of(t.MN, <<l.k, l.i>>)>>,
  <<Of(t.ND, <<l.i, l.dep>>), Of(t.ND, <<l.i, l.dep>>), Of(t.NV, <<l.i>>)>>,
  <<Of(t.NV, <<l.i>>), Of(t.ND, <<l.i, l.dep>>), Of(t.ND, <<l.i, l.dep>>)>>,
  <<Of(t.NM, <<l.i, l.k>>), Of(t.ND, <<l.i, l.k>>), Of(t.NM, <<l.i, l.k>>)>>,
  <<Of(t.SS, <<l.s1, l.s2>>), Of(t.SS, <<l.s1, l.s3>>), Of(t.SS, <<l.s3, l.s2>>)>>,
  <<Of(Elsewhere(t.SS, <<1>>, 0), <<l.s1, l.s2>>), Of(t.SS, <<l.s2, l.s3>>), Of(t.SS, <<l.s3, l.s1>>)>>}
Products(t, l) ==
  UNION {Both(tr[1], 3, Tail(tr)) : tr \in Triples(t, l)}

AllStatements(t, l) == Settings(t, l) \cup Sums(t, l) \cup Products(t, l)
StatementsOver(spaces) == AllStatements(TensorsOn(spaces), LabelsOn(spaces))
MCStatementsIn == StatementsOver(Spaces)
=============================================================================
