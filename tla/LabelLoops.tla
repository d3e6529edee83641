----------------------------- MODULE LabelLoops -----------------------------
(***************************************************************************)
(* Labels of the modes of tensors, the loops over the blocks they stand    *)
(* for (index_loop_nest.hpp) and the translation of a block from the       *)
(* spaces of the labels to those of the tensors (label_translator.hpp,     *)
(* utils.hpp).  A label is a tiled space and a number, with the labels it  *)
(* depends on; positions count from one.                                   *)
(***************************************************************************)
EXTENDS IndexSpaces

label(t, num) == [tis |-> t, num |-> num, sec |-> <<>>]
Primary(l) == <<l.tis.key, l.num>>
DependingOn(l, on) == [l EXCEPT !.sec = [k \in DOMAIN on |-> Primary(on[k])]]
SameLabel(l, m) == Primary(l) = Primary(m) /\ l.sec = m.sec
SameLabels(ls, ms) == Len(ls) = Len(ms) /\ \A k \in DOMAIN ls : SameLabel(ls[k], ms[k])

\* The first position of an element, zero if there is none.
FirstPos(s, x) == IF x \in Elements(s) THEN Position(s, x) + 1 ELSE 0
Primaries(ls) == [k \in DOMAIN ls |-> Primary(ls[k])]
At1(s, positions) == [k \in DOMAIN positions |-> s[positions[k]]]

unique_entries(s) == FoldLeft(LAMBDA acc, x : IF x \in Elements(acc) THEN acc ELSE Append(acc, x), <<>>, s)
perm_map_compute(from, to) == [k \in DOMAIN to |-> FirstPos(from, to[k])]
unique_entries_by_primary_label(ls) ==
  At1(ls, perm_map_compute(Primaries(ls), unique_entries(Primaries(ls))))

\* For every label where the labels it depends on come first.
construct_dep_map(ls) ==
  [k \in DOMAIN ls |-> perm_map_compute(Primaries(ls), ls[k].sec)]

\* A label comes after those it depends on (which depend on none).
sort_on_dependence(ls) ==
  LET deps == construct_dep_map(ls)
  IN At1(ls, unique_entries(Concat([k \in DOMAIN ls |-> Append(deps[k], k)])))

\* The same for places: one that depends on others waits for them, the last first.
topological_sort(deps) ==
  unique_entries(Concat([k \in DOMAIN deps |-> Append(Reverse(deps[k]), k)]))

-----------------------------------------------------------------------------
\* Loop nests: an odometer over the tiles of the spaces.  The bounds and the
\* tiles a space depends on refer to loops further out.

Nest(iss, lb, ub, indep) == [iss |-> iss, lb |-> lb, ub |-> ub, indep |-> indep]
NestOfLabels(ls) ==
  LET none == [k \in DOMAIN ls |-> <<>>]
      deps == construct_dep_map(ls)
  IN Nest([k \in DOMAIN ls |-> ls[k].tis], none, none,
          [k \in DOMAIN ls |-> IF IsDependent(ls[k].tis) THEN deps[k] ELSE <<>>])

\* From bounds like i <= j, both ends inclusive: the labels of bounds have been given
\* by then.  The one labels depend on at place j has to be found before place j, also
\* counted from one, so the check never accepts the first of them.
GivenBy(ls, k) == Primaries(SubSeq(ls, 1, k))
BoundsExpected(ls, lower, upper) ==
  \A k \in DOMAIN ls :
    /\ \A j \in DOMAIN ls[k].sec : FirstPos(GivenBy(ls, k), ls[k].sec[j]) \in 1 .. j - 1
    /\ Elements(Primaries(lower[k] \o upper[k])) \subseteq Elements(GivenBy(ls, k))

\* Mutant: upper and lower bounds are confused.
MutNestOfBounds(ls, lower, upper) ==
  Nest([k \in DOMAIN ls |-> ls[k].tis],
       [k \in DOMAIN ls |-> perm_map_compute(Primaries(ls), Primaries(upper[k]))],
       [k \in DOMAIN ls |-> perm_map_compute(Primaries(ls), Primaries(lower[k]))],
       construct_dep_map(ls))
NestOfBounds(ls, lower, upper) ==
  Nest([k \in DOMAIN ls |-> ls[k].tis],
       [k \in DOMAIN ls |-> perm_map_compute(Primaries(ls), Primaries(lower[k]))],
       [k \in DOMAIN ls |-> perm_map_compute(Primaries(ls), Primaries(upper[k]))],
       construct_dep_map(ls))

\* The state of the odometer: the loops under way, from the outermost, and their ends.
Done == [itrs |-> <<>>, ends |-> <<>>, done |-> TRUE]
Enter(it, first, end) == [it EXCEPT !.itrs = Append(@, first), !.ends = Append(@, end)]
Advance(it) == [it EXCEPT !.itrs = Append(Front(@), Last(@) + 1)]
Leave(it) == [it EXCEPT !.itrs = Front(@), !.ends = Front(@)]

Positions(it, ps) == {it.itrs[p] : p \in Elements(ps)}
TisAt(nest, it, i) == lookup_dependent_space(nest.iss[i], At1(it.itrs, nest.indep[i]))[1]
BeginOf(nest, it, i) == Largest({0} \cup Positions(it, nest.lb[i]))
EndOf(nest, it, i) ==
  Min({NumTilesIn(TisAt(nest, it, i))} \cup {p + 1 : p \in Positions(it, nest.ub[i])})

RECURSIVE rollback(_), reset_forward(_, _), Increment(_, _), TuplesFrom(_, _)
rollback(it) == IF it.itrs # <<>> /\ Last(it.itrs) + 1 = Last(it.ends) THEN rollback(Leave(it)) ELSE it

\* A loop with nothing to do makes the one further out go on.
reset_forward(nest, it) ==
  LET i == Len(it.itrs) + 1
  IN IF i > Len(nest.iss) THEN it
     ELSE IF BeginOf(nest, it, i) < EndOf(nest, it, i)
     THEN reset_forward(nest, Enter(it, BeginOf(nest, it, i), EndOf(nest, it, i)))
     ELSE Increment(nest, it)
Increment(nest, it) ==
  IF rollback(it).itrs = <<>> THEN Done ELSE reset_forward(nest, Advance(rollback(it)))

Begin(nest) == reset_forward(nest, [itrs |-> <<>>, ends |-> <<>>, done |-> FALSE])

TuplesFrom(nest, it) == IF it.done THEN <<>> ELSE <<it.itrs>> \o TuplesFrom(nest, Increment(nest, it))
Tuples(nest) == TuplesFrom(nest, Begin(nest))

\* The loop nest over labels runs over each of them once; what it gives out has a
\* place for every one of the labels it was made of.
SortedUnique(ls) == sort_on_dependence(unique_entries_by_primary_label(ls))
LabelTuples(ls) ==
  LET sorted == SortedUnique(ls)
      perm   == perm_map_compute(Primaries(sorted), Primaries(ls))
      tuples == Tuples(NestOfLabels(sorted))
  IN [k \in DOMAIN tuples |-> At1(tuples[k], perm)]

-----------------------------------------------------------------------------
\* Translation of blocks

Untranslated(n) == [k \in 1 .. n |-> -1]

RECURSIVE TranslateInOrder(_, _, _, _, _, _)
TranslateInOrder(blockid, from, to, fromDeps, order, toBlockid) ==
  IF order = <<>> THEN <<toBlockid, TRUE>>
  ELSE LET p  == order[1]
           id == translate_if_possible(from[p].tis, blockid[p], At1(blockid, fromDeps[p]),
                                       to[p].tis, At1(toBlockid, construct_dep_map(to)[p]))
       IN IF id[2] THEN TranslateInOrder(blockid, from, to, fromDeps, Tail(order), [k \in DOMAIN toBlockid |-> IF k = p THEN id[1] ELSE toBlockid[k]])
          ELSE <<toBlockid, FALSE>>

\* What is not translated is left as it was to begin with.
GeneralTranslation(blockid, from, to, start) ==
  IF \E k \in DOMAIN from : ~IsCompatibleWith(from[k].tis, to[k].tis) THEN <<<<>>, FALSE>>
  ELSE TranslateInOrder(blockid, from, to, construct_dep_map(from),
                        topological_sort(construct_dep_map(to)), start)

translate_blockid_if_possible(blockid, from, to) ==
  IF SameLabels(from, to) THEN <<blockid, TRUE>>
  ELSE GeneralTranslation(blockid, from, to, Untranslated(Len(from)))

is_dense_labels(ls) == \A k \in DOMAIN ls : ~IsDependent(ls[k].tis)

\* The translator chooses between plans; between contiguous parts of spaces it
\* only adds where the first block of the label goes.
is_dense_subspaces(from, to) == \A k \in DOMAIN from : from[k].tis.dense /\ to[k].tis.dense

Added(s, t) == [k \in DOMAIN s |-> s[k] + t[k]]
LabelTranslator(blockid, from, to) ==
  CASE SameLabels(from, to) -> <<blockid, TRUE>>
    [] ~SameLabels(from, to) /\ is_dense_labels(from) /\ is_dense_labels(to) ->
         IF is_dense_subspaces(from, to)
         THEN <<Added(blockid, translate_blockid_if_possible([k \in DOMAIN from |-> 0], from, to)[1]), TRUE>>
         ELSE <<[k \in DOMAIN from |-> TranslateSimple(from[k].tis, blockid[k], to[k].tis)[1]], TRUE>>
    [] OTHER -> GeneralTranslation(blockid, from, to, [k \in DOMAIN from |-> 0])

\* For a tensor whose modes depend on one another as deps says.
translate_blockid(blockid, ls, tiss, deps) ==
  LET Key(k) == At1(blockid, deps[k])
      Missing(k) == Key(k) # <<>> /\ (Key(k) \notin DOMAIN ls[k].tis.dep \/ Key(k) \notin DOMAIN tiss[k].dep)
      Simple(k) == TranslateSimple(lookup_dependent_space(ls[k].tis, Key(k))[1], blockid[k],
                                   lookup_dependent_space(tiss[k], Key(k))[1])[1]
  IN IF \E k \in DOMAIN ls : Missing(k) THEN Untranslated(Len(ls)) ELSE [k \in DOMAIN ls |-> Simple(k)]

extract_labels(ls, matching) == At1(ls, perm_map_compute(Primaries(ls), Primaries(matching)))
=============================================================================
