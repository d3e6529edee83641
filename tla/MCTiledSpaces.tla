--------------------------- MODULE MCTiledSpaces ---------------------------
(* Small index spaces for tilings; more spaces are made from two of them.  *)
EXTENDS TiledSpaces

Count(n) == [k \in 1 .. n |-> k - 1]

\* Orbitals: occupied ones up to c, each part with the first spin up to a place of s;
\* the last named range has two parts.
Orbitals(indices, c, s) ==
  LET n == Len(indices)
  IN RangeSpace(indices,
       "occ" :> <<range(0, c)>> @@ "virt" :> <<range(c, n)>>
         @@ "beta" :> <<range(s[1], c), range(s[2], n)>>,
       1 :> <<range(0, s[1]), range(c, s[2])>> @@ 2 :> <<range(s[1], c), range(s[2], n)>>)

Part(indices, c) ==
  RangeSpace(indices, "a" :> <<range(0, c)>> @@ "b" :> <<range(c, Len(indices))>>, Empty)
Joined ==
  AggregateSpace(<<Part(Count(5), 2), Part(<<7, 8, 6>>, 1)>>, <<"occ", "virt">>,
    "alpha" :> <<<<"occ", "a">>, <<"virt", "a">>>> @@ "beta" :> <<<<"occ", "b">>, <<"virt", "b">>>>)

Lists == {<<1, 2, 1, 2>>, <<1, 1, 1, 1, 2>>, <<3, 3>>}
MCTilings ==
  UNION {{<<Orbitals(i, c, s), z, <<>>>> :
            s \in (1 .. c) \X (c .. 5), z \in 1 .. 4, i \in {Count(6), <<5, 2, 4, 0, 1, 3>>}} : c \in 2 .. 4}
  \cup {<<Orbitals(Count(6), 3, <<1, 4>>), 0, l>> : l \in Lists}
  \cup {<<RangeSpace(Count(n), Empty, Empty), z, <<>>>> : n \in 0 .. 5, z \in 2 .. 4}
  \cup {<<RangeSpace(Count(n), "virt" :> <<range(1, n)>>, Empty), z, <<>>>> : n \in 4 .. 6, z \in 2 .. 3}
  \cup {<<Joined, z, <<>>>> : z \in 1 .. 4}
  \cup {<<RangeSpace(Count(5), Empty, Empty), 0, <<2, 1, 2>>>>}

Values0 == <<0>> :> Part(Count(5), 2) @@ <<1>> :> Part(Count(2), 1)
MCDependentTilings ==
  {<<Values0, z, Empty>> : z \in 1 .. 3} \cup {<<Values0, 0, <<0>> :> <<2, 3>> @@ <<1>> :> <<1, 1>>>>}

\* Partial relations, in no, one and many tiles.
MCRelations == {0 :> <<0, 1>> @@ 1 :> <<1>>, 0 :> <<2>> @@ 2 :> <<0, 1, 2>> @@ 1 :> <<>>, 1 :> <<0, 2>>}
MCSublists == {<<>>, <<0, 2>>, <<1>>, <<0, 1>>}
MCExtended == {<<0, 2, 3, 5>>, <<0, 2, 4, 5>>}
=============================================================================
