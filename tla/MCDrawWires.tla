----------------------------- MODULE MCDrawWires -----------------------------
(***************************************************************************)
(* Four tiles in one row, so far apart that a step away costs more than a  *)
(* step made.                                                              *)
(***************************************************************************)
EXTENDS DrawWires

T(n) == <<5 * n, 0>>
Tiles == {T(n) : n \in 0..3}
Gap(a, b) == IF a > b THEN a - b ELSE b - a
MCDistance == [p \in Tiles \X Tiles |-> 8 * Gap(p[1][1], p[2][1])]

Lists(t) == {<<>>} \cup {<<a>> : a \in Tiles} \cup {<<T(3), T(1)>>, <<T(0), T(2)>>, <<T(1), T(2), T(3)>>}
MCGraphs == {g \in [Tiles -> UNION {Lists(t) : t \in Tiles}] : \A t \in Tiles : g[t] # <<t>>}

Pair(source, stub) == [source |-> source, stub |-> stub]

\* One search on every graph; on some graphs two searches, or three of which groups
\* of two leave out the last; and a group that is larger than all items
FewGraphs == {g \in MCGraphs : g[T(0)] = <<>> /\ g[T(2)] \in {<<>>, <<T(3)>>, <<T(3), T(1)>>}}
OnePair == {<<Pair(T(0), T(2))>>, <<Pair(T(0), T(0))>>}
SomePairs == {<<Pair(T(0), T(2)), Pair(T(1), T(3))>>, <<NoSites, Pair(T(0), T(1))>>,
              <<Pair(T(3), T(1)), Pair(T(0), T(2)), Pair(T(1), T(2))>>}

Of(pairLists, padding, group, graphs) ==
  {[pairs |-> p, padding |-> padding, group |-> group, graph |-> g] :
     p \in pairLists, g \in graphs}
MCJobs == Of(OnePair, 1, 2, MCGraphs) \cup Of(SomePairs, 0, 2, FewGraphs)
            \cup Of(OnePair, 1, 4, FewGraphs)
=============================================================================
