--------------------------- MODULE MCPdagConversions ---------------------------
(***************************************************************************)
(* The conversions of every partially directed graph on four nodes, of     *)
(* every one on three that has arcs in both directions and edges beside    *)
(* arcs, and of the directed acyclic graphs on four.                       *)
(***************************************************************************)
EXTENDS PdagConversions


\* The graphs in which each pair of N has one of the labels.
PerPair(N, labels) ==
    LET pairs == {a \in N \X N : a[1] < a[2]}
        graph(l) == [arcs |-> {a \in pairs : l[a] \in {"to", "both", "edge_to"}} \cup
                              {Reverse(a) : a \in {b \in pairs : l[b] \in {"from", "both", "edge_from"}}},
                     edges |-> {Ends(a) : a \in {b \in pairs : l[b] \in {"edge", "edge_to", "edge_from"}}}]
    IN  {graph(l) : l \in [pairs -> labels]}

OneWay == PerPair({0, 1, 2, 3}, {"none", "edge", "to", "from"})

BothWays == PerPair({0, 1, 2}, {"none", "edge", "to", "from", "both", "edge_to", "edge_from"})

Cases ==
    {[to |-> t, graph |-> g] : t \in {"dag", "approximate_dag"}, g \in OneWay \cup BothWays}
    \cup {[to |-> "pdag", graph |-> g] : g \in {h \in OneWay : IsDag(h)}}

MCCalls == Cases

\* Five nodes: 3 and 4 are parents of 0 and of 1, and 0 -> 1 -> 2.
Ladder == [arcs |-> {<<3, 0>>, <<4, 0>>, <<3, 1>>, <<4, 1>>, <<0, 1>>, <<1, 2>>}, edges |-> {}]

LadderCall == {[to |-> "pdag", graph |-> Ladder]}

===============================================================================
