----------------------------- MODULE Restrictions -----------------------------
(***************************************************************************)
(* The black and white lists of the constraint-based algorithms            *)
(* (util/validate_whitelists.hpp): what validate_restrictions rejects, and *)
(* the four lists it derives.  A task has the lists as the caller gives    *)
(* them; arcs are pairs, edges are sets of two nodes.                      *)
(***************************************************************************)
EXTENDS PartialDag

\* The caller passes a graph, and lists of pairs of its nodes: check_arc_list and
\* check_edge_list reject interface nodes.
Checked(t) ==
    LET pairs == {a \in Arcs : Ends(a) \subseteq t.nodes \ t.interface}
    IN  /\ t.interface \subseteq t.nodes /\ t.nodes \subseteq Nodes
        /\ t.arcBlacklist \cup t.arcWhitelist \subseteq pairs
        /\ t.edgeBlacklist \cup t.edgeWhitelist \subseteq {Ends(a) : a \in pairs}

\* The lists contradict each other: an edge in both edge lists, a whitelisted
\* arc on a blacklisted edge, an arc in both arc lists, or a whitelisted edge
\* with both its arcs blacklisted.
Contradiction(t) ==
    \/ t.edgeBlacklist \cap t.edgeWhitelist # {}
    \/ \E a \in t.arcWhitelist : Ends(a) \in t.edgeBlacklist
    \/ t.arcBlacklist \cap t.arcWhitelist # {}
    \/ \E a \in t.arcBlacklist : Reverse(a) \in t.arcBlacklist /\ Ends(a) \in t.edgeWhitelist

\* A blacklisted arc on a whitelisted edge becomes the opposite arc, whitelisted.
DerivedWhitelist(t) == {Reverse(a) : a \in {a \in t.arcBlacklist : Ends(a) \in t.edgeWhitelist}}

ValidateRestrictions(t) ==
    LET both == {a \in t.arcBlacklist : Reverse(a) \in t.arcBlacklist}
        white == t.arcWhitelist \cup DerivedWhitelist(t)
    IN  [arcWhitelist  |-> white,
         edgeWhitelist |-> t.edgeWhitelist \ {Ends(a) : a \in white},
         arcBlacklist  |-> {a \in t.arcBlacklist \ both : Ends(a) \notin t.edgeBlacklist},
         edgeBlacklist |-> t.edgeBlacklist \cup {Ends(a) : a \in both}]

-------------------------------------------------------------------------------
(* Where the searches start.  Interface nodes are not joined to each other.  *)

NodePairs(t) ==
    {a \in Arcs : {a[1], a[2]} \subseteq t.nodes \ t.interface /\ a[1] < a[2]}
InterfacePairs(t) == {a \in Arcs : a[1] \in t.nodes \ t.interface /\ a[2] \in t.interface}

\* CompleteUndirected, without the blacklisted edges, the whitelisted arcs directed.
StartGraph(t) ==
    LET r == ValidateRestrictions(t)
        complete == {Ends(a) : a \in NodePairs(t) \cup InterfacePairs(t)}
    IN  DirectAll([arcs |-> {}, edges |-> complete \ r.edgeBlacklist], r.arcWhitelist)

===============================================================================
