------------------------------ MODULE PartialDag ------------------------------
(***************************************************************************)
(* Partially directed graphs (PartiallyDirectedImpl of                     *)
(* graph/generic_graph.hpp) as values: a set of arcs and a set of edges,   *)
(* an edge being the set of its two ends.  The module has the operations   *)
(* on them that the learning algorithms call, and the notions by which     *)
(* their results are judged: skeleton, v-structures, consistent extension, *)
(* equivalence class and separation.                                       *)
(***************************************************************************)
EXTENDS Integers, FiniteSets, Reachability

CONSTANT Nodes

\* Nodes are the indices of a graph.
ASSUME NodesAssumption == Nodes \subseteq Nat /\ IsFiniteSet(Nodes)

Arcs == {a \in Nodes \X Nodes : a[1] # a[2]}
Ends(a) == {a[1], a[2]}
Reverse(a) == <<a[2], a[1]>>
Edges == {Ends(a) : a \in Arcs}
Graphs == [arcs : SUBSET Arcs, edges : SUBSET Edges]

Neighbors(g, x) == {y \in Nodes : {x, y} \in g.edges}
Parents(g, x) == {y \in Nodes : <<y, x>> \in g.arcs}
Children(g, x) == {y \in Nodes : <<x, y>> \in g.arcs}

\* has_connection
HasConnection(g, x, y) ==
    {x, y} \in g.edges \/ <<x, y>> \in g.arcs \/ <<y, x>> \in g.arcs

\* Mutant: the edge stays beside the arc.
DirectAllKeepEdges(g, A) ==
    LET moved == {a \in A : Ends(a) \in g.edges \/ Reverse(a) \in g.arcs}
    IN  [g EXCEPT !.arcs = @ \cup moved]

\* direct on every arc of A, which gives the same graph in every order: an edge
\* becomes the arc, and beside the opposite arc the arc is added.
DirectAll(g, A) ==
    LET moved == {a \in A : Ends(a) \in g.edges \/ Reverse(a) \in g.arcs}
    IN  [arcs |-> g.arcs \cup moved, edges |-> g.edges \ {Ends(a) : a \in moved}]

-------------------------------------------------------------------------------
(* What the results are compared with.                                     *)

\* No pair of nodes has both an arc and an edge.
NoOverlap(g) == \A a \in g.arcs : Ends(a) \notin g.edges

Skeleton(g) == g.edges \cup {Ends(a) : a \in g.arcs}

\* Two parents that are not joined, and their child.
VStructures(g) ==
    {v \in Edges \X Nodes : /\ v[1] \notin Skeleton(g)
                            /\ \A x \in v[1] : <<x, v[2]>> \in g.arcs}

ArcsAcyclic(arcs) == Acyclic(Nodes, [x \in Nodes |-> {y \in Nodes : <<x, y>> \in arcs}])

IsDag(g) == g.edges = {} /\ ArcsAcyclic(g.arcs)

\* One of the two arcs of a pair.
OneOf(e) == CHOOSE a \in Arcs : Ends(a) = e

\* The ways to give every edge a direction.
Orientations(g) ==
    {[arcs |-> g.arcs \cup {IF e \in F THEN OneOf(e) ELSE Reverse(OneOf(e)) : e \in g.edges},
      edges |-> {}] : F \in SUBSET g.edges}

\* Consistent extensions: directed acyclic graphs that orient the edges and add
\* no v-structure.
Extensions(g) == {d \in Orientations(g) : IsDag(d) /\ VStructures(d) = VStructures(g)}

\* The graph that represents the equivalence class of the directed acyclic graph
\* d: the arcs on which all members agree, the others as edges.
ClassGraph(d) ==
    LET class == {f \in Orientations([arcs |-> {}, edges |-> Skeleton(d)]) :
                    IsDag(f) /\ VStructures(f) = VStructures(d)}
        compelled == {a \in d.arcs : \A f \in class : a \in f.arcs}
    IN  [arcs |-> compelled, edges |-> {Ends(a) : a \in d.arcs \ compelled}]

\* d-separation in the directed acyclic graph d: S meets every path between the
\* ends of e in the moral graph of the ancestors.
Separated(d, e, S) ==
    LET kin == Closure(Nodes, [x \in Nodes |-> Parents(d, x)], e \cup S)
        moral == [x \in Nodes |->
            IF x \in S THEN {}
            ELSE {y \in kin \ {x} : \/ HasConnection(d, x, y)
                                    \/ \E z \in kin : {x, y} \subseteq Parents(d, z)}]
    IN  \A x, y \in e : x # y => ~HasPath(Nodes, moral, x, y)

\* What an independence test answers that is faithful to d.
Answers(d) == [e \in Edges |-> {S \in SUBSET (Nodes \ e) : Separated(d, e, S)}]

===============================================================================
