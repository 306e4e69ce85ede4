------------------------- MODULE PdagConversionsProofs -------------------------
(***************************************************************************)
(* Theorems about the conversions of partially directed graphs, for every  *)
(* set of nodes and every graph: to_dag returns a consistent extension if  *)
(* there is one, and to_approximate_dag an acyclic graph with the same     *)
(* adjacencies.  IInv is inductive.                                        *)
(***************************************************************************)
EXTENDS PdagConversions, ReachabilityProofs, SequenceTheorems

\* The opposite of an arc joins the same pair.
LEMMA OppositeArc ==
    ASSUME NEW a \in Arcs
    PROVE  /\ Reverse(a) \in Arcs /\ Ends(Reverse(a)) = Ends(a) /\ Ends(a) \in Edges
           /\ a = <<a[1], a[2]>> /\ a[1] \in Nodes /\ a[2] \in Nodes /\ a[1] # a[2]
           /\ \A b \in Arcs : Ends(b) = Ends(a) => b = a \/ b = Reverse(a)
<1>1. PICK x \in Nodes, y \in Nodes : a = <<x, y>> /\ x # y
  BY DEF Arcs
<1>2. Reverse(a) = <<y, x>> /\ Ends(a) = {x, y} /\ a[1] = x /\ a[2] = y
  BY <1>1 DEF Ends, Reverse
<1>3. Reverse(a) \in Arcs /\ Ends(Reverse(a)) = {y, x}
  BY <1>1, <1>2 DEF Ends, Arcs
<1>4. ASSUME NEW b \in Arcs, Ends(b) = Ends(a)
      PROVE  b = a \/ b = Reverse(a)
  <2>1. PICK u \in Nodes, v \in Nodes : b = <<u, v>> /\ u # v
    BY DEF Arcs
  <2>2. {u, v} = {x, y}
    BY <1>2, <1>4, <2>1 DEF Ends
  <2>3. QED BY <1>1, <1>2, <2>1, <2>2
<1>5. QED BY <1>1, <1>2, <1>3, <1>4 DEF Edges

\* A pair of nodes has an edge, or two arcs.
LEMMA PairEnds ==
    ASSUME NEW x \in Nodes, NEW y \in Nodes, x # y
    PROVE  /\ <<x, y>> \in Arcs /\ Ends(<<x, y>>) = {x, y} /\ {x, y} \in Edges
           /\ Reverse(<<x, y>>) = <<y, x>>
BY DEF Arcs, Ends, Edges, Reverse

LEMMA EdgeNodes ==
    ASSUME NEW e \in Edges
    PROVE  /\ e \subseteq Nodes
           /\ \E x \in Nodes, y \in Nodes : x # y /\ e = {x, y}
           /\ \E a \in Arcs : Ends(a) = e
<1>1. PICK a \in Arcs : e = Ends(a)
  BY DEF Edges
<1>2. a[1] \in Nodes /\ a[2] \in Nodes /\ a[1] # a[2] /\ e = {a[1], a[2]}
  BY <1>1, OppositeArc DEF Ends
<1>3. QED BY <1>1, <1>2

\* What acyclic means for a set of arcs.
LEMMA AcyclicArcs ==
    ASSUME NEW A
    PROVE  ArcsAcyclic(A) <=>
              \A S \in SUBSET Nodes : S # {} => \E n \in S : \A m \in S : <<n, m>> \notin A
<1> DEFINE ch == [x \in Nodes |-> {y \in Nodes : <<x, y>> \in A}]
<1>1. \A S \in SUBSET Nodes, n \in Nodes : n \in S =>
         (ch[n] \cap S = {} <=> \A m \in S : <<n, m>> \notin A)
  OBVIOUS
<1>2. ArcsAcyclic(A) <=> \A S \in SUBSET Nodes : S # {} => \E n \in S : ch[n] \cap S = {}
  BY DEF ArcsAcyclic, Acyclic
<1> HIDE DEF ch
<1>3. QED BY <1>1, <1>2

LEMMA AcyclicSubset ==
    ASSUME NEW A, NEW B, A \subseteq B, ArcsAcyclic(B)
    PROVE  ArcsAcyclic(A)
<1>1. \A S \in SUBSET Nodes : S # {} => \E n \in S : \A m \in S : <<n, m>> \notin B
  BY AcyclicArcs
<1>2. \A S \in SUBSET Nodes : S # {} => \E n \in S : \A m \in S : <<n, m>> \notin A
  BY <1>1
<1>3. QED BY <1>2, AcyclicArcs

\* An acyclic graph has no arcs in both directions.
LEMMA AcyclicOneWay ==
    ASSUME NEW A \in SUBSET Arcs, ArcsAcyclic(A), NEW a \in A
    PROVE  Reverse(a) \notin A
<1>1. a[1] \in Nodes /\ a[2] \in Nodes /\ a = <<a[1], a[2]>>
  BY OppositeArc
<1>2. PICK n \in {a[1], a[2]} : \A m \in {a[1], a[2]} : <<n, m>> \notin A
  <2>1. {a[1], a[2]} \in SUBSET Nodes /\ {a[1], a[2]} # {}
    BY <1>1
  <2>2. QED BY <2>1, AcyclicArcs
<1>3. QED BY <1>1, <1>2 DEF Reverse

-------------------------------------------------------------------------------
(* Extensions.                                                             *)

LEMMA OrientationFacts ==
    ASSUME NEW g \in Graphs, NEW d \in Orientations(g)
    PROVE  /\ g.arcs \subseteq d.arcs /\ d.edges = {} /\ d.arcs \subseteq Arcs
           /\ Skeleton(d) = Skeleton(g)
           /\ \A e \in g.edges : \E a \in d.arcs : Ends(a) = e
<1>1. g.arcs \in SUBSET Arcs /\ g.edges \in SUBSET Edges
  BY DEF Graphs
<1>2. PICK F \in SUBSET g.edges :
         d = [arcs |-> g.arcs \cup {IF e \in F THEN OneOf(e) ELSE Reverse(OneOf(e)) : e \in g.edges},
              edges |-> {}]
  BY DEF Orientations
<1> DEFINE new(e) == IF e \in F THEN OneOf(e) ELSE Reverse(OneOf(e))
<1>3. ASSUME NEW e \in g.edges
      PROVE  new(e) \in Arcs /\ Ends(new(e)) = e
  <2>1. OneOf(e) \in Arcs /\ Ends(OneOf(e)) = e
    BY <1>1, EdgeNodes DEF OneOf
  <2>2. QED BY <2>1, OppositeArc
<1>4. d.arcs = g.arcs \cup {new(e) : e \in g.edges} /\ d.edges = {}
  BY <1>2
<1> HIDE DEF new
<1>5. {Ends(a) : a \in d.arcs} = {Ends(a) : a \in g.arcs} \cup g.edges
  BY <1>3, <1>4
<1>6. Skeleton(d) = Skeleton(g)
  BY <1>4, <1>5 DEF Skeleton
<1>7. QED BY <1>1, <1>3, <1>4, <1>6

LEMMA IsOrientation ==
    ASSUME NEW g \in Graphs, NEW A \in SUBSET Arcs, g.arcs \subseteq A,
           \A a \in A \ g.arcs : Ends(a) \in g.edges /\ Reverse(a) \notin A,
           \A e \in g.edges : \E a \in A : Ends(a) = e
    PROVE  [arcs |-> A, edges |-> {}] \in Orientations(g)
<1> DEFINE F == {e \in g.edges : OneOf(e) \in A}
           new(e) == IF e \in F THEN OneOf(e) ELSE Reverse(OneOf(e))
<1>1. g.edges \in SUBSET Edges
  BY DEF Graphs
<1>2. ASSUME NEW e \in g.edges
      PROVE  OneOf(e) \in Arcs /\ Ends(OneOf(e)) = e
  BY <1>1, EdgeNodes DEF OneOf
<1>3. ASSUME NEW e \in g.edges
      PROVE  new(e) \in A
  <2>1. PICK a \in A : Ends(a) = e
    OBVIOUS
  <2>2. OneOf(e) = a \/ Reverse(OneOf(e)) = a
    BY <1>2, <2>1, OppositeArc
  <2>3. QED BY <2>2
<1>4. ASSUME NEW a \in A \ g.arcs
      PROVE  Ends(a) \in g.edges /\ a = new(Ends(a))
  <2>1. Ends(a) \in g.edges /\ Reverse(a) \notin A /\ a \in Arcs
    OBVIOUS
  <2>2. OneOf(Ends(a)) = a \/ OneOf(Ends(a)) = Reverse(a)
    BY <1>2, <2>1, OppositeArc
  <2>3. Reverse(Reverse(a)) = a
    BY <2>1, OppositeArc DEF Reverse
  <2>4. QED BY <2>1, <2>2, <2>3
<1>5. A = g.arcs \cup {new(e) : e \in g.edges}
  <2> HIDE DEF new
  <2>1. QED BY <1>3, <1>4
<1>6. F \in SUBSET g.edges
  OBVIOUS
<1>7. [arcs |-> A, edges |-> {}] =
         [arcs |-> g.arcs \cup {IF e \in F THEN OneOf(e) ELSE Reverse(OneOf(e)) : e \in g.edges},
          edges |-> {}]
  BY <1>5
<1> HIDE DEF F
<1>8. QED BY <1>6, <1>7 DEF Orientations

-------------------------------------------------------------------------------
(* to_dag.                                                                 *)

\* The part of a graph on the nodes of N.
Part(g, N) ==
    [nodes |-> N, arcs |-> {a \in g.arcs : Ends(a) \subseteq N}, edges |-> {e \in g.edges : e \subseteq N}]

\* A graph with a consistent extension has a sink among the nodes of every part.
LEMMA SinkExists ==
    ASSUME NEW g \in Graphs, NoOverlap(g), NEW d \in Extensions(g), NEW N \in SUBSET Nodes, N # {}
    PROVE  Sinks(Part(g, N)) # {}
<1> DEFINE k == Part(g, N)
<1>1. g.arcs \in SUBSET Arcs /\ g.edges \in SUBSET Edges
  BY DEF Graphs
<1>2. d \in Orientations(g) /\ ArcsAcyclic(d.arcs) /\ VStructures(d) = VStructures(g)
  BY DEF Extensions, IsDag
<1>3. /\ g.arcs \subseteq d.arcs /\ d.arcs \subseteq Arcs /\ Skeleton(d) = Skeleton(g)
      /\ \A e \in g.edges : \E a \in d.arcs : Ends(a) = e
  BY <1>2, OrientationFacts
<1>4. PICK n \in N : \A m \in N : <<n, m>> \notin d.arcs
  BY <1>2, AcyclicArcs
<1>5. Children(k, n) = {}
  <2>1. ASSUME NEW m \in Children(k, n)
        PROVE  FALSE
    <3>1. <<n, m>> \in g.arcs /\ Ends(<<n, m>>) \subseteq N
      BY DEF Children, Part
    <3>2. m \in N
      BY <3>1 DEF Ends
    <3>3. QED BY <1>3, <1>4, <3>1, <3>2
  <2>2. QED BY <2>1
<1>6. ASSUME NEW y \in Neighbors(k, n)
      PROVE  y \in N /\ {y, n} \in g.edges /\ <<y, n>> \in d.arcs /\ <<y, n>> \notin g.arcs
  <2>1. {n, y} \in g.edges /\ {n, y} \subseteq N /\ {n, y} = {y, n}
    BY DEF Neighbors, Part
  <2>2. y # n
    BY <1>1, <2>1, EdgeNodes
  <2>3. PICK a \in d.arcs : Ends(a) = {n, y}
    BY <1>3, <2>1
  <2>4. a = <<n, y>> \/ a = <<y, n>>
    BY <1>3, <2>1, <2>2, <2>3, PairEnds, OppositeArc
  <2>5. <<y, n>> \in d.arcs
    BY <1>4, <2>1, <2>3, <2>4
  <2>6. <<y, n>> \notin g.arcs
    BY <2>1 DEF NoOverlap, Ends
  <2>7. QED BY <2>1, <2>5, <2>6
<1>7. ASSUME NEW z \in Parents(k, n)
      PROVE  z \in N /\ <<z, n>> \in d.arcs
  <2>1. <<z, n>> \in g.arcs /\ Ends(<<z, n>>) \subseteq N
    BY DEF Parents, Part
  <2>2. QED BY <1>3, <2>1 DEF Ends
<1>8. ASSUME NEW y \in Neighbors(k, n), NEW z \in (Neighbors(k, n) \cup Parents(k, n)) \ {y}
      PROVE  HasConnection(k, y, z)
  <2>1. y \in N /\ z \in N /\ y # z /\ <<y, n>> \in d.arcs /\ <<z, n>> \in d.arcs /\ <<y, n>> \notin g.arcs
    BY <1>6, <1>7
  <2>2. {y, z} \in Edges /\ y \in Nodes /\ z \in Nodes
    BY <2>1, PairEnds
  <2>3. {y, z} \in Skeleton(g)
    <3>1. SUFFICES ASSUME {y, z} \notin Skeleton(g) PROVE FALSE
      OBVIOUS
    <3>2. <<{y, z}, n>> \in VStructures(d)
      BY <1>3, <2>1, <2>2, <3>1 DEF VStructures
    <3>3. <<{y, z}, n>> \in VStructures(g)
      BY <1>2, <3>2
    <3>4. QED BY <2>1, <3>3 DEF VStructures
  <2>4. CASE {y, z} \in g.edges
    BY <2>1, <2>4 DEF HasConnection, Part
  <2>5. CASE \E a \in g.arcs : Ends(a) = {y, z}
    <3>1. PICK a \in g.arcs : Ends(a) = {y, z}
      BY <2>5
    <3>2. a = <<y, z>> \/ a = <<z, y>>
      BY <1>1, <2>1, <2>2, <3>1, PairEnds, OppositeArc
    <3>3. a \in k.arcs
      BY <2>1, <3>1 DEF Part
    <3>4. QED BY <3>2, <3>3 DEF HasConnection
  <2>6. QED BY <2>3, <2>4, <2>5 DEF Skeleton
<1>9. IsSink(k, n)
  BY <1>5, <1>8 DEF IsSink
<1>10. QED BY <1>4, <1>9 DEF Sinks, Part

\* What is built so far: the removed nodes have children only among themselves, and
\* the parents of a node, when one of them was a neighbour, are joined.
Extending ==
    LET N == copy.nodes
    IN  /\ N \in SUBSET Nodes /\ copy = Part(input, N)
        /\ input.arcs \subseteq out.arcs /\ out \in Graphs /\ out.edges = {}
        /\ ArcsAcyclic(out.arcs)
        /\ \A a \in out.arcs : a[2] \in N => a[1] \in N /\ a \in input.arcs
        /\ \A a \in out.arcs \ input.arcs : Ends(a) \in input.edges \ copy.edges
        /\ \A e \in input.edges \ copy.edges : \E a \in out.arcs : Ends(a) = e
        /\ \A a, b \in out.arcs : a \notin input.arcs /\ b[2] = a[2] /\ a[1] # b[1] =>
                                     {a[1], b[1]} \in Skeleton(input)

DagInv ==
    call.to = "dag" =>
        /\ status = "check" => /\ out = [arcs |-> input.arcs, edges |-> {}]
                               /\ copy = [nodes |-> Nodes, arcs |-> input.arcs, edges |-> input.edges]
        /\ status # "check" /\ (status = "thrown" => ArcsAcyclic(input.arcs)) => Extending
        /\ status = "returned" => copy.edges = {}
        /\ status = "thrown" /\ ArcsAcyclic(input.arcs) => copy.edges # {} /\ Sinks(copy) = {}

LEMMA StartExtending ==
    ASSUME input \in Graphs, ArcsAcyclic(input.arcs),
           out = [arcs |-> input.arcs, edges |-> {}],
           copy = [nodes |-> Nodes, arcs |-> input.arcs, edges |-> input.edges]
    PROVE  Extending
<1>1. input.arcs \in SUBSET Arcs /\ input.edges \in SUBSET Edges
  BY DEF Graphs
<1>2. copy = Part(input, Nodes)
  <2>1. \A a \in input.arcs : Ends(a) \subseteq Nodes
    BY <1>1, OppositeArc DEF Ends
  <2>2. \A e \in input.edges : e \subseteq Nodes
    BY <1>1, EdgeNodes
  <2>3. {a \in input.arcs : Ends(a) \subseteq Nodes} = input.arcs
    BY <2>1
  <2>4. {e \in input.edges : e \subseteq Nodes} = input.edges
    BY <2>2
  <2>5. QED BY <2>3, <2>4 DEF Part
<1>3. \A a \in out.arcs : a[1] \in Nodes /\ a \in input.arcs
  BY <1>1, OppositeArc
<1>4. out \in Graphs
  BY <1>1 DEF Graphs
<1>5. QED BY <1>1, <1>2, <1>3, <1>4 DEF Extending

\* What is returned is a consistent extension.
LEMMA ExtensionFound ==
    ASSUME input \in Graphs, Extending, copy.edges = {}
    PROVE  out \in Extensions(input)
<1>1. /\ input.arcs \subseteq out.arcs /\ out \in Graphs /\ out.edges = {} /\ ArcsAcyclic(out.arcs)
      /\ \A a \in out.arcs \ input.arcs : Ends(a) \in input.edges
      /\ \A e \in input.edges : \E a \in out.arcs : Ends(a) = e
      /\ \A a, b \in out.arcs : a \notin input.arcs /\ b[2] = a[2] /\ a[1] # b[1] =>
                                   {a[1], b[1]} \in Skeleton(input)
  BY DEF Extending
<1>2. out = [arcs |-> out.arcs, edges |-> {}] /\ out.arcs \in SUBSET Arcs
  BY <1>1 DEF Graphs
<1>3. out \in Orientations(input)
  <2>1. \A a \in out.arcs : Reverse(a) \notin out.arcs
    BY <1>1, <1>2, AcyclicOneWay
  <2>2. [arcs |-> out.arcs, edges |-> {}] \in Orientations(input)
    BY <1>1, <1>2, <2>1, IsOrientation
  <2>3. QED BY <1>2, <2>2
<1>4. Skeleton(out) = Skeleton(input)
  BY <1>3, OrientationFacts
<1>5. ASSUME NEW e \in Edges, NEW c \in Nodes
      PROVE  <<e, c>> \in VStructures(out) <=> <<e, c>> \in VStructures(input)
  <2>1. ASSUME e \notin Skeleton(input), \A x \in e : <<x, c>> \in out.arcs, NEW x \in e
        PROVE  <<x, c>> \in input.arcs
    <3>1. PICK y \in e : y # x /\ e = {x, y}
      BY EdgeNodes
    <3>2. QED BY <1>1, <2>1, <3>1
  <2>2. QED BY <1>1, <1>4, <2>1 DEF VStructures
<1>6. VStructures(out) = VStructures(input)
  BY <1>5 DEF VStructures
<1>7. QED BY <1>1, <1>3, <1>6 DEF Extensions, IsDag

LEMMA SinkRemoved ==
    ASSUME input \in Graphs, Extending, NEW x \in copy.nodes, IsSink(copy, x), call' = call,
           out' = [out EXCEPT !.arcs = @ \cup {<<y, x>> : y \in Neighbors(copy, x)}],
           copy' = RemoveNode(copy, x)
    PROVE  Extending'
<1> DEFINE N == copy.nodes
           M == N \ {x}
           new == {<<y, x>> : y \in Neighbors(copy, x)}
<1>1. /\ N \in SUBSET Nodes /\ copy = Part(input, N)
      /\ input.arcs \subseteq out.arcs /\ out \in Graphs /\ out.edges = {}
      /\ ArcsAcyclic(out.arcs)
      /\ \A a \in out.arcs : a[2] \in N => a[1] \in N /\ a \in input.arcs
      /\ \A a \in out.arcs \ input.arcs : Ends(a) \in input.edges \ copy.edges
      /\ \A e \in input.edges \ copy.edges : \E a \in out.arcs : Ends(a) = e
      /\ \A a, b \in out.arcs : a \notin input.arcs /\ b[2] = a[2] /\ a[1] # b[1] =>
                                   {a[1], b[1]} \in Skeleton(input)
  BY DEF Extending
<1>2. /\ input.arcs \in SUBSET Arcs /\ input.edges \in SUBSET Edges /\ out.arcs \in SUBSET Arcs
      /\ x \in Nodes /\ input' = input
  <2>1. input.arcs \in SUBSET Arcs /\ input.edges \in SUBSET Edges
    BY DEF Graphs
  <2>2. out.arcs \in SUBSET Arcs
    BY <1>1 DEF Graphs
  <2>3. x \in Nodes
    BY <1>1
  <2>4. input' = input
    BY DEF input
  <2>5. QED BY <2>1, <2>2, <2>3, <2>4
<1>3. /\ copy.arcs = {a \in input.arcs : Ends(a) \subseteq N}
      /\ copy.edges = {e \in input.edges : e \subseteq N}
  BY <1>1 DEF Part
<1>4. out'.arcs = out.arcs \cup new /\ out'.edges = {} /\ out' = [arcs |-> out.arcs \cup new, edges |-> {}]
  BY <1>1 DEF Graphs
<1>5. copy' = Part(input, M) /\ copy'.nodes = M /\ copy'.edges = {e \in input.edges : e \subseteq M}
  <2>1. {a \in copy.arcs : x \notin Ends(a)} = {a \in input.arcs : Ends(a) \subseteq M}
    BY <1>3
  <2>2. {e \in copy.edges : x \notin e} = {e \in input.edges : e \subseteq M}
    BY <1>3
  <2>3. QED BY <2>1, <2>2 DEF RemoveNode, Part
<1>6. ASSUME NEW y \in Neighbors(copy, x)
      PROVE  y \in N /\ y # x /\ {y, x} \in copy.edges /\ <<y, x>> \in Arcs /\ Ends(<<y, x>>) = {y, x}
  <2>1. {x, y} \in copy.edges /\ {x, y} = {y, x} /\ {x, y} \in Edges
    BY <1>2, <1>3 DEF Neighbors
  <2>2. y \in N /\ y # x
    BY <1>3, <2>1, EdgeNodes
  <2>3. QED BY <1>1, <1>2, <2>1, <2>2, PairEnds
<1>7. ASSUME NEW a \in out.arcs, a[2] = x
      PROVE  a \in input.arcs /\ a[1] \in Parents(copy, x)
  <2>1. a \in input.arcs /\ a[1] \in N
    BY <1>1, <1>7
  <2>2. a = <<a[1], x>> /\ Ends(a) \subseteq N /\ a[1] \in Nodes
    BY <1>2, <1>7, <2>1, OppositeArc DEF Ends
  <2>3. QED BY <1>3, <2>1, <2>2 DEF Parents
<1>8. ASSUME NEW a \in out.arcs, a[1] = x
      PROVE  a[2] \notin N
  <2>1. SUFFICES ASSUME a[2] \in N PROVE FALSE
    OBVIOUS
  <2>2. a \in input.arcs /\ a = <<x, a[2]>> /\ a[2] \in Nodes
    BY <1>1, <1>2, <1>8, <2>1, OppositeArc
  <2>3. a \in copy.arcs
    BY <1>3, <1>8, <2>1, <2>2 DEF Ends
  <2>4. a[2] \in Children(copy, x)
    BY <2>2, <2>3 DEF Children
  <2>5. QED BY <2>4 DEF IsSink
<1>9. \A a \in new : a[2] = x /\ a[1] \in Neighbors(copy, x) /\ a \in Arcs /\ Ends(a) \in copy.edges
  <2>1. SUFFICES ASSUME NEW a \in new
                 PROVE  a[2] = x /\ a[1] \in Neighbors(copy, x) /\ a \in Arcs /\ Ends(a) \in copy.edges
    OBVIOUS
  <2>2. PICK y \in Neighbors(copy, x) : a = <<y, x>>
    OBVIOUS
  <2>3. QED BY <1>6, <2>2
<1> HIDE DEF new
<1>10. out' \in Graphs
  BY <1>2, <1>4, <1>9 DEF Graphs
<1>11. \A a \in out'.arcs : a[2] \in M => a[1] \in M /\ a \in input.arcs
  BY <1>1, <1>4, <1>8, <1>9
<1>12. \A a \in out'.arcs \ input.arcs : Ends(a) \in input.edges \ copy'.edges
  <2>1. ASSUME NEW a \in new
        PROVE  Ends(a) \in input.edges \ copy'.edges
    <3>1. Ends(a) \in input.edges /\ x \in Ends(a)
      BY <1>3, <1>9 DEF Ends
    <3>2. QED BY <1>5, <3>1
  <2>2. copy'.edges \subseteq copy.edges
    BY <1>3, <1>5
  <2>3. QED BY <1>1, <1>4, <2>1, <2>2
<1>13. \A e \in input.edges \ copy'.edges : \E a \in out'.arcs : Ends(a) = e
  <2>1. ASSUME NEW e \in copy.edges, e \notin copy'.edges
        PROVE  \E a \in new : Ends(a) = e
    <3>1. e \in Edges /\ x \in e /\ e \in input.edges
      BY <1>2, <1>3, <1>5, <2>1
    <3>2. PICK y \in Nodes : e = {x, y} /\ e = {y, x}
      BY <3>1, EdgeNodes
    <3>3. y \in Neighbors(copy, x)
      BY <3>2 DEF Neighbors
    <3>4. QED BY <1>6, <3>2, <3>3 DEF new
  <2>2. QED BY <1>1, <1>4, <2>1
<1>14. ASSUME NEW a \in out'.arcs, NEW b \in out'.arcs, a \notin input.arcs, b[2] = a[2], a[1] # b[1]
       PROVE  {a[1], b[1]} \in Skeleton(input)
  <2>1. CASE a[2] = x
    <3>1. a[1] \in Neighbors(copy, x) /\ b[1] \in Neighbors(copy, x) \cup Parents(copy, x)
      BY <1>4, <1>7, <1>9, <1>14, <2>1
    <3>2. HasConnection(copy, a[1], b[1])
      BY <1>14, <3>1 DEF IsSink
    <3>3. \/ {a[1], b[1]} \in input.edges
          \/ <<a[1], b[1]>> \in input.arcs \/ <<b[1], a[1]>> \in input.arcs
      BY <1>3, <3>2 DEF HasConnection
    <3>4. Ends(<<a[1], b[1]>>) = {a[1], b[1]} /\ Ends(<<b[1], a[1]>>) = {a[1], b[1]}
      BY DEF Ends
    <3>5. QED BY <3>3, <3>4 DEF Skeleton
  <2>2. CASE a[2] # x
    BY <1>1, <1>4, <1>9, <1>14, <2>2
  <2>3. QED BY <2>1, <2>2
<1>15. ArcsAcyclic(out'.arcs)
  <2>1. ASSUME NEW S \in SUBSET Nodes, S # {}
        PROVE  \E n \in S : \A m \in S : <<n, m>> \notin out'.arcs
    <3> DEFINE R == S \ M
    <3>1. CASE R # {}
      <4>1. PICK n \in R : \A m \in R : <<n, m>> \notin out.arcs
        BY <1>1, <2>1, <3>1, AcyclicArcs
      <4>2. ASSUME NEW m \in S, <<n, m>> \in out'.arcs
            PROVE  FALSE
        <5>1. <<n, m>>[1] = n /\ <<n, m>>[2] = m
          OBVIOUS
        <5>2. m \notin M
          BY <1>11, <4>1, <4>2, <5>1
        <5>3. <<n, m>> \in new
          BY <1>4, <4>1, <4>2, <5>2
        <5>4. n \in M
          BY <1>6, <1>9, <5>1, <5>3
        <5>5. QED BY <4>1, <5>4
      <4>3. QED BY <4>1, <4>2
    <3>2. CASE R = {}
      <4>1. PICK n \in S : \A m \in S : <<n, m>> \notin out.arcs
        BY <1>1, <2>1, AcyclicArcs
      <4>2. ASSUME NEW m \in S, <<n, m>> \in out'.arcs
            PROVE  FALSE
        <5>1. <<n, m>>[2] = m /\ m # x
          BY <3>2
        <5>2. QED BY <1>4, <1>9, <4>1, <4>2, <5>1
      <4>3. QED BY <4>1, <4>2
    <3>3. QED BY <3>1, <3>2
  <2>2. QED BY <2>1, AcyclicArcs
<1>16. M \in SUBSET Nodes /\ input.arcs \subseteq out'.arcs
  BY <1>1, <1>4
<1> HIDE DEF N, M
<1>17. QED BY <1>2, <1>4, <1>5, <1>10, <1>11, <1>12, <1>13, <1>14, <1>15, <1>16 DEF Extending

-------------------------------------------------------------------------------
(* The inductive invariant.                                                *)

OnStack == Range(stack)

Types ==
    /\ call \in Calls
    /\ call.to = "dag" => status \in {"check", "extend", "returned", "thrown"}
    /\ call.to = "approximate_dag" => status \in {"sort", "returned"}
    /\ call.to = "pdag" => status \in {"sort", "label", "returned"}
    /\ out \in Graphs
    /\ copy.nodes \in SUBSET Nodes /\ copy.arcs \in SUBSET Arcs /\ copy.edges \in SUBSET Edges
    /\ todo \in Seq(Arcs)

\* No node is twice on the stack or in the order.
EachOnce ==
    /\ stack \in Seq(Nodes) /\ IsInjective(stack)
    /\ sorted \in Seq(Nodes) /\ IsInjective(sorted)
    /\ OnStack \cap Sorted = {}

Counted == incoming = [x \in Nodes |-> Cardinality(Parents(input, x) \ Sorted)]

\* What is on the stack has all its parents in the order, unless it is there to
\* break a cycle.
StackReady == \A x \in OnStack : Parents(input, x) \subseteq Sorted \/ stack = <<x>>

\* No node is forgotten, and none of an acyclic graph is early.
NoneLost ==
    call.to # "dag" => \A x \in Nodes : Parents(input, x) \subseteq Sorted => x \in Sorted \cup OnStack

NoneEarly ==
    ArcsAcyclic(input.arcs) => \A x \in Sorted \cup OnStack : Parents(input, x) \subseteq Sorted

SortInv == EachOnce /\ Counted /\ StackReady /\ NoneLost /\ NoneEarly

\* The graph under construction joins the pairs that arcs of the input join, its
\* arcs between sorted nodes follow the order and the others are arcs of the input.
Flipping ==
    call.to = "approximate_dag" /\ status = "sort" =>
        /\ out.edges = {}
        /\ \A a \in input.arcs : a \in out.arcs \/ Reverse(a) \in out.arcs
        /\ \A a \in out.arcs : a \in input.arcs \/ Reverse(a) \in input.arcs
        /\ \A a \in out.arcs \ input.arcs : a[1] \in Sorted /\ a[2] \in Sorted
        /\ \A i, j \in DOMAIN sorted : <<sorted[i], sorted[j]>> \in out.arcs => i < j
        /\ ArcsAcyclic(input.arcs) => out.arcs = input.arcs

IInv == Types /\ DagInv /\ SortInv /\ Flipping /\ ApproximateDag

-------------------------------------------------------------------------------
(* Sequences without repetitions.                                          *)

\* An order of a finite set holds each of its members once.
LEMMA OrderFacts ==
    ASSUME NEW S, IsFiniteSet(S), NEW s \in Orders(S)
    PROVE  s \in Seq(S) /\ IsInjective(s) /\ Range(s) = S
<1>1. Cardinality(S) \in Nat
  BY FS_CardinalityType
<1>2. s \in [1 .. Cardinality(S) -> S] /\ IsInjective(s) /\ \A x \in S : \E i \in 1 .. Cardinality(S) : s[i] = x
  BY DEF Orders, Bijection, Injection, Surjection
<1>3. s \in Seq(S)
  <2> DEFINE n == Cardinality(S)
  <2>1. s \in [1 .. n -> S] /\ n \in Nat
    BY <1>1, <1>2
  <2> HIDE DEF n
  <2>2. s = [i \in 1 .. n |-> s[i]] /\ \A i \in 1 .. n : s[i] \in S
    BY <2>1
  <2>3. [i \in 1 .. n |-> s[i]] \in Seq(S)
    BY <2>1, <2>2, IsASeq
  <2>4. QED BY <2>2, <2>3
<1>4. DOMAIN s = 1 .. Cardinality(S)
  BY <1>2
<1>5. Range(s) = S
  BY <1>2, <1>4 DEF Range
<1>6. QED BY <1>2, <1>3, <1>5

LEMMA FrontFacts ==
    ASSUME NEW S, NEW s \in Seq(S), s # <<>>, IsInjective(s)
    PROVE  /\ Seqs!Last(s) \in Range(s) /\ Seqs!Last(s) \in S
           /\ Seqs!Front(s) \in Seq(S) /\ IsInjective(Seqs!Front(s))
           /\ Range(Seqs!Front(s)) = Range(s) \ {Seqs!Last(s)}
<1> DEFINE l == Len(s)
           f == Seqs!Front(s)
<1>1. l \in Nat \ {0} /\ DOMAIN s = 1 .. l /\ \A i \in 1 .. l : s[i] \in S
  BY EmptySeq, LenProperties
<1>2. Seqs!Last(s) = s[l] /\ f = SubSeq(s, 1, l - 1)
  BY DEF Seqs!Last, Seqs!Front
<1>3. f \in Seq(S) /\ Len(f) = l - 1 /\ \A i \in 1 .. l - 1 : f[i] = s[i]
  <2>1. 1 \in Int /\ l - 1 \in Int /\ (\A i \in 1 .. l - 1 : s[i] \in S)
    BY <1>1
  <2>2. /\ SubSeq(s, 1, l - 1) \in Seq(S)
        /\ Len(SubSeq(s, 1, l - 1)) = IF 1 <= l - 1 THEN l - 1 - 1 + 1 ELSE 0
        /\ \A i \in 1 .. l - 1 - 1 + 1 : SubSeq(s, 1, l - 1)[i] = s[1 + i - 1]
    <3> HIDE DEF l
    <3>1. QED BY <2>1, SubSeqProperties
  <2> HIDE DEF f, l
  <2>3. QED BY <1>1, <1>2, <2>2
<1>4. DOMAIN f = 1 .. l - 1
  BY <1>3, LenProperties
<1> HIDE DEF l, f
<1>5. \A i, j \in 1 .. l : s[i] = s[j] => i = j
  BY <1>1 DEF IsInjective
<1>6. IsInjective(f)
  BY <1>1, <1>3, <1>4, <1>5 DEF IsInjective
<1>7. Range(f) = {s[i] : i \in 1 .. l - 1} /\ Range(s) = {s[i] : i \in 1 .. l}
  BY <1>1, <1>3, <1>4 DEF Range
<1>8. \A i \in 1 .. l : i \in 1 .. l - 1 <=> i # l
  BY <1>1
<1>9. l \in 1 .. l /\ 1 .. l - 1 \subseteq 1 .. l
  BY <1>1
<1>10. Range(f) = Range(s) \ {s[l]}
  BY <1>5, <1>7, <1>8, <1>9
<1>11. QED BY <1>1, <1>2, <1>3, <1>6, <1>7, <1>9, <1>10 DEF f

LEMMA ConcatFacts ==
    ASSUME NEW S, NEW s \in Seq(S), NEW t \in Seq(S), IsInjective(s), IsInjective(t),
           Range(s) \cap Range(t) = {}
    PROVE  s \o t \in Seq(S) /\ IsInjective(s \o t) /\ Range(s \o t) = Range(s) \cup Range(t)
<1> DEFINE r == s \o t
           k == Len(s)
           l == Len(t)
<1>1. k \in Nat /\ l \in Nat /\ DOMAIN s = 1 .. k /\ DOMAIN t = 1 .. l
  BY LenProperties
<1>2. /\ r \in Seq(S) /\ Len(r) = k + l
      /\ \A i \in 1 .. k + l : r[i] = IF i <= k THEN s[i] ELSE t[i - k]
  BY ConcatProperties
<1>3. DOMAIN r = 1 .. k + l
  BY <1>2, LenProperties
<1> HIDE DEF r, k, l
<1>4. ASSUME NEW i \in 1 .. k + l
      PROVE  \/ i \in 1 .. k /\ r[i] = s[i] /\ r[i] \in Range(s)
             \/ i - k \in 1 .. l /\ i > k /\ r[i] = t[i - k] /\ r[i] \in Range(t)
  <2>1. CASE i <= k
    <3>1. i \in DOMAIN s /\ i \in 1 .. k /\ r[i] = s[i]
      BY <1>1, <1>2, <2>1
    <3>2. QED BY <3>1 DEF Range
  <2>2. CASE i > k
    <3>1. i - k \in DOMAIN t /\ i - k \in 1 .. l /\ r[i] = t[i - k]
      BY <1>1, <1>2, <2>2
    <3>2. QED BY <2>2, <3>1 DEF Range
  <2>3. QED BY <1>1, <2>1, <2>2
<1>5. ASSUME NEW i \in 1 .. k + l, NEW j \in 1 .. k + l, r[i] = r[j]
      PROVE  i = j
  <2>1. \A m, n \in 1 .. k : s[m] = s[n] => m = n
    BY <1>1 DEF IsInjective
  <2>2. \A m, n \in 1 .. l : t[m] = t[n] => m = n
    BY <1>1 DEF IsInjective
  <2>3. CASE i \in 1 .. k /\ r[i] = s[i] /\ r[i] \in Range(s)
    BY <1>4, <1>5, <2>1, <2>3
  <2>4. CASE i - k \in 1 .. l /\ i > k /\ r[i] = t[i - k] /\ r[i] \in Range(t)
    <3>1. j - k \in 1 .. l /\ j > k /\ r[j] = t[j - k]
      BY <1>4, <1>5, <2>4
    <3>2. i - k = j - k
      BY <1>5, <2>2, <2>4, <3>1
    <3>3. QED BY <1>1, <3>2
  <2>5. QED BY <1>4, <2>3, <2>4
<1>6. IsInjective(r)
  BY <1>3, <1>5 DEF IsInjective
<1>7. Range(r) \subseteq Range(s) \cup Range(t)
  <2>1. ASSUME NEW x \in Range(r)
        PROVE  x \in Range(s) \cup Range(t)
    <3>1. PICK i \in 1 .. k + l : x = r[i]
      BY <1>3 DEF Range
    <3>2. QED BY <1>4, <3>1
  <2>2. QED BY <2>1
<1>8. Range(s) \cup Range(t) \subseteq Range(r)
  <2>1. ASSUME NEW i \in 1 .. k
        PROVE  s[i] \in Range(r)
    <3>1. i \in 1 .. k + l /\ r[i] = s[i]
      BY <1>1, <1>2
    <3>2. QED BY <1>3, <3>1 DEF Range
  <2>2. ASSUME NEW i \in 1 .. l
        PROVE  t[i] \in Range(r)
    <3>1. i + k \in 1 .. k + l /\ r[i + k] = t[i]
      BY <1>1, <1>2
    <3>2. QED BY <1>3, <3>1 DEF Range
  <2>3. QED BY <1>1, <2>1, <2>2 DEF Range
<1>9. QED BY <1>2, <1>6, <1>7, <1>8 DEF r

LEMMA AppendFacts ==
    ASSUME NEW S, NEW s \in Seq(S), NEW x \in S, IsInjective(s), x \notin Range(s)
    PROVE  /\ Append(s, x) \in Seq(S) /\ IsInjective(Append(s, x))
           /\ Range(Append(s, x)) = Range(s) \cup {x}
           /\ Len(s) \in Nat /\ DOMAIN s = 1 .. Len(s) /\ DOMAIN Append(s, x) = 1 .. Len(s) + 1
           /\ \A i \in 1 .. Len(s) : Append(s, x)[i] = s[i]
           /\ Append(s, x)[Len(s) + 1] = x
<1> DEFINE r == Append(s, x)
           k == Len(s)
<1>1. k \in Nat /\ DOMAIN s = 1 .. k
  BY LenProperties
<1>2. r \in Seq(S) /\ Len(r) = k + 1 /\ (\A i \in 1 .. k : r[i] = s[i]) /\ r[k + 1] = x
  OBVIOUS
<1>3. DOMAIN r = 1 .. k + 1
  BY <1>2, LenProperties
<1> HIDE DEF r, k
<1>4. \A i \in 1 .. k + 1 : i \in 1 .. k \/ i = k + 1
  BY <1>1
<1>5. \A i \in 1 .. k : i \in 1 .. k + 1 /\ s[i] # x
  BY <1>1 DEF Range
<1>6. k + 1 \in 1 .. k + 1
  BY <1>1
<1>7. IsInjective(r)
  BY <1>1, <1>2, <1>3, <1>4, <1>5 DEF IsInjective
<1>8. Range(r) = Range(s) \cup {x}
  BY <1>1, <1>2, <1>3, <1>4, <1>5, <1>6 DEF Range
<1>9. QED BY <1>1, <1>2, <1>3, <1>7, <1>8 DEF r, k

-------------------------------------------------------------------------------
(* The sorts.                                                              *)

LEMMA FiniteParts ==
    ASSUME NEW g, NEW x
    PROVE  /\ IsFiniteSet(Arcs) /\ IsFiniteSet(Nodes)
           /\ IsFiniteSet(Parents(g, x)) /\ \A T : IsFiniteSet(Parents(g, x) \ T)
           /\ \A T : T \subseteq Children(g, x) => IsFiniteSet(T)
           /\ \A T : T \subseteq Arcs => IsFiniteSet(T)
<1>1. IsFiniteSet(Nodes)
  BY NodesAssumption
<1>2. IsFiniteSet(Nodes \X Nodes)
  BY <1>1, FS_Product
<1>3. Arcs \in SUBSET (Nodes \X Nodes)
  BY DEF Arcs
<1>4. IsFiniteSet(Arcs)
  BY <1>2, <1>3, FS_Subset
<1>5. Parents(g, x) \in SUBSET Nodes /\ Children(g, x) \in SUBSET Nodes
  BY DEF Parents, Children
<1>6. \A T \in SUBSET Nodes : IsFiniteSet(T)
  BY <1>1, FS_Subset
<1>7. \A T \in SUBSET Arcs : IsFiniteSet(T)
  BY <1>4, FS_Subset
<1>8. (\A T : T \subseteq Arcs => IsFiniteSet(T)) /\ \A T : T \subseteq Children(g, x) => IsFiniteSet(T)
  BY <1>5, <1>6, <1>7
<1>9. \A T : Parents(g, x) \ T \in SUBSET Nodes
  BY <1>5
<1>10. QED BY <1>1, <1>4, <1>5, <1>6, <1>8, <1>9

LEMMA ParentChild ==
    ASSUME NEW g, NEW x \in Nodes, NEW y \in Nodes
    PROVE  /\ x \in Parents(g, y) <=> <<x, y>> \in g.arcs
           /\ y \in Children(g, x) <=> <<x, y>> \in g.arcs
BY DEF Parents, Children

\* What popping n from the stack does to the stack and the order.
Popped(n) ==
    /\ n \in Nodes /\ n \in OnStack /\ n \notin Sorted
    /\ sorted' = Append(sorted, n) /\ Sorted' = Sorted \cup {n}
    /\ OnStack' = (OnStack \ {n}) \cup Freed(n)
    /\ \A c \in Nodes : c \in Freed(n) <=> c \notin Sorted /\ Parents(input, c) \ Sorted = {n}
    /\ Freed(n) \subseteq Nodes
    /\ \A x \in OnStack \ {n} : Parents(input, x) \subseteq Sorted
    /\ call' = call /\ input' = input
    /\ out' = FlipSorted(n)
    /\ incoming' = [c \in Nodes |-> IF c \in Children(input, n) THEN incoming[c] - 1 ELSE incoming[c]]

LEMMA FreedFacts ==
    ASSUME Counted, NEW n \in Nodes, n \notin Sorted, NEW c \in Nodes
    PROVE  c \in Freed(n) <=> c \notin Sorted /\ Parents(input, c) \ Sorted = {n}
<1> DEFINE P == Parents(input, c) \ Sorted
<1>1. IsFiniteSet(P) /\ incoming[c] = Cardinality(P)
  BY FiniteParts DEF Counted
<1>2. c \in Children(input, n) <=> n \in P
  BY ParentChild
<1>3. c \in Freed(n) <=> n \in P /\ c \notin Sorted /\ Cardinality(P) = 1
  BY <1>1, <1>2 DEF Freed
<1> HIDE DEF P
<1>4. Cardinality(P) = 1 <=> \E x : P = {x}
  BY <1>1, FS_Singleton
<1>5. n \in P /\ Cardinality(P) = 1 <=> P = {n}
  BY <1>4
<1>6. QED BY <1>3, <1>5 DEF P

LEMMA PopFacts ==
    ASSUME input \in Graphs, SortInv, PopNode
    PROVE  Popped(Seqs!Last(stack)) /\ EachOnce'
<1> DEFINE n == Seqs!Last(stack)
           front == Seqs!Front(stack)
<1>1. /\ stack \in Seq(Nodes) /\ IsInjective(stack) /\ sorted \in Seq(Nodes) /\ IsInjective(sorted)
      /\ OnStack \cap Sorted = {} /\ Counted /\ StackReady
  BY DEF SortInv, EachOnce
<1>2. /\ stack # <<>> /\ sorted' = Append(sorted, n) /\ out' = FlipSorted(n) /\ call' = call
      /\ incoming' = [c \in Nodes |-> IF c \in Children(input, n) THEN incoming[c] - 1 ELSE incoming[c]]
  BY DEF PopNode
<1>3. PICK order \in Orders(Freed(n)) : stack' = front \o order
  BY DEF PopNode
<1>4. /\ n \in OnStack /\ n \in Nodes /\ front \in Seq(Nodes) /\ IsInjective(front)
      /\ Range(front) = OnStack \ {n}
  BY <1>1, <1>2, FrontFacts DEF OnStack
<1>5. Freed(n) \subseteq Children(input, n) /\ Children(input, n) \subseteq Nodes
  BY DEF Freed, Children
<1>6. order \in Seq(Nodes) /\ IsInjective(order) /\ Range(order) = Freed(n)
  <2>1. IsFiniteSet(Freed(n))
    BY <1>5, FiniteParts
  <2>2. order \in Seq(Freed(n)) /\ IsInjective(order) /\ Range(order) = Freed(n)
    BY <1>3, <2>1, OrderFacts
  <2>3. QED BY <1>5, <2>2, SeqMonotonic
<1> HIDE DEF n, front
<1>7. n \notin Sorted
  BY <1>1, <1>4
<1>8. \A c \in Nodes : c \in Freed(n) <=> c \notin Sorted /\ Parents(input, c) \ Sorted = {n}
  BY <1>1, <1>4, <1>7, FreedFacts
<1>9. ASSUME NEW x \in OnStack \ {n}
      PROVE  Parents(input, x) \subseteq Sorted
  <2>1. Range(<<x>>) = {x}
    BY DEF Range
  <2>2. stack # <<x>>
    BY <1>4, <2>1 DEF OnStack
  <2>3. QED BY <1>1, <2>2 DEF StackReady
<1>10. Freed(n) \cap (OnStack \ {n}) = {}
  <2>1. ASSUME NEW x \in Freed(n), x \in OnStack \ {n}
        PROVE  FALSE
    <3>1. Parents(input, x) \ Sorted = {n}
      BY <1>5, <1>8, <2>1
    <3>2. Parents(input, x) \subseteq Sorted
      BY <1>9, <2>1
    <3>3. QED BY <3>1, <3>2
  <2>2. QED BY <2>1
<1>11. stack' \in Seq(Nodes) /\ IsInjective(stack') /\ OnStack' = (OnStack \ {n}) \cup Freed(n)
  <2>1. Range(front) \cap Range(order) = {}
    BY <1>4, <1>6, <1>10
  <2>2. front \o order \in Seq(Nodes) /\ IsInjective(front \o order)
        /\ Range(front \o order) = Range(front) \cup Range(order)
    BY <1>4, <1>6, <2>1, ConcatFacts
  <2>3. QED BY <1>3, <1>4, <1>6, <2>2 DEF OnStack
<1>12. sorted' \in Seq(Nodes) /\ IsInjective(sorted') /\ Sorted' = Sorted \cup {n}
  <2>1. n \notin Range(sorted)
    BY <1>7 DEF Sorted
  <2>2. QED BY <1>1, <1>2, <1>4, <2>1, AppendFacts DEF Sorted
<1>13. OnStack' \cap Sorted' = {}
  <2>1. ASSUME n \in Freed(n)
        PROVE  FALSE
    <3>1. n \in Parents(input, n)
      BY <1>4, <1>8, <2>1
    <3>2. <<n, n>> \in Arcs
      BY <1>4, <3>1, ParentChild DEF Graphs
    <3>3. QED BY <3>2 DEF Arcs
  <2>2. Freed(n) \cap Sorted = {}
    BY <1>5, <1>8
  <2>3. QED BY <1>1, <1>11, <1>12, <2>1, <2>2
<1>14. input' = input
  BY <1>2 DEF input
<1>15. Popped(n)
  BY <1>2, <1>4, <1>5, <1>7, <1>8, <1>9, <1>11, <1>12, <1>14 DEF Popped
<1>16. QED BY <1>11, <1>12, <1>13, <1>15 DEF EachOnce, n

LEMMA PopKeepsSort ==
    ASSUME input \in Graphs, SortInv, PopNode
    PROVE  SortInv'
<1>1. PICK n : Popped(n)
  BY PopFacts
<1>2. /\ n \in Nodes /\ n \in OnStack /\ n \notin Sorted /\ Sorted' = Sorted \cup {n}
      /\ OnStack' = (OnStack \ {n}) \cup Freed(n)
      /\ \A c \in Nodes : c \in Freed(n) <=> c \notin Sorted /\ Parents(input, c) \ Sorted = {n}
      /\ Freed(n) \subseteq Nodes /\ call' = call /\ input' = input
      /\ \A x \in OnStack \ {n} : Parents(input, x) \subseteq Sorted
  BY <1>1 DEF Popped
<1>3. Counted /\ NoneLost /\ NoneEarly /\ StackReady /\ OnStack \subseteq Nodes
  BY DEF SortInv, EachOnce, OnStack, Range
<1> HIDE DEF input
<1>4. \A x : Parents(input', x) = Parents(input, x)
  BY <1>2
<1>5. Counted'
  <2>1. ASSUME NEW c \in Nodes
        PROVE  incoming'[c] = Cardinality(Parents(input, c) \ Sorted')
    <3> DEFINE P == Parents(input, c) \ Sorted
    <3>1. IsFiniteSet(P) /\ incoming[c] = Cardinality(P)
      BY <1>3, FiniteParts DEF Counted
    <3>2. c \in Children(input, n) <=> n \in P
      BY <1>2, ParentChild
    <3>3. incoming'[c] = IF n \in P THEN Cardinality(P) - 1 ELSE Cardinality(P)
      BY <1>1, <3>1, <3>2 DEF Popped
    <3>4. Parents(input, c) \ Sorted' = P \ {n}
      BY <1>2
    <3> HIDE DEF P
    <3>5. QED BY <3>1, <3>3, <3>4, FS_RemoveElement
  <2>2. incoming' = [c \in Nodes |-> incoming'[c]]
    BY <1>1 DEF Popped
  <2>3. QED BY <1>4, <2>1, <2>2 DEF Counted
<1>6. StackReady'
  BY <1>2, <1>4 DEF StackReady
<1>7. NoneLost'
  BY <1>2, <1>3, <1>4 DEF NoneLost
<1>8. NoneEarly'
  BY <1>2, <1>3, <1>4 DEF NoneEarly
<1>9. QED BY <1>5, <1>6, <1>7, <1>8, PopFacts DEF SortInv

LEMMA StartSort ==
    ASSUME Init
    PROVE  SortInv
<1>1. /\ sorted = <<>> /\ incoming = [x \in Nodes |-> Cardinality(Parents(input, x))]
      /\ IF call.to = "dag" THEN stack = <<>> ELSE stack \in Orders(Roots)
  BY DEF Init
<1>2. <<>> \in Seq(Nodes) /\ IsInjective(<<>>) /\ Sorted = {}
  BY <1>1 DEF IsInjective, Sorted, Range
<1>3. stack \in Seq(Nodes) /\ IsInjective(stack) /\ OnStack = (IF call.to = "dag" THEN {} ELSE Roots)
  <2>1. CASE call.to = "dag"
    BY <1>1, <1>2, <2>1 DEF OnStack, Sorted
  <2>2. CASE call.to # "dag"
    <3>1. Roots \subseteq Nodes /\ IsFiniteSet(Roots)
      BY NodesAssumption, FS_Subset DEF Roots
    <3>2. stack \in Orders(Roots)
      BY <1>1, <2>2
    <3>3. stack \in Seq(Roots) /\ IsInjective(stack) /\ Range(stack) = Roots
      BY <3>1, <3>2, OrderFacts
    <3>4. QED BY <2>2, <3>1, <3>3, SeqMonotonic DEF OnStack
  <2>3. QED BY <2>1, <2>2
<1>4. EachOnce
  BY <1>1, <1>2, <1>3 DEF EachOnce
<1>5. \A x \in OnStack : Parents(input, x) = {}
  BY <1>3 DEF Roots
<1>6. Counted
  BY <1>1, <1>2 DEF Counted
<1>7. StackReady /\ NoneEarly
  BY <1>2, <1>5 DEF StackReady, NoneEarly
<1>8. NoneLost
  BY <1>2, <1>3 DEF NoneLost, Roots
<1>9. QED BY <1>4, <1>6, <1>7, <1>8 DEF SortInv

\* The stack of a graph without directed cycles is never empty early.
LEMMA NoCycleToBreak ==
    ASSUME input \in Graphs, SortInv, call.to # "dag", stack = <<>>, ArcsAcyclic(input.arcs)
    PROVE  Sorted = Nodes
<1>1. SUFFICES ASSUME Sorted # Nodes PROVE FALSE
  OBVIOUS
<1>2. OnStack = {} /\ Sorted \subseteq Nodes
  BY DEF OnStack, Range, SortInv, EachOnce, Sorted
<1> DEFINE S == Nodes \ Sorted
           ch == [x \in Nodes |-> {y \in Nodes : <<x, y>> \in input.arcs}]
<1>3. S \in SUBSET Nodes /\ S # {} /\ Acyclic(Nodes, ch)
  BY <1>1, <1>2 DEF ArcsAcyclic
<1> HIDE DEF ch
<1>4. PICK n \in S : \A m \in S : n \notin ch[m]
  <2> HIDE DEF S
  <2>1. QED BY <1>3, NodesAssumption, AcyclicHasSource
<1>5. Parents(input, n) \subseteq Sorted
  BY <1>4 DEF Parents, ch
<1>6. QED BY <1>2, <1>4, <1>5 DEF SortInv, NoneLost

LEMMA BreakKeepsSort ==
    ASSUME input \in Graphs, SortInv, NEW n \in Nodes, BreakCycle(n)
    PROVE  SortInv'
<1>1. /\ call' = call /\ input' = input /\ sorted' = sorted /\ incoming' = incoming
      /\ stack = <<>> /\ stack' = <<n>> /\ n \notin Sorted /\ call.to # "dag"
  BY DEF BreakCycle, input
<1>2. OnStack' = {n} /\ OnStack = {} /\ Sorted' = Sorted
  BY <1>1 DEF OnStack, Range, Sorted
<1>3. EachOnce'
  BY <1>1, <1>2 DEF SortInv, EachOnce, IsInjective
<1>4. \A x : Parents(input', x) = Parents(input, x)
  BY <1>1
<1>5. ~ArcsAcyclic(input.arcs)
  BY <1>1, NoCycleToBreak
<1> HIDE DEF input
<1>6. Counted' /\ StackReady' /\ NoneLost' /\ NoneEarly'
  <2>1. Counted'
    BY <1>1, <1>2, <1>4 DEF SortInv, Counted
  <2>2. StackReady'
    BY <1>1, <1>2 DEF StackReady
  <2>3. NoneLost'
    BY <1>1, <1>2, <1>4 DEF SortInv, NoneLost
  <2>4. NoneEarly'
    BY <1>1, <1>5 DEF NoneEarly
  <2>5. QED BY <2>1, <2>2, <2>3, <2>4
<1>7. QED BY <1>3, <1>6 DEF SortInv

\* What the other actions leave alone.
LEMMA SortUnchanged ==
    ASSUME SortInv, call' = call, incoming' = incoming, stack' = stack, sorted' = sorted
    PROVE  SortInv'
BY DEF SortInv, EachOnce, Counted, StackReady, NoneLost, NoneEarly, OnStack, Sorted, input

LEMMA PopFlips ==
    ASSUME input \in Graphs, SortInv, Flipping, out \in Graphs, PopNode
    PROVE  Flipping' /\ out' \in Graphs
<1>1. PICK n : Popped(n)
  BY PopFacts
<1>2. /\ n \in Nodes /\ n \in OnStack /\ n \notin Sorted /\ Sorted' = Sorted \cup {n}
      /\ sorted' = Append(sorted, n)
      /\ call' = call /\ input' = input /\ out' = FlipSorted(n)
  BY <1>1 DEF Popped
<1>3. status = "sort" /\ status' = "sort"
  BY DEF PopNode
<1> DEFINE back == {<<n, c>> : c \in Children(input, n) \cap Sorted}
           turned == {Reverse(a) : a \in back}
<1>4. out' = [out EXCEPT !.arcs = (@ \ back) \cup turned]
  BY <1>2 DEF FlipSorted
<1>5. input.arcs \in SUBSET Arcs /\ out.arcs \in SUBSET Arcs /\ out.edges \in SUBSET Edges
  BY DEF Graphs
<1>6. \A a : a \in back <=> a \in input.arcs /\ a[1] = n /\ a[2] \in Sorted
  <2>1. ASSUME NEW a \in back
        PROVE  a \in input.arcs /\ a[1] = n /\ a[2] \in Sorted
    <3>1. PICK c \in Children(input, n) \cap Sorted : a = <<n, c>>
      OBVIOUS
    <3>2. <<n, c>> \in input.arcs
      BY <3>1 DEF Children
    <3>3. QED BY <3>1, <3>2
  <2>2. ASSUME NEW a \in input.arcs, a[1] = n, a[2] \in Sorted
        PROVE  a \in back
    <3>1. a = <<n, a[2]>> /\ a[2] \in Nodes
      BY <1>5, <2>2, OppositeArc
    <3>2. QED BY <2>2, <3>1 DEF Children
  <2>3. QED BY <2>1, <2>2
<1>7. \A a : a \in turned <=> a \in Arcs /\ Reverse(a) \in back
  <2>1. \A a \in back : a \in Arcs /\ Reverse(a) \in Arcs /\ Reverse(Reverse(a)) = a
    BY <1>5, <1>6, OppositeArc DEF Reverse
  <2>2. \A a \in Arcs : Reverse(Reverse(a)) = a
    BY OppositeArc DEF Reverse
  <2> HIDE DEF back
  <2>3. QED BY <2>1, <2>2
<1> HIDE DEF back, turned, input
<1>8. \A a \in turned : a[2] = n /\ a[1] \in Sorted
  <2>1. \A a : Reverse(a)[1] = a[2] /\ Reverse(a)[2] = a[1]
    BY DEF Reverse
  <2>2. QED BY <1>6, <1>7, <2>1
<1>9. out'.arcs = (out.arcs \ back) \cup turned /\ out'.edges = out.edges
  BY <1>4 DEF Graphs
<1>10. out' \in Graphs
  <2>1. out' = [arcs |-> (out.arcs \ back) \cup turned, edges |-> out.edges]
    BY <1>4 DEF Graphs
  <2>2. (out.arcs \ back) \cup turned \in SUBSET Arcs
    BY <1>5, <1>7
  <2>3. QED BY <1>5, <2>1, <2>2 DEF Graphs
<1>11. ASSUME call.to = "approximate_dag"
       PROVE  Flipping'
  <2>1. /\ out.edges = {}
        /\ \A a \in input.arcs : a \in out.arcs \/ Reverse(a) \in out.arcs
        /\ \A a \in out.arcs : a \in input.arcs \/ Reverse(a) \in input.arcs
        /\ \A a \in out.arcs \ input.arcs : a[1] \in Sorted /\ a[2] \in Sorted
        /\ \A i, j \in DOMAIN sorted : <<sorted[i], sorted[j]>> \in out.arcs => i < j
        /\ ArcsAcyclic(input.arcs) => out.arcs = input.arcs
    BY <1>3, <1>11 DEF Flipping
  <2>2. \A a \in Arcs : Reverse(a) \in Arcs /\ Reverse(Reverse(a)) = a
    BY OppositeArc DEF Reverse
  <2>3. \A a \in input.arcs : a \in out'.arcs \/ Reverse(a) \in out'.arcs
    BY <1>5, <1>6, <1>7, <1>9, <2>1, <2>2
  <2>4. \A a \in out'.arcs : a \in input.arcs \/ Reverse(a) \in input.arcs
    BY <1>5, <1>6, <1>7, <1>9, <2>1, <2>2
  <2>5. \A a \in out'.arcs \ input.arcs : a[1] \in Sorted' /\ a[2] \in Sorted'
    <3>1. \A a \in turned : a[1] \in Sorted' /\ a[2] \in Sorted'
      BY <1>2, <1>8
    <3>2. QED BY <1>2, <1>9, <2>1, <3>1
  <2>6. ASSUME NEW i \in DOMAIN sorted', NEW j \in DOMAIN sorted',
               <<sorted'[i], sorted'[j]>> \in out'.arcs
        PROVE  i < j
    <3> DEFINE k == Len(sorted)
    <3>1. /\ k \in Nat /\ DOMAIN sorted = 1 .. k /\ DOMAIN sorted' = 1 .. k + 1
          /\ \A m \in 1 .. k : sorted'[m] = sorted[m] /\ sorted[m] \in Sorted
          /\ sorted'[k + 1] = n
      <4>1. sorted \in Seq(Nodes) /\ IsInjective(sorted) /\ n \notin Range(sorted)
        BY <1>2 DEF SortInv, EachOnce, Sorted
      <4>2. QED BY <1>2, <4>1, AppendFacts DEF Sorted, Range
    <3> HIDE DEF k
    <3>2. CASE j = k + 1
      <4>1. i # k + 1
        <5>1. SUFFICES ASSUME i = k + 1 PROVE FALSE
          OBVIOUS
        <5>2. <<n, n>> \in out'.arcs
          BY <2>6, <3>1, <3>2, <5>1
        <5>3. <<n, n>> \in Arcs
          BY <1>10, <5>2 DEF Graphs
        <5>4. QED BY <5>3 DEF Arcs
      <4>2. QED BY <3>1, <3>2, <4>1
    <3>3. CASE i = k + 1 /\ j # k + 1
      <4> DEFINE b == <<n, sorted[j]>>
      <4>1. sorted'[j] = sorted[j] /\ sorted[j] \in Sorted /\ b \in out'.arcs /\ b[1] = n /\ b[2] \in Sorted
        BY <2>6, <3>1, <3>3
      <4> HIDE DEF b
      <4>2. b \notin turned
        BY <1>2, <1>8, <4>1
      <4>3. b \in out.arcs /\ b \notin back
        BY <1>9, <4>1, <4>2
      <4>4. b \in input.arcs
        BY <1>2, <2>1, <4>1, <4>3
      <4>5. QED BY <1>6, <4>1, <4>3, <4>4
    <3>4. CASE i # k + 1 /\ j # k + 1
      <4>1. i \in 1 .. k /\ j \in 1 .. k /\ sorted'[i] = sorted[i] /\ sorted'[j] = sorted[j]
        BY <3>1, <3>4
      <4>2. <<sorted[i], sorted[j]>> \in out'.arcs /\ sorted[i] # n /\ sorted[j] # n
        BY <1>2, <2>6, <3>1, <4>1
      <4>3. <<sorted[i], sorted[j]>> \notin turned
        BY <1>8, <4>2
      <4>4. <<sorted[i], sorted[j]>> \in out.arcs
        BY <1>9, <4>2, <4>3
      <4>5. QED BY <2>1, <3>1, <4>1, <4>4
    <3>5. QED BY <3>2, <3>3, <3>4
  <2>7. ArcsAcyclic(input.arcs) => out'.arcs = input.arcs
    <3>1. SUFFICES ASSUME ArcsAcyclic(input.arcs) PROVE out'.arcs = input.arcs
      OBVIOUS
    <3>2. back = {}
      <4>1. ASSUME NEW a \in back
            PROVE  FALSE
        <5>1. a = <<n, a[2]>> /\ a \in input.arcs /\ a[2] \in Sorted /\ a[2] \in Nodes
          BY <1>5, <1>6, OppositeArc
        <5>2. n \in Parents(input, a[2])
          BY <1>2, <5>1, ParentChild
        <5>3. QED BY <1>2, <3>1, <5>1, <5>2 DEF SortInv, NoneEarly
      <4>2. QED BY <4>1
    <3>3. turned = {}
      BY <1>7, <3>2
    <3>4. QED BY <1>9, <2>1, <3>1, <3>2, <3>3
  <2>8. QED BY <1>2, <1>9, <2>1, <2>3, <2>4, <2>5, <2>6, <2>7 DEF Flipping
<1>12. QED BY <1>2, <1>10, <1>11 DEF Flipping

LEMMA StartFlipping ==
    ASSUME input \in Graphs, Init
    PROVE  Flipping
<1>1. out.arcs = input.arcs /\ out.edges = {} /\ sorted = <<>>
  BY DEF Init
<1>2. DOMAIN sorted = {}
  BY <1>1
<1>3. QED BY <1>1, <1>2 DEF Flipping

\* In an order of all nodes each node has one rank.
LEMMA RankFacts ==
    ASSUME EachOnce, Sorted = Nodes
    PROVE  /\ \A x \in Nodes : Rank(x) \in DOMAIN sorted /\ Rank(x) \in Nat /\ sorted[Rank(x)] = x
           /\ \A x, y \in Nodes : x # y => Rank(x) < Rank(y) \/ Rank(y) < Rank(x)
           /\ \A x \in Nodes : Rank(x) <= Len(sorted)
           /\ Len(sorted) \in Nat
<1>1. sorted \in Seq(Nodes) /\ Len(sorted) \in Nat /\ DOMAIN sorted = 1 .. Len(sorted)
  BY LenProperties DEF EachOnce
<1>2. ASSUME NEW x \in Nodes
      PROVE  Rank(x) \in DOMAIN sorted /\ sorted[Rank(x)] = x
  <2>1. \E i \in DOMAIN sorted : sorted[i] = x
    BY DEF Sorted, Range
  <2>2. QED BY <2>1 DEF Rank
<1>3. \A x \in Nodes : Rank(x) \in 1 .. Len(sorted)
  BY <1>1, <1>2
<1>4. \A x \in Nodes : Rank(x) \in Nat /\ Rank(x) <= Len(sorted)
  BY <1>1, <1>3
<1>5. \A x, y \in Nodes : x # y => Rank(x) # Rank(y)
  BY <1>2
<1>6. \A x, y \in Nodes : x # y => Rank(x) < Rank(y) \/ Rank(y) < Rank(x)
  BY <1>4, <1>5
<1>7. QED BY <1>1, <1>2, <1>4, <1>6

\* Arcs that follow an order form no cycle.
LEMMA RisingAcyclic ==
    ASSUME EachOnce, Sorted = Nodes, NEW A \in SUBSET Arcs, \A a \in A : Rank(a[1]) < Rank(a[2])
    PROVE  ArcsAcyclic(A)
<1>1. ASSUME NEW S \in SUBSET Nodes, S # {}
      PROVE  \E n \in S : \A m \in S : <<n, m>> \notin A
  <2> DEFINE below(x) == Len(sorted) - Rank(x)
             T == {below(x) : x \in S}
  <2>1. \A x \in S : below(x) \in Nat
    BY RankFacts
  <2>2. T \in SUBSET Nat /\ T # {}
    BY <1>1, <2>1
  <2>3. PICK t \in T : \A u \in T : t <= u
    <3> HIDE DEF T
    <3>1. QED BY <2>2, LeastNatural
  <2>4. PICK n \in S : t = below(n)
    OBVIOUS
  <2>5. \A m \in S : below(n) <= below(m)
    BY <2>3, <2>4
  <2>6. ASSUME NEW m \in S, <<n, m>> \in A
        PROVE  FALSE
    <3>1. Rank(n) < Rank(m)
      BY <2>6
    <3>2. Rank(n) \in Nat /\ Rank(m) \in Nat /\ Len(sorted) \in Nat
      BY RankFacts
    <3>3. Len(sorted) - Rank(n) <= Len(sorted) - Rank(m)
      BY <2>5
    <3>4. QED BY <3>1, <3>2, <3>3
  <2>7. QED BY <2>6
<1>2. QED BY <1>1, AcyclicArcs

LEMMA EndSortApproximate ==
    ASSUME input \in Graphs, out \in Graphs, SortInv, Flipping, call.to = "approximate_dag", EndSort
    PROVE  out' \in Graphs /\ ApproximateDag'
<1> DEFINE rise == {a \in Arcs : Ends(a) \in input.edges /\ Rank(a[1]) < Rank(a[2])}
<1>1. /\ status = "sort" /\ Sorted = Nodes /\ input' = input
      /\ out' = [arcs |-> out.arcs \cup rise, edges |-> {}]
  BY DEF EndSort, input
<1>2. /\ out.edges = {}
      /\ \A a \in input.arcs : a \in out.arcs \/ Reverse(a) \in out.arcs
      /\ \A a \in out.arcs : a \in input.arcs \/ Reverse(a) \in input.arcs
      /\ \A i, j \in DOMAIN sorted : <<sorted[i], sorted[j]>> \in out.arcs => i < j
      /\ ArcsAcyclic(input.arcs) => out.arcs = input.arcs
  BY <1>1 DEF Flipping
<1>3. input.arcs \in SUBSET Arcs /\ input.edges \in SUBSET Edges /\ out.arcs \in SUBSET Arcs
  BY DEF Graphs
<1>4. \A a \in rise : a \in Arcs /\ Ends(a) \in input.edges /\ Rank(a[1]) < Rank(a[2])
  OBVIOUS
<1>5. EachOnce
  BY DEF SortInv
<1>6. ASSUME NEW e \in input.edges
      PROVE  \E a \in rise : Ends(a) = e
  <2>1. PICK x \in Nodes, y \in Nodes : x # y /\ e = {x, y} /\ e = {y, x}
    BY <1>3, EdgeNodes
  <2>2. /\ <<x, y>> \in Arcs /\ Ends(<<x, y>>) = e /\ <<x, y>>[1] = x /\ <<x, y>>[2] = y
        /\ <<y, x>> \in Arcs /\ Ends(<<y, x>>) = e /\ <<y, x>>[1] = y /\ <<y, x>>[2] = x
    BY <2>1, PairEnds
  <2>3. Rank(x) < Rank(y) \/ Rank(y) < Rank(x)
    BY <1>1, <1>5, <2>1, RankFacts
  <2>4. <<x, y>> \in rise \/ <<y, x>> \in rise
    BY <2>2, <2>3
  <2>5. QED BY <2>2, <2>4
<1> HIDE DEF rise, input
<1>7. out'.arcs = out.arcs \cup rise /\ out'.edges = {} /\ out'.arcs \in SUBSET Arcs
  BY <1>1, <1>3, <1>4
<1>8. out' \in Graphs
  BY <1>1, <1>7 DEF Graphs
<1>9. ASSUME NEW a \in out'.arcs
      PROVE  Rank(a[1]) < Rank(a[2])
  <2>1. CASE a \in rise
    BY <1>4, <2>1
  <2>2. CASE a \in out.arcs
    <3>1. a = <<a[1], a[2]>> /\ a[1] \in Nodes /\ a[2] \in Nodes
      BY <1>3, <2>2, OppositeArc
    <3>2. /\ Rank(a[1]) \in DOMAIN sorted /\ sorted[Rank(a[1])] = a[1]
          /\ Rank(a[2]) \in DOMAIN sorted /\ sorted[Rank(a[2])] = a[2]
      BY <1>1, <1>5, <3>1, RankFacts
    <3>3. <<sorted[Rank(a[1])], sorted[Rank(a[2])]>> \in out.arcs
      BY <2>2, <3>1, <3>2
    <3>4. QED BY <1>2, <3>2, <3>3
  <2>3. QED BY <1>7, <2>1, <2>2
<1>10. ArcsAcyclic(out'.arcs)
  <2>1. PICK A \in SUBSET Arcs : A = out'.arcs
    BY <1>7
  <2>2. \A a \in A : Rank(a[1]) < Rank(a[2])
    BY <1>9, <2>1
  <2>3. ArcsAcyclic(A)
    BY <1>1, <1>5, <2>2, RisingAcyclic
  <2>4. QED BY <2>1, <2>3
<1>11. Skeleton(out') = Skeleton(input)
  <2>1. \A a \in Arcs : Ends(Reverse(a)) = Ends(a)
    BY OppositeArc
  <2>2. {Ends(a) : a \in out.arcs} = {Ends(a) : a \in input.arcs}
    BY <1>2, <1>3, <2>1
  <2>3. {Ends(a) : a \in rise} = input.edges
    BY <1>4, <1>6
  <2>4. {Ends(a) : a \in out'.arcs} = {Ends(a) : a \in out.arcs} \cup {Ends(a) : a \in rise}
    BY <1>7
  <2>5. QED BY <1>7, <2>2, <2>3, <2>4 DEF Skeleton
<1>12. ArcsAcyclic(input.arcs) => input.arcs \subseteq out'.arcs
  BY <1>2, <1>7
<1>13. QED BY <1>1, <1>7, <1>8, <1>10, <1>11, <1>12 DEF ApproximateDag, IsDag

\* to_pdag starts the labels with every arc of the input in order.
LEMMA EndSortLabel ==
    ASSUME input \in Graphs, call.to # "approximate_dag", EndSort
    PROVE  out' \in Graphs /\ todo' \in Seq(Arcs) /\ status' = "label"
<1>1. out' = [arcs |-> {}, edges |-> {}] /\ todo' \in Orders(input.arcs) /\ status' = "label"
  BY DEF EndSort, SortedArcs
<1>2. input.arcs \subseteq Arcs /\ IsFiniteSet(input.arcs)
  BY FiniteParts DEF Graphs
<1>3. todo' \in Seq(input.arcs)
  BY <1>1, <1>2, OrderFacts
<1>4. todo' \in Seq(Arcs)
  BY <1>2, <1>3, SeqMonotonic
<1>5. out' \in Graphs
  BY <1>1 DEF Graphs
<1>6. QED BY <1>1, <1>4, <1>5

LEMMA LabelTypes ==
    ASSUME input \in Graphs, NEW g \in Graphs, NEW x, NEW y
    PROVE  Label(g, x, y) \in Graphs
<1> DEFINE into == {<<z, y>> : z \in Parents(input, y)}
           fromParents == {<<w, y>> : w \in Parents(g, x)}
<1>1. g.arcs \in SUBSET Arcs /\ g.edges \in SUBSET Edges /\ input.arcs \in SUBSET Arcs
  BY DEF Graphs
<1>2. into \subseteq Arcs
  BY <1>1 DEF Parents
<1> HIDE DEF into, fromParents, input
<1>3. \A A \in SUBSET Arcs : AddArcs(g, A) \in Graphs /\ AddArcs(g, A).edges = g.edges
  BY <1>1 DEF AddArcs, Graphs
<1>4. {Ends(a) : a \in into} \in SUBSET Edges
  BY <1>2 DEF Edges
<1>5. ASSUME fromParents \subseteq input.arcs
      PROVE  [AddArcs(g, fromParents) EXCEPT !.edges = @ \cup {Ends(a) : a \in into}] \in Graphs
  <2>1. fromParents \in SUBSET Arcs
    BY <1>1, <1>5
  <2>2. AddArcs(g, fromParents) \in Graphs
    BY <1>3, <2>1
  <2>3. QED BY <1>4, <2>2 DEF Graphs
<1>6. QED BY <1>2, <1>3, <1>5 DEF Label, into, fromParents

-------------------------------------------------------------------------------
(* The invariant is inductive.                                             *)

LEMMA InputGraph ==
    ASSUME Types
    PROVE  input \in Graphs /\ call.to \in {"dag", "approximate_dag", "pdag"}
BY CallsAssumption DEF Types, input

LEMMA InitIInv ==
    ASSUME Init
    PROVE  IInv
<1>1. /\ call \in Calls /\ status = (IF call.to = "dag" THEN "check" ELSE "sort")
      /\ out = [arcs |-> input.arcs, edges |-> {}]
      /\ copy = [nodes |-> Nodes, arcs |-> input.arcs, edges |-> input.edges]
      /\ sorted = <<>> /\ todo = <<>> /\ (call.to = "dag" => stack = <<>>)
  BY DEF Init
<1>2. input \in Graphs
  BY <1>1, CallsAssumption DEF input
<1>3. out \in Graphs /\ copy.nodes = Nodes /\ copy.arcs \in SUBSET Arcs /\ copy.edges \in SUBSET Edges
  BY <1>1, <1>2 DEF Graphs
<1>4. Types
  BY <1>1, <1>3 DEF Types
<1>5. DagInv
  BY <1>1 DEF DagInv
<1>6. ApproximateDag
  BY <1>1 DEF ApproximateDag
<1>7. QED BY <1>2, <1>4, <1>5, <1>6, StartSort, StartFlipping DEF IInv

\* Extending depends on the graphs alone.
LEMMA ExtendingUnchanged ==
    ASSUME Extending, call' = call, out' = out, copy' = copy
    PROVE  Extending'
BY DEF Extending, input

LEMMA CheckKeeps ==
    ASSUME IInv, CheckArcs
    PROVE  IInv'
<1>1. /\ status = "check" /\ status' = (IF ArcsAcyclic(input.arcs) THEN "extend" ELSE "thrown")
      /\ call' = call /\ out' = out /\ copy' = copy /\ input' = input
      /\ incoming' = incoming /\ stack' = stack /\ sorted' = sorted /\ todo' = todo
  BY DEF CheckArcs, sorts, input
<1>2. Types /\ DagInv /\ SortInv /\ input \in Graphs
  BY InputGraph DEF IInv
<1>3. call.to = "dag"
  BY <1>1, <1>2, InputGraph DEF Types
<1>4. Types'
  BY <1>1, <1>2, <1>3 DEF Types
<1>5. DagInv'
  <2>1. CASE ArcsAcyclic(input.arcs)
    <3>1. Extending
      BY <1>1, <1>2, <1>3, <2>1, StartExtending DEF DagInv
    <3>2. Extending'
      BY <1>1, <3>1, ExtendingUnchanged
    <3>3. QED BY <1>1, <2>1, <3>2 DEF DagInv
  <2>2. CASE ~ArcsAcyclic(input.arcs)
    BY <1>1, <2>2 DEF DagInv
  <2>3. QED BY <2>1, <2>2
<1>6. SortInv'
  BY <1>1, <1>2, SortUnchanged
<1>7. Flipping' /\ ApproximateDag'
  BY <1>1, <1>3 DEF Flipping, ApproximateDag
<1>8. QED BY <1>4, <1>5, <1>6, <1>7 DEF IInv

LEMMA RemoveSinkKeeps ==
    ASSUME IInv, NEW x \in Nodes, RemoveSink(x)
    PROVE  IInv'
<1>1. /\ status = "extend" /\ status' = status /\ x \in copy.nodes /\ IsSink(copy, x)
      /\ out' = [out EXCEPT !.arcs = @ \cup {<<y, x>> : y \in Neighbors(copy, x)}]
      /\ copy' = RemoveNode(copy, x) /\ call' = call /\ input' = input
      /\ incoming' = incoming /\ stack' = stack /\ sorted' = sorted /\ todo' = todo
  BY DEF RemoveSink, Sinks, sorts, input
<1>2. Types /\ DagInv /\ SortInv /\ input \in Graphs
  BY InputGraph DEF IInv
<1>3. call.to = "dag"
  BY <1>1, <1>2, InputGraph DEF Types
<1>4. Extending'
  <2>1. Extending
    BY <1>1, <1>2, <1>3 DEF DagInv
  <2>2. QED BY <1>1, <1>2, <2>1, SinkRemoved
<1>5. copy'.nodes = copy.nodes \ {x} /\ copy'.arcs \subseteq copy.arcs /\ copy'.edges \subseteq copy.edges
  BY <1>1 DEF RemoveNode
<1>6. Types'
  <2>1. out' \in Graphs
    BY <1>4 DEF Extending
  <2>2. QED BY <1>1, <1>2, <1>3, <1>5, <2>1 DEF Types
<1>7. DagInv'
  BY <1>1, <1>4 DEF DagInv
<1>8. SortInv'
  BY <1>1, <1>2, SortUnchanged
<1>9. Flipping' /\ ApproximateDag'
  BY <1>1, <1>3 DEF Flipping, ApproximateDag
<1>10. QED BY <1>6, <1>7, <1>8, <1>9 DEF IInv

LEMMA EndExtensionKeeps ==
    ASSUME IInv, EndExtension
    PROVE  IInv'
<1>1. /\ status = "extend"
      /\ \/ copy.edges = {} /\ status' = "returned"
         \/ copy.edges # {} /\ Sinks(copy) = {} /\ status' = "thrown"
      /\ call' = call /\ out' = out /\ copy' = copy /\ input' = input
      /\ incoming' = incoming /\ stack' = stack /\ sorted' = sorted /\ todo' = todo
  BY DEF EndExtension, sorts, input
<1>2. Types /\ DagInv /\ SortInv
  BY DEF IInv
<1>3. call.to = "dag"
  BY <1>1, <1>2, InputGraph DEF Types
<1>4. Types'
  BY <1>1, <1>2, <1>3 DEF Types
<1>5. DagInv'
  <2>1. Extending
    BY <1>1, <1>2, <1>3 DEF DagInv
  <2>2. Extending'
    BY <1>1, <2>1, ExtendingUnchanged
  <2>3. Sinks(copy') = Sinks(copy)
    BY <1>1
  <2>4. QED BY <1>1, <2>2, <2>3 DEF DagInv
<1>6. SortInv'
  BY <1>1, <1>2, SortUnchanged
<1>7. Flipping' /\ ApproximateDag'
  BY <1>1, <1>3 DEF Flipping, ApproximateDag
<1>8. QED BY <1>4, <1>5, <1>6, <1>7 DEF IInv

LEMMA PopKeeps ==
    ASSUME IInv, PopNode
    PROVE  IInv'
<1>1. status = "sort" /\ status' = status /\ call' = call /\ copy' = copy /\ todo' = todo
  BY DEF PopNode
<1>2. Types /\ SortInv /\ Flipping /\ input \in Graphs /\ out \in Graphs
  BY InputGraph DEF IInv, Types
<1>3. call.to # "dag"
  BY <1>1, <1>2 DEF Types
<1>4. SortInv' /\ Flipping' /\ out' \in Graphs
  BY <1>2, PopKeepsSort, PopFlips
<1>5. Types'
  BY <1>1, <1>2, <1>3, <1>4 DEF Types
<1>6. DagInv' /\ ApproximateDag'
  BY <1>1, <1>3 DEF DagInv, ApproximateDag
<1>7. QED BY <1>4, <1>5, <1>6 DEF IInv

LEMMA BreakKeeps ==
    ASSUME IInv, NEW n \in Nodes, BreakCycle(n)
    PROVE  IInv'
<1>1. /\ status = "sort" /\ status' = status /\ call' = call /\ input' = input /\ out' = out
      /\ copy' = copy /\ todo' = todo /\ sorted' = sorted /\ stack' = <<n>>
  BY DEF BreakCycle, input
<1>2. Types /\ SortInv /\ Flipping /\ input \in Graphs
  BY InputGraph DEF IInv
<1>3. call.to # "dag"
  BY <1>1, <1>2 DEF Types
<1>4. SortInv'
  BY <1>2, BreakKeepsSort
<1>5. Types'
  BY <1>1, <1>2, <1>3 DEF Types
<1>6. Flipping'
  <2>1. Sorted' = Sorted
    BY <1>1 DEF Sorted
  <2>2. QED BY <1>1, <1>2, <2>1 DEF Flipping
<1>7. DagInv' /\ ApproximateDag'
  BY <1>1, <1>3 DEF DagInv, ApproximateDag
<1>8. QED BY <1>4, <1>5, <1>6, <1>7 DEF IInv

LEMMA EndSortKeeps ==
    ASSUME IInv, EndSort
    PROVE  IInv'
<1>1. /\ status = "sort" /\ call' = call /\ copy' = copy
      /\ incoming' = incoming /\ stack' = stack /\ sorted' = sorted
      /\ call.to = "approximate_dag" => status' = "returned" /\ todo' = todo
  BY DEF EndSort
<1>2. Types /\ SortInv /\ Flipping /\ input \in Graphs /\ out \in Graphs
  BY InputGraph DEF IInv, Types
<1>3. call.to # "dag"
  BY <1>1, <1>2 DEF Types
<1>4. SortInv' /\ DagInv'
  BY <1>1, <1>2, <1>3, SortUnchanged DEF DagInv
<1>5. CASE call.to = "approximate_dag"
  <2>1. out' \in Graphs /\ ApproximateDag'
    BY <1>2, <1>5, EndSortApproximate
  <2>2. Types' /\ Flipping'
    BY <1>1, <1>2, <1>3, <1>5, <2>1 DEF Types, Flipping
  <2>3. QED BY <1>4, <2>1, <2>2 DEF IInv
<1>6. CASE call.to # "approximate_dag"
  <2>1. out' \in Graphs /\ todo' \in Seq(Arcs) /\ status' = "label"
    BY <1>2, <1>6, EndSortLabel
  <2>2. Types' /\ Flipping' /\ ApproximateDag'
    BY <1>1, <1>2, <1>3, <2>1 DEF Types, Flipping, ApproximateDag
  <2>3. QED BY <1>4, <2>2 DEF IInv
<1>7. QED BY <1>5, <1>6

LEMMA LabelKeeps ==
    ASSUME IInv, LabelArc
    PROVE  IInv'
<1> DEFINE x == todo[1][1]
           y == todo[1][2]
<1>1. /\ status = "label" /\ status' \in {"label", "returned"} /\ call' = call /\ copy' = copy
      /\ incoming' = incoming /\ stack' = stack /\ sorted' = sorted
      /\ \/ out' = out /\ todo' = todo
         \/ todo # <<>> /\ (out' = out \/ out' = Label(out, x, y)) /\ todo' = Tail(todo)
  BY DEF LabelArc
<1>2. Types /\ SortInv /\ input \in Graphs /\ out \in Graphs /\ todo \in Seq(Arcs)
  BY InputGraph DEF IInv, Types
<1>3. call.to = "pdag"
  BY <1>1, <1>2, InputGraph DEF Types
<1>4. out' \in Graphs /\ todo' \in Seq(Arcs)
  BY <1>1, <1>2, LabelTypes, HeadTailProperties
<1>5. Types'
  BY <1>1, <1>2, <1>3, <1>4 DEF Types
<1>6. SortInv'
  BY <1>1, <1>2, SortUnchanged
<1>7. DagInv' /\ Flipping' /\ ApproximateDag'
  BY <1>1, <1>3 DEF DagInv, Flipping, ApproximateDag
<1>8. QED BY <1>5, <1>6, <1>7 DEF IInv

LEMMA StutterKeeps ==
    ASSUME IInv, UNCHANGED vars
    PROVE  IInv'
<1>1. /\ call' = call /\ status' = status /\ out' = out /\ copy' = copy
      /\ incoming' = incoming /\ stack' = stack /\ sorted' = sorted /\ todo' = todo
      /\ input' = input
  BY DEF vars, sorts, input
<1>2. Types' /\ SortInv'
  BY <1>1, SortUnchanged DEF IInv, Types
<1>3. DagInv'
  <2>1. Extending => Extending'
    BY <1>1, ExtendingUnchanged
  <2>2. Sinks(copy') = Sinks(copy)
    BY <1>1
  <2>3. QED BY <1>1, <2>1, <2>2 DEF IInv, DagInv
<1>4. Flipping' /\ ApproximateDag'
  <2>1. Sorted' = Sorted /\ Skeleton(input') = Skeleton(input) /\ Skeleton(out') = Skeleton(out)
        /\ (IsDag(out') <=> IsDag(out))
    BY <1>1 DEF Sorted
  <2>2. QED BY <1>1, <2>1 DEF IInv, Flipping, ApproximateDag
<1>5. QED BY <1>2, <1>3, <1>4 DEF IInv

LEMMA NextIInv ==
    ASSUME IInv, [Next]_vars
    PROVE  IInv'
<1>1. CASE CheckArcs
  BY <1>1, CheckKeeps
<1>2. CASE \E x \in Nodes : RemoveSink(x)
  BY <1>2, RemoveSinkKeeps
<1>3. CASE EndExtension
  BY <1>3, EndExtensionKeeps
<1>4. CASE PopNode
  BY <1>4, PopKeeps
<1>5. CASE \E n \in Nodes : BreakCycle(n)
  BY <1>5, BreakKeeps
<1>6. CASE EndSort
  BY <1>6, EndSortKeeps
<1>7. CASE LabelArc
  BY <1>7, LabelKeeps
<1>8. CASE UNCHANGED vars
  BY <1>8, StutterKeeps
<1>9. QED BY <1>1, <1>2, <1>3, <1>4, <1>5, <1>6, <1>7, <1>8 DEF Next, Step, Finished

LEMMA IInvTypeOK ==
    ASSUME IInv
    PROVE  TypeOK
<1>1. Types /\ EachOnce /\ Counted
  BY DEF IInv, SortInv
<1>2. call.to \in {"dag", "approximate_dag", "pdag"}
  BY <1>1, InputGraph
<1>3. status \in {"check", "extend", "sort", "label", "returned", "thrown"}
  BY <1>1, <1>2 DEF Types
<1>4. [arcs |-> copy.arcs, edges |-> copy.edges] \in Graphs
  BY <1>1 DEF Types, Graphs
<1>5. incoming \in [Nodes -> Int]
  <2>1. ASSUME NEW x \in Nodes
        PROVE  Cardinality(Parents(input, x) \ Sorted) \in Int
    <3>1. IsFiniteSet(Parents(input, x) \ Sorted)
      BY FiniteParts
    <3>2. QED BY <3>1, FS_CardinalityType
  <2>2. QED BY <1>1, <2>1 DEF Counted
<1>6. IsInjective(sorted \o stack)
  <2>1. Range(sorted) \cap Range(stack) = {}
    BY <1>1 DEF EachOnce, Sorted, OnStack
  <2>2. QED BY <1>1, <2>1, ConcatFacts DEF EachOnce
<1>7. QED BY <1>1, <1>3, <1>4, <1>5, <1>6 DEF TypeOK, Types, EachOnce

\* When to_dag gives up there is nothing to find.
LEMMA IInvToDagExact ==
    ASSUME IInv
    PROVE  ToDagExact
<1>1. Types /\ DagInv /\ input \in Graphs
  BY InputGraph DEF IInv
<1>2. ASSUME call.to = "dag", status = "returned"
      PROVE  out \in Extensions(input)
  <2>1. Extending /\ copy.edges = {}
    BY <1>1, <1>2 DEF DagInv
  <2>2. QED BY <1>1, <2>1, ExtensionFound
<1>3. ASSUME call.to = "dag", status = "thrown", NoOverlap(input), NEW d \in Extensions(input)
      PROVE  FALSE
  <2>1. d \in Orientations(input) /\ ArcsAcyclic(d.arcs)
    BY DEF Extensions, IsDag
  <2>2. input.arcs \subseteq d.arcs
    BY <1>1, <2>1, OrientationFacts
  <2>3. ArcsAcyclic(input.arcs)
    BY <2>1, <2>2, AcyclicSubset
  <2>4. Extending /\ copy.edges # {} /\ Sinks(copy) = {}
    BY <1>1, <1>3, <2>3 DEF DagInv
  <2>5. copy.nodes \in SUBSET Nodes /\ copy = Part(input, copy.nodes)
    BY <2>4 DEF Extending
  <2>6. copy.nodes # {}
    <3>1. PICK e : e \in copy.edges
      BY <2>4
    <3>2. e \in Edges /\ e \subseteq copy.nodes
      BY <1>1, <2>5, <3>1 DEF Part, Graphs
    <3>3. QED BY <3>2, EdgeNodes
  <2>7. PICK N \in SUBSET Nodes : N = copy.nodes
    BY <2>5
  <2>8. Sinks(Part(input, N)) # {}
    BY <1>1, <1>3, <2>6, <2>7, SinkExists
  <2>9. QED BY <2>4, <2>5, <2>7, <2>8
<1>4. QED BY <1>2, <1>3 DEF ToDagExact

LEMMA Invariance == Spec => []IInv
BY InitIInv, NextIInv, PTL DEF Spec

\* The variables keep their types, and no sort visits a node twice.
THEOREM Typing == Spec => []TypeOK
BY Invariance, IInvTypeOK, PTL

\* Whichever sinks to_dag removes, it returns a consistent extension, and throws
\* only when the graph has none.
THEOREM ConsistentExtension == Spec => []ToDagExact
BY Invariance, IInvToDagExact, PTL

\* Whichever order to_approximate_dag finds, it returns an acyclic graph with the
\* adjacencies of its input, and turns no arc unless there is a directed cycle.
THEOREM Approximation == Spec => []ApproximateDag
<1>1. IInv => ApproximateDag
  BY DEF IInv
<1>2. QED BY <1>1, Invariance, PTL

===============================================================================
