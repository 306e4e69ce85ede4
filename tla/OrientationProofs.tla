--------------------------- MODULE OrientationProofs ---------------------------
(***************************************************************************)
(* Lemmas for every set of nodes, about partially directed graphs, about   *)
(* the four lists and about the orientation that PC and MMPC share:        *)
(* directing edges joins and separates no pair, the graph with which a     *)
(* search starts has what the lists ask for, and no step of the            *)
(* orientation breaks a list.  With the answers of a test that is faithful *)
(* to a directed acyclic graph, and its skeleton found, the orientation    *)
(* ends with the graph of its equivalence class (OrientationComplete): the *)
(* rules direct only arcs all members of the class have, and a graph in    *)
(* which no rule applies has, for each edge left, a member of either way.  *)
(***************************************************************************)
EXTENDS Orientation, ReachabilityProofs

\* The arcs of a pair are an arc and its opposite.
LEMMA SameEnds ==
    ASSUME NEW a \in Arcs, NEW b \in Arcs
    PROVE  Ends(a) = Ends(b) <=> (b = a \/ b = Reverse(a))
<1>1. PICK a1 \in Nodes, a2 \in Nodes : a = <<a1, a2>> /\ a1 # a2
  BY DEF Arcs
<1>2. PICK b1 \in Nodes, b2 \in Nodes : b = <<b1, b2>> /\ b1 # b2
  BY DEF Arcs
<1>3. Ends(a) = {a1, a2} /\ Ends(b) = {b1, b2} /\ Reverse(a) = <<a2, a1>>
  BY <1>1, <1>2 DEF Ends, Reverse
<1>4. {a1, a2} = {b1, b2} <=> ((a1 = b1 /\ a2 = b2) \/ (a1 = b2 /\ a2 = b1))
  BY <1>1, <1>2
<1>5. QED BY <1>1, <1>2, <1>3, <1>4

\* The opposite of an arc joins the same pair.
LEMMA ReverseArc ==
    ASSUME NEW a \in Arcs
    PROVE  /\ Reverse(a) \in Arcs /\ Ends(Reverse(a)) = Ends(a)
           /\ Reverse(Reverse(a)) = a /\ Reverse(a) # a
           /\ Ends(a) \in Edges
<1>1. PICK a1 \in Nodes, a2 \in Nodes : a = <<a1, a2>> /\ a1 # a2
  BY DEF Arcs
<1>2. Reverse(a) = <<a2, a1>> /\ Ends(a) = {a1, a2}
  BY <1>1 DEF Ends, Reverse
<1>3. Reverse(a) \in Arcs /\ Ends(Reverse(a)) = {a2, a1} /\ Reverse(Reverse(a)) = a
  BY <1>1, <1>2 DEF Ends, Reverse, Arcs
<1>4. QED BY <1>1, <1>2, <1>3 DEF Edges

\* An edge has two different ends, which are nodes.
LEMMA EdgeEnds ==
    ASSUME NEW e \in Edges, NEW x \in e
    PROVE  x \in Nodes /\ e # {x} /\ e \subseteq Nodes /\ \E y \in Nodes : y # x /\ e = {x, y}
<1>1. PICK a1 \in Nodes, a2 \in Nodes : a1 # a2 /\ e = {a1, a2}
  BY DEF Edges, Arcs, Ends
<1>2. QED BY <1>1

\* There are finitely many edges.
LEMMA FiniteEdges == IsFiniteSet(Edges) /\ \A E \in SUBSET Edges : IsFiniteSet(E)
<1>1. Edges \subseteq SUBSET Nodes
  BY EdgeEnds
<1>2. IsFiniteSet(SUBSET Nodes)
  BY NodesAssumption, FS_SUBSET
<1>3. IsFiniteSet(Edges)
  BY <1>1, <1>2, FS_Subset
<1>4. QED BY <1>3, FS_Subset

-------------------------------------------------------------------------------
(* Directing edges.                                                        *)

\* direct changes no adjacency, leaves no edge beside an arc, removes no arc and
\* adds only the arcs it is given.
LEMMA DirectAllEffect ==
    ASSUME NEW g \in Graphs, NoOverlap(g), NEW A \in SUBSET Arcs
    PROVE  LET d == DirectAll(g, A)
           IN  /\ d \in Graphs /\ NoOverlap(d)
               /\ Skeleton(d) = Skeleton(g)
               /\ g.arcs \subseteq d.arcs /\ d.arcs \subseteq g.arcs \cup A
               /\ d.edges \subseteq g.edges
               /\ \A a \in A : Ends(a) \notin d.edges
               /\ \A a \in A : Ends(a) \in g.edges \/ Reverse(a) \in g.arcs => a \in d.arcs
<1> DEFINE d == DirectAll(g, A)
           moved == {a \in A : Ends(a) \in g.edges \/ Reverse(a) \in g.arcs}
<1>1. d.arcs = g.arcs \cup moved /\ d.edges = g.edges \ {Ends(a) : a \in moved}
  BY DEF DirectAll
<1>2. d \in Graphs
  BY <1>1 DEF DirectAll, Graphs
<1>3. g.arcs \in SUBSET Arcs /\ g.edges \in SUBSET Edges
  BY DEF Graphs
<1>4. ASSUME NEW a \in moved
      PROVE  Ends(a) \in Skeleton(g)
  <2>1. CASE Ends(a) \in g.edges
    BY <2>1 DEF Skeleton
  <2>2. CASE Reverse(a) \in g.arcs
    <3>1. Ends(Reverse(a)) = Ends(a)
      BY ReverseArc
    <3>2. QED BY <2>2, <3>1 DEF Skeleton
  <2>3. QED BY <1>4, <2>1, <2>2
<1>5. Skeleton(d) = Skeleton(g)
  <2>1. Skeleton(d) = d.edges \cup {Ends(a) : a \in g.arcs} \cup {Ends(a) : a \in moved}
    BY <1>1 DEF Skeleton
  <2>2. {Ends(a) : a \in moved} \subseteq Skeleton(g)
    BY <1>4
  <2>3. QED BY <2>1, <2>2, <1>1 DEF Skeleton
<1>6. NoOverlap(d)
  BY <1>1, <1>3 DEF NoOverlap
<1>7. \A a \in A : Ends(a) \notin d.edges
  BY <1>1
<1>8. QED BY <1>1, <1>2, <1>5, <1>6, <1>7

\* The ends of an arc, or of an edge, are adjacent.
LEMMA AdjacentEnds ==
    ASSUME NEW g \in Graphs, NEW x \in Nodes, NEW y \in Nodes
    PROVE  /\ y \in Neighbors(g, x) => y # x /\ {x, y} \in Skeleton(g) /\ {x, y} \in Edges
           /\ y \in Parents(g, x) => y # x /\ {x, y} \in Skeleton(g) /\ {x, y} \in Edges
<1>1. g.arcs \in SUBSET Arcs /\ g.edges \in SUBSET Edges
  BY DEF Graphs
<1>2. ASSUME y \in Neighbors(g, x)
      PROVE  y # x /\ {x, y} \in Skeleton(g) /\ {x, y} \in Edges
  <2>1. {x, y} \in g.edges /\ {x, y} \in Edges
    BY <1>1, <1>2 DEF Neighbors
  <2>2. {x, y} # {x}
    BY <2>1, EdgeEnds
  <2>3. QED BY <2>1, <2>2 DEF Skeleton
<1>3. ASSUME y \in Parents(g, x)
      PROVE  y # x /\ {x, y} \in Skeleton(g) /\ {x, y} \in Edges
  <2>1. <<y, x>> \in g.arcs /\ <<y, x>> \in Arcs
    BY <1>1, <1>3 DEF Parents
  <2>2. Ends(<<y, x>>) = {x, y}
    BY DEF Ends
  <2>3. QED BY <2>1, <2>2 DEF Skeleton, Edges, Arcs
<1>4. QED BY <1>2, <1>3

-------------------------------------------------------------------------------
(* The lists and the graph with which a search starts.                     *)

\* The pairs that can be joined: all but those of two interface nodes.
Complete(t) == {Ends(a) : a \in NodePairs(t) \cup InterfacePairs(t)}

LEMMA CompletePairs ==
    ASSUME NEW t, Checked(t)
    PROVE  /\ Complete(t) \subseteq Edges
           /\ \A e \in Complete(t) : e \subseteq t.nodes
           /\ \A x \in t.nodes \ t.interface, y \in t.nodes : x # y => {x, y} \in Complete(t)
<1>1. NodePairs(t) \subseteq Arcs /\ InterfacePairs(t) \subseteq Arcs
  BY DEF NodePairs, InterfacePairs
<1>2. Complete(t) \subseteq Edges
  BY <1>1 DEF Complete, Edges
<1>3. ASSUME NEW e \in Complete(t)
      PROVE  e \subseteq t.nodes
  <2>1. PICK a \in NodePairs(t) \cup InterfacePairs(t) : e = {a[1], a[2]}
    BY DEF Complete, Ends
  <2>2. t.interface \subseteq t.nodes
    BY DEF Checked
  <2>3. QED BY <2>1, <2>2 DEF NodePairs, InterfacePairs
<1>4. ASSUME NEW x \in t.nodes \ t.interface, NEW y \in t.nodes, x # y
      PROVE  {x, y} \in Complete(t)
  <2>1. x \in Nat /\ y \in Nat /\ x \in Nodes /\ y \in Nodes
    BY NodesAssumption DEF Checked
  <2>2. <<x, y>> \in Arcs /\ <<y, x>> \in Arcs /\ Ends(<<x, y>>) = {x, y} /\ Ends(<<y, x>>) = {x, y}
    BY <1>4, <2>1 DEF Arcs, Ends
  <2>3. CASE y \in t.interface
    <3>1. <<x, y>> \in InterfacePairs(t)
      BY <2>2, <2>3 DEF InterfacePairs
    <3>2. QED BY <2>2, <3>1 DEF Complete
  <2>4. CASE y \notin t.interface
    <3>1. <<x, y>> \in NodePairs(t) \/ <<y, x>> \in NodePairs(t)
      BY <1>4, <2>1, <2>2, <2>4 DEF NodePairs
    <3>2. QED BY <2>2, <3>1 DEF Complete
  <2>5. QED BY <2>3, <2>4
<1>5. QED BY <1>2, <1>3, <1>4

\* What validate_restrictions derives from lists of arcs and edges.
LEMMA DerivedLists ==
    ASSUME NEW t, Checked(t)
    PROVE  LET r == ValidateRestrictions(t)
           IN  /\ r.arcWhitelist \subseteq Arcs /\ r.arcBlacklist \subseteq Arcs
               /\ r.edgeWhitelist \subseteq Edges /\ r.edgeBlacklist \subseteq Edges
               /\ \A a \in r.arcWhitelist \cup r.arcBlacklist : Ends(a) \subseteq t.nodes \ t.interface
               /\ \A e \in r.edgeWhitelist : e \in Complete(t)
               /\ \A a \in r.arcWhitelist : Ends(a) \in Complete(t) /\ Ends(a) \notin r.edgeWhitelist
               /\ \A a \in r.arcBlacklist : Reverse(a) \notin r.arcBlacklist
<1> DEFINE both == {a \in t.arcBlacklist : Reverse(a) \in t.arcBlacklist}
           r == ValidateRestrictions(t)
<1>1. /\ r.arcWhitelist = t.arcWhitelist \cup DerivedWhitelist(t)
      /\ r.edgeWhitelist = t.edgeWhitelist \ {Ends(a) : a \in r.arcWhitelist}
      /\ r.arcBlacklist = {a \in t.arcBlacklist \ both : Ends(a) \notin t.edgeBlacklist}
      /\ r.edgeBlacklist = t.edgeBlacklist \cup {Ends(a) : a \in both}
  BY DEF ValidateRestrictions
<1> DEFINE pairs == {a \in Arcs : Ends(a) \subseteq t.nodes \ t.interface}
<1>2. /\ t.arcBlacklist \subseteq pairs /\ t.arcWhitelist \subseteq pairs
      /\ t.edgeBlacklist \subseteq {Ends(a) : a \in pairs}
      /\ t.edgeWhitelist \subseteq {Ends(a) : a \in pairs}
  BY DEF Checked
<1>3. DerivedWhitelist(t) \subseteq pairs
  <2>1. \A a \in pairs : Reverse(a) \in pairs
    BY ReverseArc
  <2>2. QED BY <1>2, <2>1 DEF DerivedWhitelist
<1>4. r.arcWhitelist \subseteq pairs /\ r.arcBlacklist \subseteq pairs
  BY <1>1, <1>2, <1>3
<1>5. ASSUME NEW a \in pairs
      PROVE  Ends(a) \in Complete(t) /\ Ends(a) \in Edges
  <2>1. a \in Arcs /\ Ends(a) = {a[1], a[2]} /\ a[1] # a[2]
    BY DEF Arcs, Ends
  <2>2. a[1] \in t.nodes \ t.interface /\ a[2] \in t.nodes
    BY <2>1, <1>5
  <2>3. QED BY <2>1, <2>2, CompletePairs DEF Edges
<1>6. \A a \in r.arcWhitelist : Ends(a) \notin r.edgeWhitelist
  BY <1>1
<1>7. \A a \in r.arcBlacklist : Reverse(a) \notin r.arcBlacklist
  BY <1>1
<1>8. \A e \in r.edgeWhitelist : e \in Complete(t) /\ e \in Edges
  BY <1>1, <1>2, <1>5
<1>9. r.edgeBlacklist \subseteq Edges
  BY <1>1, <1>2, <1>5
<1> HIDE DEF r, both
<1>10. \A a \in r.arcWhitelist \cup r.arcBlacklist : a \in Arcs /\ Ends(a) \subseteq t.nodes \ t.interface
  BY <1>4
<1>11. \A a \in r.arcWhitelist : Ends(a) \in Complete(t)
  BY <1>4, <1>5
<1>12. QED BY <1>6, <1>7, <1>8, <1>9, <1>10, <1>11 DEF r

\* Lists that are not rejected agree with each other.
LEMMA ListsAgree ==
    ASSUME NEW t, Checked(t), ~Contradiction(t)
    PROVE  LET r == ValidateRestrictions(t)
           IN  /\ \A a \in r.arcWhitelist : a \notin r.arcBlacklist /\ Ends(a) \notin r.edgeBlacklist
               /\ r.edgeWhitelist \cap r.edgeBlacklist = {}
<1> DEFINE both == {a \in t.arcBlacklist : Reverse(a) \in t.arcBlacklist}
           r == ValidateRestrictions(t)
<1>1. /\ r.arcWhitelist = t.arcWhitelist \cup DerivedWhitelist(t)
      /\ r.edgeWhitelist \subseteq t.edgeWhitelist
      /\ r.arcBlacklist \subseteq t.arcBlacklist
      /\ r.edgeBlacklist = t.edgeBlacklist \cup {Ends(a) : a \in both}
  BY DEF ValidateRestrictions
<1>2. t.arcBlacklist \subseteq Arcs /\ t.arcWhitelist \subseteq Arcs
  BY DEF Checked
<1>3. /\ t.edgeBlacklist \cap t.edgeWhitelist = {}
      /\ \A a \in t.arcWhitelist : Ends(a) \notin t.edgeBlacklist
      /\ t.arcBlacklist \cap t.arcWhitelist = {}
      /\ \A a \in both : Ends(a) \notin t.edgeWhitelist
  BY DEF Contradiction
<1>4. ASSUME NEW a \in t.arcWhitelist
      PROVE  a \notin r.arcBlacklist /\ Ends(a) \notin r.edgeBlacklist
  <2>1. a \notin t.arcBlacklist
    BY <1>3
  <2>2. ASSUME NEW b \in both, Ends(a) = Ends(b)
        PROVE  FALSE
    <3>1. b = a \/ b = Reverse(a)
      BY <1>2, <2>2, SameEnds
    <3>2. Reverse(Reverse(a)) = a
      BY <1>2, ReverseArc
    <3>3. QED BY <2>1, <3>1, <3>2
  <2>3. QED BY <1>1, <1>3, <2>1, <2>2
<1>5. ASSUME NEW a \in DerivedWhitelist(t)
      PROVE  a \notin r.arcBlacklist /\ Ends(a) \notin r.edgeBlacklist
  <2>1. PICK b \in t.arcBlacklist : a = Reverse(b) /\ Ends(b) \in t.edgeWhitelist
    BY DEF DerivedWhitelist
  <2>2. Ends(a) = Ends(b) /\ Reverse(a) = b
    BY <1>2, <2>1, ReverseArc
  <2>3. Ends(a) \notin t.edgeBlacklist /\ b \notin both
    BY <1>3, <2>1, <2>2
  <2>4. a \notin t.arcBlacklist
    BY <2>1, <2>3
  <2>5. \A c \in both : Ends(c) # Ends(a)
    BY <1>3, <2>1, <2>2
  <2>6. QED BY <1>1, <2>3, <2>4, <2>5
<1>6. r.edgeWhitelist \cap r.edgeBlacklist = {}
  BY <1>1, <1>3
<1> HIDE DEF r
<1>7. \A a \in r.arcWhitelist : a \notin r.arcBlacklist /\ Ends(a) \notin r.edgeBlacklist
  BY <1>1, <1>4, <1>5
<1>8. QED BY <1>6, <1>7 DEF r

\* The graph with which a search starts joins the pairs that are not blacklisted;
\* its arcs are whitelisted.
LEMMA StartGraphEffect ==
    ASSUME NEW t, Checked(t)
    PROVE  LET r == ValidateRestrictions(t)
               s == StartGraph(t)
           IN  /\ s \in Graphs /\ NoOverlap(s)
               /\ s.arcs \subseteq r.arcWhitelist
               /\ Skeleton(s) = Complete(t) \ r.edgeBlacklist
               /\ \A a \in r.arcWhitelist : Ends(a) \notin r.edgeBlacklist => a \in s.arcs
<1> DEFINE r == ValidateRestrictions(t)
           g == [arcs |-> {}, edges |-> Complete(t) \ r.edgeBlacklist]
<1>1. g \in Graphs /\ NoOverlap(g) /\ Skeleton(g) = Complete(t) \ r.edgeBlacklist
  BY CompletePairs DEF Graphs, NoOverlap, Skeleton
<1>2. r.arcWhitelist \in SUBSET Arcs /\ \A a \in r.arcWhitelist : Ends(a) \in Complete(t)
  BY DerivedLists
<1>3. StartGraph(t) = DirectAll(g, r.arcWhitelist)
  BY DEF StartGraph, Complete
<1> HIDE DEF r
<1>4. g.arcs = {} /\ g.edges = Complete(t) \ r.edgeBlacklist
  OBVIOUS
<1> HIDE DEF g
<1>5. QED BY <1>1, <1>2, <1>3, <1>4, DirectAllEffect DEF r

\* Unless the lists contradict each other, it has what they ask for.
LEMMA StartGraphKeeps ==
    ASSUME NEW t, Checked(t), ~Contradiction(t)
    PROVE  LET r == ValidateRestrictions(t)
               s == StartGraph(t)
           IN  s.arcs = r.arcWhitelist /\ r.edgeWhitelist \subseteq s.edges
<1> DEFINE r == ValidateRestrictions(t)
           s == StartGraph(t)
<1> HIDE DEF r, s
<1>1. s.arcs = r.arcWhitelist
  BY StartGraphEffect, ListsAgree DEF r, s
<1>2. r.edgeWhitelist \subseteq Skeleton(s)
  BY StartGraphEffect, ListsAgree, DerivedLists DEF r, s
<1>3. \A a \in s.arcs : Ends(a) \notin r.edgeWhitelist
  BY <1>1, DerivedLists DEF r
<1>4. QED BY <1>1, <1>2, <1>3 DEF r, s, Skeleton

-------------------------------------------------------------------------------
(* The orientation.                                                        *)

Oriented == {"evaluate", "vstructures", "rule1", "rule2", "rule3", "crashed", "done"}

ListsHold(g) ==
    /\ restrictions.arcWhitelist \subseteq g.arcs
    /\ restrictions.edgeWhitelist \subseteq Skeleton(g)
    /\ restrictions.arcBlacklist \cap g.arcs = {}

\* No edge is left that must have one direction.
NoneForced(g) ==
    /\ \A a \in restrictions.arcBlacklist : Ends(a) \notin g.edges
    /\ \A e \in g.edges : e \cap task.interface = {}

\* A child is no parent of its own.
ChildApart == \A x \in Nodes : \A pq \in evaluated[x] : x \notin pq

\* What holds while the edges are directed.
OrientationInv ==
    /\ Checked(task) /\ restrictions = ValidateRestrictions(task)
    /\ pdag \in Graphs /\ NoOverlap(pdag)
    /\ ListsHold(pdag)
    /\ phase \in Oriented => NoneForced(pdag)
    /\ evaluated \in [Nodes -> SUBSET Edges] /\ ChildApart
    /\ toCheck \subseteq Arcs /\ nextNode \in Nat /\ changed \in BOOLEAN

\* A step of the orientation joins and separates no pair.
Steady ==
    /\ phase \in {"found"} \cup Oriented /\ phase' \in Oriented
    /\ Skeleton(pdag') = Skeleton(pdag)
    /\ UNCHANGED <<task, restrictions>>

\* Directing edges that are not forced the other way breaks no list.
LEMMA DirectKeeps ==
    ASSUME NEW g \in Graphs, NoOverlap(g), ListsHold(g),
           NEW A \in SUBSET Arcs, A \cap restrictions.arcBlacklist = {}
    PROVE  LET d == DirectAll(g, A)
           IN  /\ d \in Graphs /\ NoOverlap(d) /\ Skeleton(d) = Skeleton(g)
               /\ ListsHold(d)
               /\ d.edges \subseteq g.edges /\ \A a \in A : Ends(a) \notin d.edges
               /\ NoneForced(g) => NoneForced(d)
<1> DEFINE d == DirectAll(g, A)
<1>1. /\ d \in Graphs /\ NoOverlap(d) /\ Skeleton(d) = Skeleton(g)
      /\ g.arcs \subseteq d.arcs /\ d.arcs \subseteq g.arcs \cup A
      /\ d.edges \subseteq g.edges /\ \A a \in A : Ends(a) \notin d.edges
  BY DirectAllEffect
<1> HIDE DEF d
<1>2. ListsHold(d)
  BY <1>1 DEF ListsHold
<1>3. NoneForced(g) => NoneForced(d)
  BY <1>1 DEF NoneForced
<1>4. QED BY <1>1, <1>2, <1>3 DEF d

\* The pairs that are evaluated at a child: edges between nodes adjacent to it, one
\* of them by an edge, and without the child.
LEMMA EvaluatedPairs ==
    ASSUME pdag \in Graphs, NoOverlap(pdag), NEW x \in Nodes, NEW found,
           NEW pq \in CandidatePairs(pdag, x) \cup MixedPairs(pdag, x, found)
    PROVE  /\ pq \in Edges /\ x \notin pq /\ pq \subseteq Adjacent(pdag, x)
           /\ \E n \in Neighbors(pdag, x), y \in Adjacent(pdag, x) : n # y /\ pq = {n, y}
<1>2. Neighbors(pdag, x) \subseteq Nodes /\ Parents(pdag, x) \subseteq Nodes
  BY DEF Neighbors, Parents
<1>3. \A y \in Adjacent(pdag, x) : y # x
  BY <1>2, AdjacentEnds DEF Adjacent
<1>4. PICK n \in Neighbors(pdag, x), y \in Adjacent(pdag, x) : n # y /\ pq = {n, y}
  <2>1. CASE pq \in CandidatePairs(pdag, x)
    <3>1. pq \in Edges /\ pq \subseteq Neighbors(pdag, x)
      BY <2>1 DEF CandidatePairs
    <3>2. PICK a \in Nodes, b \in Nodes : a # b /\ pq = {a, b}
      BY <3>1 DEF Edges, Arcs, Ends
    <3>3. QED BY <3>1, <3>2 DEF Adjacent
  <2>2. CASE pq \in MixedPairs(pdag, x, found)
    <3>1. PICK n \in Neighbors(pdag, x), p \in Parents(pdag, x) : pq = {n, p}
      BY <2>2 DEF MixedPairs
    <3>2. {x, n} \in pdag.edges /\ <<p, x>> \in pdag.arcs
      BY <3>1 DEF Neighbors, Parents
    <3>3. Ends(<<p, x>>) = {x, p}
      BY DEF Ends
    <3>4. n # p
      BY <3>2, <3>3 DEF NoOverlap
    <3>5. QED BY <3>1, <3>4 DEF Adjacent
  <2>3. QED BY <2>1, <2>2
<1>5. n \in Nodes /\ y \in Nodes
  BY <1>2 DEF Adjacent
<1>6. pq \in Edges
  <2>1. <<n, y>> \in Arcs /\ Ends(<<n, y>>) = pq
    BY <1>4, <1>5 DEF Arcs, Ends
  <2>2. QED BY <2>1, ReverseArc
<1>7. QED BY <1>3, <1>4, <1>6 DEF Adjacent

\* Applying v-structures changes no adjacency and breaks no list.
LEMMA ApplyKeeps ==
    ASSUME pdag \in Graphs, NoOverlap(pdag), ListsHold(pdag), NoneForced(pdag),
           NEW child \in Nodes, NEW pairs \in SUBSET Edges, \A pq \in pairs : child \notin pq
    PROVE  LET d == ApplyVStructures(pdag, pairs, child)
           IN  /\ d \in Graphs /\ NoOverlap(d) /\ Skeleton(d) = Skeleton(pdag)
               /\ ListsHold(d) /\ NoneForced(d)
<1> DEFINE A == Into({pq \in pairs : Applicable(pdag, pq, child)}, child)
           directed == DirectAll(pdag, A)
           d == ApplyVStructures(pdag, pairs, child)
<1>1. pdag \in Graphs /\ NoOverlap(pdag)
  OBVIOUS
<1>2. ASSUME NEW a \in A
      PROVE  /\ a \in Arcs /\ a[2] = child /\ a \notin restrictions.arcBlacklist
             /\ task.bidirected \/ Reverse(a) \notin pdag.arcs \cap restrictions.arcWhitelist
  <2>1. PICK pq \in pairs, p \in UNION pairs :
                p \in pq /\ a = <<p, child>> /\ Applicable(pdag, pq, child)
    BY DEF Into
  <2>2. p \in Nodes /\ p # child
    BY <2>1, EdgeEnds
  <2>3. QED BY <2>1, <2>2 DEF Applicable, Arcs, Reverse
<1>3. A \in SUBSET Arcs /\ A \cap restrictions.arcBlacklist = {}
  BY <1>2
<1> HIDE DEF A
<1>4. /\ directed \in Graphs /\ NoOverlap(directed) /\ Skeleton(directed) = Skeleton(pdag)
      /\ ListsHold(directed) /\ NoneForced(directed)
  BY <1>1, <1>3, DirectKeeps
<1>5. /\ pdag.arcs \subseteq directed.arcs /\ directed.arcs \subseteq pdag.arcs \cup A
      /\ \A a \in A : Reverse(a) \in pdag.arcs => a \in directed.arcs
  BY <1>1, <1>3, DirectAllEffect
<1> HIDE DEF directed
<1>6. d = IF task.bidirected THEN directed
          ELSE [directed EXCEPT !.arcs = @ \ {Reverse(a) : a \in A}]
  BY DEF ApplyVStructures, A, directed
<1> HIDE DEF d
<1>7. CASE task.bidirected
  BY <1>4, <1>6, <1>7 DEF d
<1>8. CASE ~task.bidirected
  <2> DEFINE lost == {Reverse(a) : a \in A}
  <2>1. d.arcs = directed.arcs \ lost /\ d.edges = directed.edges /\ d \in Graphs
    BY <1>4, <1>6, <1>8 DEF Graphs
  <2>2. ASSUME NEW b \in directed.arcs, b \in lost
        PROVE  Ends(b) \in Skeleton(d)
    <3>1. PICK a \in A : b = Reverse(a)
      BY <2>2
    <3>2. a \in Arcs /\ a[2] = child /\ a[1] # child
      BY <1>2 DEF Arcs
    <3>3. b[2] # child
      BY <3>1, <3>2 DEF Reverse
    <3>4. b \in pdag.arcs
      BY <1>2, <1>5, <3>3
    <3>5. a \in directed.arcs
      BY <1>5, <3>1, <3>4
    <3>6. a \notin lost
      <4>1. ASSUME NEW c \in A, a = Reverse(c)
            PROVE  FALSE
        <5>1. c \in Arcs /\ c[2] = child
          BY <1>2
        <5>2. a[1] = child
          BY <4>1, <5>1 DEF Reverse
        <5>3. QED BY <3>2, <5>2
      <4>2. QED BY <4>1
    <3>7. Ends(b) = Ends(a)
      BY <3>1, <3>2, ReverseArc
    <3>8. QED BY <2>1, <3>5, <3>6, <3>7 DEF Skeleton
  <2>3. Skeleton(d) = Skeleton(directed)
    <3>1. Skeleton(directed) \subseteq Skeleton(d)
      BY <2>1, <2>2 DEF Skeleton
    <3>2. Skeleton(d) \subseteq Skeleton(directed)
      BY <2>1 DEF Skeleton
    <3>3. QED BY <3>1, <3>2
  <2>4. restrictions.arcWhitelist \subseteq d.arcs
    <3>1. restrictions.arcWhitelist \subseteq pdag.arcs
      BY DEF ListsHold
    <3>2. \A a \in A : Reverse(a) \notin restrictions.arcWhitelist
      BY <1>2, <1>8, <3>1
    <3>3. QED BY <1>5, <2>1, <3>1, <3>2
  <2>5. NoOverlap(d) /\ NoneForced(d)
    BY <1>4, <2>1 DEF NoOverlap, NoneForced
  <2>6. ListsHold(d)
    BY <1>4, <2>1, <2>3, <2>4 DEF ListsHold
  <2>7. QED BY <1>4, <2>1, <2>3, <2>5, <2>6 DEF d
<1>9. QED BY <1>7, <1>8

\* What a step of the orientation has to keep.
LEMMA OrientedStep ==
    ASSUME OrientationInv, phase \in {"found"} \cup Oriented, phase' \in Oriented,
           UNCHANGED <<task, restrictions>>,
           pdag' \in Graphs, NoOverlap(pdag'), Skeleton(pdag') = Skeleton(pdag),
           ListsHold(pdag'), NoneForced(pdag'),
           evaluated' \in [Nodes -> SUBSET Edges], ChildApart',
           toCheck' \subseteq Arcs, nextNode' \in Nat, changed' \in BOOLEAN
    PROVE  OrientationInv' /\ Steady
<1>1. NoOverlap(pdag)' /\ ListsHold(pdag)' /\ NoneForced(pdag)'
  BY DEF NoOverlap, ListsHold, NoneForced
<1>2. OrientationInv'
  BY <1>1 DEF OrientationInv
<1>3. QED BY <1>2 DEF Steady

\* A step that directs edges, none of them against a blacklist.
LEMMA DirectStep ==
    ASSUME OrientationInv, phase \in Oriented, phase' \in Oriented,
           UNCHANGED <<task, restrictions, evaluated>>,
           NEW A \in SUBSET Arcs, \A a \in A : Ends(a) \in pdag.edges,
           pdag' = DirectAll(pdag, A),
           toCheck' \subseteq Arcs, nextNode' \in Nat, changed' \in BOOLEAN
    PROVE  OrientationInv' /\ Steady
<1>1. pdag \in Graphs /\ NoOverlap(pdag) /\ ListsHold(pdag) /\ NoneForced(pdag)
  BY DEF OrientationInv
<1>2. A \cap restrictions.arcBlacklist = {}
  BY <1>1 DEF NoneForced
<1>3. /\ pdag' \in Graphs /\ NoOverlap(pdag') /\ Skeleton(pdag') = Skeleton(pdag)
      /\ ListsHold(pdag') /\ NoneForced(pdag')
  BY <1>1, <1>2, DirectKeeps
<1>4. ChildApart' /\ evaluated' \in [Nodes -> SUBSET Edges]
  BY DEF OrientationInv, ChildApart
<1>5. QED BY <1>3, <1>4, OrientedStep

\* A step that changes the state of the rules only.
LEMMA QuietStep ==
    ASSUME OrientationInv, phase \in Oriented, phase' \in Oriented,
           UNCHANGED <<task, restrictions, pdag, evaluated>>,
           toCheck' \subseteq Arcs, nextNode' \in Nat, changed' \in BOOLEAN
    PROVE  OrientationInv' /\ Steady
<1>1. DirectAll(pdag, {}) = pdag
  BY DEF DirectAll, OrientationInv, Graphs
<1>2. QED BY <1>1, DirectStep

LEMMA RestrictedStep ==
    ASSUME OrientationInv, DirectRestricted
    PROVE  OrientationInv' /\ Steady
<1> DEFINE fromInterface == {a \in Arcs : a[1] \in task.interface /\ Ends(a) \in pdag.edges}
           g == DirectAll(pdag, fromInterface)
           opposite == {Reverse(a) : a \in {a \in restrictions.arcBlacklist : Ends(a) \in g.edges}}
<1>1. /\ phase = "found" /\ pdag' = DirectAll(g, opposite) /\ phase' = "evaluate"
      /\ UNCHANGED <<task, restrictions, evaluated, toCheck, nextNode, changed>>
  BY DEF DirectRestricted, problem, rulesState
<1>2. /\ pdag \in Graphs /\ NoOverlap(pdag) /\ ListsHold(pdag)
      /\ Checked(task) /\ restrictions = ValidateRestrictions(task)
      /\ restrictions.arcBlacklist \in SUBSET Arcs /\ pdag.edges \in SUBSET Edges
  <2>1. Checked(task) /\ restrictions = ValidateRestrictions(task) /\ pdag \in Graphs
    BY DEF OrientationInv
  <2>2. restrictions.arcBlacklist \in SUBSET Arcs
    BY <2>1, DerivedLists
  <2>3. QED BY <2>1, <2>2 DEF OrientationInv, Graphs
<1>3. \A a \in restrictions.arcBlacklist : a[1] \notin task.interface
  <2>1. \A a \in Arcs : a[1] \in Ends(a)
    BY DEF Ends
  <2>2. QED BY <1>2, <2>1, DerivedLists
<1>4. /\ g \in Graphs /\ NoOverlap(g) /\ Skeleton(g) = Skeleton(pdag) /\ ListsHold(g)
      /\ g.edges \subseteq pdag.edges /\ \A a \in fromInterface : Ends(a) \notin g.edges
  <2>1. fromInterface \in SUBSET Arcs /\ fromInterface \cap restrictions.arcBlacklist = {}
    BY <1>3
  <2> HIDE DEF fromInterface
  <2>2. QED BY <1>2, <2>1, DirectKeeps
<1> HIDE DEF g
<1>5. opposite \in SUBSET Arcs /\ opposite \cap restrictions.arcBlacklist = {}
  <2>1. \A a \in restrictions.arcBlacklist : Reverse(a) \in Arcs /\ Reverse(a) \notin restrictions.arcBlacklist
    BY <1>2, ReverseArc, DerivedLists
  <2>2. QED BY <2>1
<1>6. \A a \in restrictions.arcBlacklist : Ends(a) \in g.edges => Reverse(a) \in opposite
  OBVIOUS
<1> HIDE DEF opposite
<1>7. /\ pdag' \in Graphs /\ NoOverlap(pdag') /\ Skeleton(pdag') = Skeleton(g) /\ ListsHold(pdag')
      /\ pdag'.edges \subseteq g.edges /\ \A a \in opposite : Ends(a) \notin pdag'.edges
  BY <1>1, <1>2, <1>4, <1>5, DirectKeeps
<1>8. \A a \in restrictions.arcBlacklist : Ends(a) \notin pdag'.edges
  BY <1>2, <1>6, <1>7, ReverseArc
<1>9. ASSUME NEW e \in pdag'.edges, NEW x \in e, x \in task.interface
      PROVE  FALSE
  <2>1. e \in pdag.edges /\ e \in g.edges /\ e \in Edges
    BY <1>2, <1>4, <1>7
  <2>2. PICK y \in Nodes : x \in Nodes /\ y # x /\ e = {x, y}
    BY <2>1, EdgeEnds
  <2>3. <<x, y>> \in Arcs /\ Ends(<<x, y>>) = e
    BY <2>2 DEF Arcs, Ends
  <2>4. <<x, y>> \in fromInterface
    BY <1>9, <2>1, <2>3
  <2>5. QED BY <1>4, <2>1, <2>3, <2>4
<1>10. NoneForced(pdag')
  BY <1>8, <1>9 DEF NoneForced
<1>11. evaluated' \in [Nodes -> SUBSET Edges] /\ ChildApart'
       /\ toCheck' \subseteq Arcs /\ nextNode' \in Nat /\ changed' \in BOOLEAN
  BY <1>1 DEF OrientationInv, ChildApart
<1>12. phase \in {"found"} \cup Oriented /\ phase' \in Oriented
  BY <1>1 DEF Oriented
<1>13. QED BY <1>1, <1>4, <1>7, <1>10, <1>11, <1>12, OrientedStep

LEMMA EvaluateStep ==
    ASSUME OrientationInv, NEW sepset, EvaluateVStructures(sepset)
    PROVE  OrientationInv' /\ Steady
<1>1. /\ phase = "evaluate" /\ phase' \in {"crashed", "vstructures"}
      /\ UNCHANGED <<task, restrictions, pdag, toCheck, nextNode, changed>>
      /\ \/ evaluated' = evaluated
         \/ evaluated' = [x \in Nodes |->
                IF x \in task.nodes THEN VStructuresAt(sepset, pdag, x) ELSE {}]
  BY DEF EvaluateVStructures, problem, rulesState
<1>2. /\ pdag \in Graphs /\ NoOverlap(pdag) /\ ListsHold(pdag) /\ NoneForced(pdag)
  BY <1>1 DEF OrientationInv, Oriented
<1>3. ASSUME NEW x \in Nodes, NEW pq \in VStructuresAt(sepset, pdag, x)
      PROVE  pq \in Edges /\ x \notin pq
  <2>1. \E found : pq \in CandidatePairs(pdag, x) \cup MixedPairs(pdag, x, found)
    BY <1>3 DEF VStructuresAt
  <2>2. QED BY <1>2, <2>1, EvaluatedPairs
<1>4. evaluated' \in [Nodes -> SUBSET Edges] /\ ChildApart'
  BY <1>1, <1>3 DEF OrientationInv, ChildApart
<1>5. phase \in {"found"} \cup Oriented /\ phase' \in Oriented
  BY <1>1 DEF Oriented
<1>6. toCheck' \subseteq Arcs /\ nextNode' \in Nat /\ changed' \in BOOLEAN
  BY <1>1 DEF OrientationInv
<1>7. /\ pdag' \in Graphs /\ NoOverlap(pdag') /\ Skeleton(pdag') = Skeleton(pdag)
      /\ ListsHold(pdag') /\ NoneForced(pdag')
  BY <1>1, <1>2
<1>8. QED BY <1>1, <1>4, <1>5, <1>6, <1>7, OrientedStep

LEMMA ApplyStep ==
    ASSUME OrientationInv, NEW child \in Nodes, ApplyAtChild(child)
    PROVE  OrientationInv' /\ Steady
<1>1. /\ phase = "vstructures" /\ phase' = "vstructures"
      /\ pdag' = ApplyVStructures(pdag, evaluated[child], child)
      /\ evaluated' = [evaluated EXCEPT ![child] = {}]
      /\ UNCHANGED <<task, restrictions, toCheck, nextNode, changed>>
  BY DEF ApplyAtChild, problem, rulesState
<1>2. pdag \in Graphs /\ NoOverlap(pdag) /\ ListsHold(pdag) /\ NoneForced(pdag)
  BY <1>1 DEF OrientationInv, Oriented
<1>3. evaluated[child] \in SUBSET Edges /\ \A pq \in evaluated[child] : child \notin pq
  BY DEF OrientationInv, ChildApart
<1>4. /\ pdag' \in Graphs /\ NoOverlap(pdag') /\ Skeleton(pdag') = Skeleton(pdag)
      /\ ListsHold(pdag') /\ NoneForced(pdag')
  BY <1>1, <1>2, <1>3, ApplyKeeps
<1>5. evaluated' \in [Nodes -> SUBSET Edges] /\ ChildApart'
  BY <1>1 DEF OrientationInv, ChildApart
<1>6. toCheck' \subseteq Arcs /\ nextNode' \in Nat /\ changed' \in BOOLEAN
  BY <1>1 DEF OrientationInv
<1>7. phase \in {"found"} \cup Oriented /\ phase' \in Oriented
  BY <1>1 DEF Oriented
<1>8. QED BY <1>1, <1>4, <1>5, <1>6, <1>7, OrientedStep

\* A round of the rules starts on all arcs of the graph.
LEMMA RoundStep ==
    ASSUME OrientationInv, phase \in Oriented, StartRound
    PROVE  OrientationInv' /\ Steady
<1>1. /\ phase' = "rule1" /\ toCheck' = pdag.arcs /\ changed' = FALSE
      /\ UNCHANGED <<task, restrictions, pdag, evaluated, nextNode>>
  BY DEF StartRound, problem
<1>2. toCheck' \subseteq Arcs /\ nextNode' \in Nat /\ changed' \in BOOLEAN
  BY <1>1 DEF OrientationInv, Graphs
<1>3. phase' \in Oriented
  BY <1>1 DEF Oriented
<1>4. QED BY <1>1, <1>2, <1>3, QuietStep

LEMMA RulesStep ==
    ASSUME OrientationInv,
           AllApplied \/ Rule1 \/ Rule2 \/ (\E n \in Nodes : Rule3(n)) \/ EndRound
    PROVE  OrientationInv' /\ Steady
<1> USE DEF Oriented
<1>1. toCheck \subseteq Arcs /\ nextNode \in Nat /\ changed \in BOOLEAN
  BY DEF OrientationInv
<1>2. CASE AllApplied
  BY <1>2, RoundStep DEF AllApplied
<1>3. CASE Rule1
  <2> DEFINE new == Rule1Arcs(pdag, toCheck)
  <2>1. /\ phase = "rule1" /\ phase' \in {"rule1", "rule2"}
        /\ pdag' = DirectAll(pdag, new) /\ toCheck' = new
        /\ changed' = (changed \/ new # {})
        /\ UNCHANGED <<task, restrictions, evaluated, nextNode>>
    BY <1>3 DEF Rule1, problem
  <2>2. new \in SUBSET Arcs /\ \A a \in new : Ends(a) \in pdag.edges
    BY DEF Rule1Arcs
  <2>3. changed' \in BOOLEAN
    BY <2>1
  <2> HIDE DEF new
  <2>4. QED BY <1>1, <2>1, <2>2, <2>3, DirectStep
<1>4. CASE Rule2
  <2> DEFINE new == Rule2Arcs(pdag)
  <2>1. /\ phase = "rule2" /\ phase' = "rule3"
        /\ pdag' = DirectAll(pdag, new) /\ nextNode' = 0
        /\ changed' = (changed \/ new # {})
        /\ UNCHANGED <<task, restrictions, evaluated, toCheck>>
    BY <1>4 DEF Rule2, problem
  <2>2. new \in SUBSET Arcs /\ \A a \in new : Ends(a) \in pdag.edges
    BY DEF Rule2Arcs
  <2>3. changed' \in BOOLEAN
    BY <2>1
  <2> HIDE DEF new
  <2>4. QED BY <1>1, <2>1, <2>2, <2>3, DirectStep
<1>5. ASSUME NEW n \in Nodes, Rule3(n)
      PROVE  OrientationInv' /\ Steady
  <2> DEFINE new == Rule3Arcs(pdag, n)
  <2>1. /\ phase = "rule3" /\ phase' = "rule3"
        /\ pdag' = DirectAll(pdag, new) /\ nextNode' = n + 1 /\ changed' = TRUE
        /\ UNCHANGED <<task, restrictions, evaluated, toCheck>>
    BY <1>5 DEF Rule3, problem
  <2>2. new \in SUBSET Arcs /\ \A a \in new : Ends(a) \in pdag.edges
    BY DEF Rule3Arcs
  <2>3. nextNode' \in Nat
    BY <2>1, NodesAssumption
  <2> HIDE DEF new
  <2>4. QED BY <1>1, <2>1, <2>2, <2>3, DirectStep
<1>6. CASE EndRound
  <2>1. phase = "rule3"
    BY <1>6 DEF EndRound
  <2>2. \/ StartRound
        \/ /\ phase' = "done"
           /\ UNCHANGED <<task, restrictions, pdag, evaluated, toCheck, nextNode, changed>>
    BY <1>6 DEF EndRound, problem, rulesState
  <2>3. QED BY <1>1, <2>1, <2>2, RoundStep, QuietStep
<1>7. QED BY <1>2, <1>3, <1>4, <1>5, <1>6

\* Only the evaluation ends the program, where it asks for a separating set that
\* nobody has recorded.
LEMMA OrientStep ==
    ASSUME OrientationInv, NEW sepset, Orient(sepset)
    PROVE  /\ OrientationInv' /\ Steady
           /\ phase' = "crashed" =>
                 /\ phase = "evaluate" /\ UNCHANGED pdag
                 /\ task.useSepsets /\ \E pq \in LookedUp(sepset, pdag) : sepset[pq] = {}
<1>1. OrientationInv' /\ Steady
  BY RestrictedStep, EvaluateStep, ApplyStep, RulesStep DEF Orient
<1>2. ASSUME phase' = "crashed"
      PROVE  EvaluateVStructures(sepset)
  BY <1>2 DEF Orient, DirectRestricted, ApplyAtChild, AllApplied, StartRound, Rule1, Rule2,
              Rule3, EndRound
<1>3. phase' = "crashed" =>
         /\ phase = "evaluate" /\ UNCHANGED pdag
         /\ task.useSepsets /\ \E pq \in LookedUp(sepset, pdag) : sepset[pq] = {}
  BY <1>2 DEF EvaluateVStructures
<1>4. QED BY <1>1, <1>3

-------------------------------------------------------------------------------
(* Relations between nodes: J is the set of the arcs, in both directions,  *)
(* of the joined pairs; f, d and D are sets of arcs of J.                  *)

Symmetric(J) == J \subseteq Arcs /\ \A x, y \in Nodes : <<x, y>> \in J => <<y, x>> \in J

\* f gives each joined pair one direction.
Orients(f, J) ==
    /\ f \subseteq J
    /\ \A x, y \in Nodes : <<x, y>> \in J => (<<x, y>> \in f <=> <<y, x>> \notin f)

\* The arcs of f that are in a v-structure.
Unshielded(f, J) ==
    {a \in f : \E y \in Nodes : y # a[1] /\ <<y, a[2]>> \in f /\ <<a[1], y>> \notin J}

\* x and y are joined and neither direction is in D.
Open(J, D, x, y) == <<x, y>> \in J /\ <<x, y>> \notin D /\ <<y, x>> \notin D

\* What acyclic means for a set of arcs.
LEMMA AcyclicArcs ==
    ASSUME NEW A
    PROVE  ArcsAcyclic(A) <=>
              \A S \in SUBSET Nodes : S # {} => \E n \in S : \A m \in S : <<n, m>> \notin A
<1> DEFINE ch == [x \in Nodes |-> {y \in Nodes : <<x, y>> \in A}]
<1>1. \A S \in SUBSET Nodes, n \in Nodes : n \in S =>
         (ch[n] \cap S = {} <=> \A m \in S : <<n, m>> \notin A)
  OBVIOUS
<1>2. ArcsAcyclic(A) <=> \A S \in SUBSET Nodes : S # {} => \E n \in S : ch[n] \cap S = {}
  BY DEF ArcsAcyclic, Acyclic
<1> HIDE DEF ch
<1>3. QED BY <1>1, <1>2

\* An acyclic graph has no cycle of two or three arcs.
LEMMA NoShortCycle ==
    ASSUME NEW A, ArcsAcyclic(A), NEW x \in Nodes, NEW y \in Nodes, NEW z \in Nodes
    PROVE  /\ <<x, y>> \in A => <<y, x>> \notin A
           /\ <<x, y>> \in A /\ <<y, z>> \in A => <<z, x>> \notin A
<1>1. \A S \in SUBSET Nodes : S # {} => \E n \in S : \A m \in S : <<n, m>> \notin A
  BY AcyclicArcs
<1>2. PICK n \in {x, y} : \A m \in {x, y} : <<n, m>> \notin A
  <2>1. {x, y} \in SUBSET Nodes /\ {x, y} # {}
    OBVIOUS
  <2>2. QED BY <1>1, <2>1
<1>3. PICK p \in {x, y, z} : \A m \in {x, y, z} : <<p, m>> \notin A
  <2>1. {x, y, z} \in SUBSET Nodes /\ {x, y, z} # {}
    OBVIOUS
  <2>2. QED BY <1>1, <2>1
<1>4. QED BY <1>2, <1>3

\* A graph in which every set of nodes has a source is acyclic.
LEMMA SourcesAcyclic ==
    ASSUME NEW A,
           \A S \in SUBSET Nodes : S # {} => \E n \in S : \A m \in S : <<m, n>> \notin A
    PROVE  ArcsAcyclic(A)
<1> DEFINE pa == [x \in Nodes |-> {y \in Nodes : <<y, x>> \in A}]
<1>1. Acyclic(Nodes, pa)
  <2>1. ASSUME NEW S \in SUBSET Nodes, S # {}
        PROVE  \E n \in S : pa[n] \cap S = {}
    <3>1. PICK n \in S : \A m \in S : <<m, n>> \notin A
      BY <2>1
    <3>2. pa[n] \cap S = {}
      BY <3>1
    <3>3. QED BY <3>2
  <2>2. QED BY <2>1 DEF Acyclic
<1>2. ASSUME NEW S \in SUBSET Nodes, S # {}
      PROVE  \E n \in S : \A m \in S : <<n, m>> \notin A
  <2>1. PICK n \in S : \A m \in S : n \notin pa[m]
    <3> HIDE DEF pa
    <3>1. QED BY <1>1, <1>2, NodesAssumption, AcyclicHasSource
  <2>2. QED BY <2>1
<1>3. QED BY <1>2, AcyclicArcs

\* An acyclic graph has a source in every set of nodes.
LEMMA AcyclicSources ==
    ASSUME NEW A, ArcsAcyclic(A), NEW S \in SUBSET Nodes, S # {}
    PROVE  \E n \in S : \A m \in S : <<m, n>> \notin A
<1> DEFINE ch == [x \in Nodes |-> {y \in Nodes : <<x, y>> \in A}]
<1>1. Acyclic(Nodes, ch)
  BY DEF ArcsAcyclic
<1>2. PICK n \in S : \A m \in S : n \notin ch[m]
  <2> HIDE DEF ch
  <2>1. QED BY <1>1, NodesAssumption, AcyclicHasSource
<1>3. QED BY <1>2

-------------------------------------------------------------------------------
(* Arcs that follow from v-structures by the rules of Meek, and graphs in  *)
(* which no rule applies.                                                  *)

\* x -> y follows from the arcs of C by a rule, or is in a v-structure of V.
ByRule1(C, J, V, x, y) ==
    \E z \in Nodes : <<z, x>> \in C /\ z # y /\ <<z, y>> \notin J /\ <<y, x>> \notin V
ByRule2(C, x, y) == \E z \in Nodes : <<x, z>> \in C /\ <<z, y>> \in C
ByRule3(C, J, V, x, y) ==
    \E u, v \in Nodes : /\ <<u, y>> \in C /\ <<v, y>> \in C /\ u # v /\ <<u, v>> \notin J
                        /\ <<x, u>> \in J /\ <<x, v>> \in J
                        /\ <<u, x>> \notin V
Follows(C, J, V, x, y) ==
    <<x, y>> \in V \/ ByRule1(C, J, V, x, y) \/ ByRule2(C, x, y) \/ ByRule3(C, J, V, x, y)

\* The arcs of D follow from each other, none of them in a circle.
Justified(D, J, V) ==
    /\ D \subseteq J
    /\ \A B \in SUBSET D : B # {} =>
          \E x, y \in Nodes : <<x, y>> \in B /\ Follows(D \ B, J, V, x, y)

\* No rule finds an arc that is not in D.
RulesDone(J, D) ==
    /\ \A x, y, z \in Nodes : <<x, y>> \in D /\ Open(J, D, y, z) /\ x # z => <<x, z>> \in J
    /\ \A x, y, z \in Nodes : <<x, y>> \in D /\ <<y, z>> \in D => ~Open(J, D, x, z)
    /\ \A x, y, u, v \in Nodes :
          /\ Open(J, D, x, y) /\ Open(J, D, x, u) /\ Open(J, D, x, v)
          /\ <<u, y>> \in D /\ <<v, y>> \in D /\ u # v
          => <<u, v>> \in J

\* What follows from the v-structures is in every graph of the class.
LEMMA FollowsInClass ==
    ASSUME NEW J, Symmetric(J), NEW f, Orients(f, J), ArcsAcyclic(f),
           NEW D, Justified(D, J, Unshielded(f, J))
    PROVE  D \subseteq f
<1> DEFINE V == Unshielded(f, J)
           B == D \ f
<1>1. SUFFICES ASSUME B # {} PROVE FALSE
  OBVIOUS
<1>2. V \subseteq f /\ \A a \in Nodes, b \in Nodes, c \in Nodes :
         a # b /\ <<a, c>> \in f /\ <<b, c>> \in f /\ <<a, b>> \notin J => <<a, c>> \in V
  BY DEF Unshielded
<1> HIDE DEF V
<1>3. PICK x \in Nodes, y \in Nodes : <<x, y>> \in B /\ Follows(D \ B, J, V, x, y)
  <2>1. B \in SUBSET D
    OBVIOUS
  <2> HIDE DEF B
  <2>2. QED BY <1>1, <2>1 DEF Justified, V
<1>4. <<x, y>> \in J /\ <<x, y>> \notin f /\ <<y, x>> \in f
  BY <1>3 DEF Justified, Orients
<1>5. D \ B \subseteq f
  OBVIOUS
<1>6. \A a, b \in Nodes : <<a, b>> \in J => <<b, a>> \in J
  BY DEF Symmetric
<1>7. ~ByRule1(D \ B, J, V, x, y)
  <2>1. ASSUME NEW z \in Nodes, <<z, x>> \in f, z # y, <<z, y>> \notin J
        PROVE  <<y, x>> \in V
    BY <2>1, <1>2, <1>4, <1>6
  <2>2. QED BY <2>1, <1>5 DEF ByRule1
<1>8. ~ByRule2(D \ B, x, y)
  BY <1>4, <1>5, NoShortCycle DEF ByRule2
<1>9. ~ByRule3(D \ B, J, V, x, y)
  <2>1. ASSUME NEW u \in Nodes, NEW v \in Nodes, <<u, y>> \in f, <<v, y>> \in f,
               u # v, <<u, v>> \notin J, <<x, u>> \in J, <<x, v>> \in J
        PROVE  <<u, x>> \in V
    <3>1. <<x, u>> \notin f /\ <<x, v>> \notin f
      BY <1>4, <2>1, NoShortCycle
    <3>2. <<u, x>> \in f /\ <<v, x>> \in f
      BY <1>6, <2>1, <3>1 DEF Orients
    <3>3. QED BY <1>2, <2>1, <3>2
  <2>2. QED BY <2>1, <1>5 DEF ByRule3
<1>10. QED BY <1>2, <1>3, <1>4, <1>7, <1>8, <1>9 DEF Follows

\* D is what the rules make of the v-structures of d.
Completed(d, J, D) ==
    /\ Symmetric(J) /\ Orients(d, J) /\ ArcsAcyclic(d)
    /\ Unshielded(d, J) \subseteq D
    /\ Justified(D, J, Unshielded(d, J))
    /\ RulesDone(J, D)

LEMMA CompletedFacts ==
    ASSUME NEW d, NEW J, NEW D, Completed(d, J, D)
    PROVE  /\ D \subseteq d /\ D \subseteq J /\ J \subseteq Arcs
           /\ \A x, y \in Nodes : <<x, y>> \in J => <<y, x>> \in J
           /\ \A x, y \in Nodes : <<x, y>> \in J => x # y
           /\ \A x, y \in Nodes : <<x, y>> \in J => <<x, y>> \in D \/ <<y, x>> \in D \/ Open(J, D, x, y)
           /\ \A x, y \in Nodes : Open(J, D, x, y) => Open(J, D, y, x)
           /\ \A x, y, z \in Nodes :
                 x # y /\ <<x, z>> \in d /\ <<y, z>> \in d /\ <<x, y>> \notin J => <<x, z>> \in D
<1>1. D \subseteq d
  BY FollowsInClass DEF Completed
<1>2. /\ D \subseteq J /\ J \subseteq Arcs
      /\ \A x, y \in Nodes : <<x, y>> \in J => <<y, x>> \in J
  BY DEF Completed, Symmetric, Justified
<1>3. \A x, y \in Nodes : <<x, y>> \in J => x # y
  BY <1>2 DEF Arcs
<1>4. \A x, y, z \in Nodes :
         x # y /\ <<x, z>> \in d /\ <<y, z>> \in d /\ <<x, y>> \notin J => <<x, z>> \in D
  BY DEF Completed, Unshielded
<1>5. QED BY <1>1, <1>2, <1>3, <1>4 DEF Open

\* Where no rule applies, an arc into the end of an open pair leads to its other end
\* as well.
LEMMA ArcsIntoOpenPairs ==
    ASSUME NEW d, NEW J, NEW D, Completed(d, J, D),
           NEW x \in Nodes, NEW y \in Nodes, NEW z \in Nodes,
           <<x, y>> \in D, Open(J, D, y, z)
    PROVE  <<x, z>> \in D
<1> DEFINE V == Unshielded(d, J)
           Bad(a, b) == \E c \in Nodes : Open(J, D, b, c) /\ Open(J, D, a, c)
           B == {a \in D : Bad(a[1], a[2])}
<1>1. /\ D \subseteq d /\ D \subseteq J /\ J \subseteq Arcs /\ V \subseteq D
      /\ \A a, b \in Nodes : <<a, b>> \in J => <<b, a>> \in J
      /\ \A a, b \in Nodes : <<a, b>> \in J => a # b
      /\ \A a, b \in Nodes : <<a, b>> \in J => <<a, b>> \in D \/ <<b, a>> \in D \/ Open(J, D, a, b)
      /\ \A a, b \in Nodes : Open(J, D, a, b) => Open(J, D, b, a)
      /\ \A a, b, c \in Nodes :
            a # b /\ <<a, c>> \in d /\ <<b, c>> \in d /\ <<a, b>> \notin J => <<a, c>> \in V
  <2>1. V \subseteq D
    BY DEF Completed
  <2>2. \A a, b, c \in Nodes :
           a # b /\ <<a, c>> \in d /\ <<b, c>> \in d /\ <<a, b>> \notin J => <<a, c>> \in V
    BY DEF Unshielded
  <2> HIDE DEF V
  <2>3. QED BY <2>1, <2>2, CompletedFacts
<1>2. \A a, b \in Nodes : Open(J, D, a, b) => <<a, b>> \in J /\ <<a, b>> \notin D /\ <<b, a>> \notin D
  BY DEF Open
<1>3. /\ \A a, b, c \in Nodes : <<a, b>> \in D /\ Open(J, D, b, c) /\ a # c => <<a, c>> \in J
      /\ \A a, b, c \in Nodes : <<a, b>> \in D /\ <<b, c>> \in D => ~Open(J, D, a, c)
      /\ \A a, b, u, v \in Nodes :
            /\ Open(J, D, a, b) /\ Open(J, D, a, u) /\ Open(J, D, a, v)
            /\ <<u, b>> \in D /\ <<v, b>> \in D /\ u # v
            => <<u, v>> \in J
  BY DEF Completed, RulesDone
<1>4. \A b \in V : b = <<b[1], b[2]>> /\ b[1] \in Nodes /\ b[2] \in Nodes
  BY <1>1 DEF Arcs
<1>5. ASSUME NEW a \in Nodes, NEW b \in Nodes, <<a, b>> \in V
      PROVE  \E q \in Nodes : q # a /\ <<q, b>> \in D /\ <<a, q>> \notin J
  <2>1. PICK q \in Nodes : q # a /\ <<q, b>> \in d /\ <<a, q>> \notin J
    BY <1>5 DEF Unshielded
  <2>2. <<a, b>> \in d /\ <<q, a>> \notin J
    BY <1>1, <1>5, <2>1
  <2>3. <<q, b>> \in V
    BY <1>1, <2>1, <2>2
  <2>4. QED BY <1>1, <2>1, <2>3
<1> HIDE DEF V
<1>6. ASSUME NEW a \in Nodes, NEW b \in Nodes, NEW c \in Nodes, <<a, b>> \in D,
             Open(J, D, b, c), Open(J, D, a, c),
             NEW q \in Nodes, <<q, b>> \in D, ~Bad(q, b), q # a
      PROVE  <<q, c>> \in D
  <2>1. q # c
    BY <1>2, <1>6
  <2>2. <<q, c>> \in J
    BY <1>3, <1>6, <2>1
  <2>3. ~Open(J, D, q, c)
    BY <1>6
  <2>4. <<c, q>> \notin D
    BY <1>1, <1>3, <1>6
  <2>5. QED BY <1>1, <2>2, <2>3, <2>4
<1>7. B = {}
  <2>1. SUFFICES ASSUME B # {} PROVE FALSE
    OBVIOUS
  <2>2. PICK a \in Nodes, b \in Nodes : <<a, b>> \in B /\ Follows(D \ B, J, V, a, b)
    <3>1. B \in SUBSET D
      OBVIOUS
    <3> HIDE DEF B
    <3>2. QED BY <2>1, <3>1 DEF Completed, Justified, V
  <2>3. PICK c \in Nodes : Open(J, D, b, c) /\ Open(J, D, a, c)
    BY <2>2
  <2>4. <<a, b>> \in D
    BY <2>2
  <2>5. \A p, q \in Nodes : <<p, q>> \in D \ B => <<p, q>> \in D /\ ~Bad(p, q)
    OBVIOUS
  <2> HIDE DEF B
  <2>6. <<a, b>> \notin V
    <3>1. SUFFICES ASSUME <<a, b>> \in V PROVE FALSE
      OBVIOUS
    <3>2. PICK q \in Nodes : q # a /\ <<q, b>> \in D /\ <<a, q>> \notin J
      BY <1>5, <3>1
    <3>3. q # c /\ <<q, c>> \in J
      BY <1>2, <1>3, <2>3, <3>2
    <3>4. CASE Open(J, D, q, c)
      <4>1. Open(J, D, c, b) /\ Open(J, D, c, a) /\ Open(J, D, c, q)
        BY <1>1, <2>3, <3>4
      <4>2. QED BY <1>3, <2>4, <3>2, <4>1
    <3>5. CASE <<c, q>> \in D
      BY <1>1, <1>3, <2>3, <3>2, <3>5
    <3>6. CASE <<q, c>> \in D
      BY <1>1, <1>3, <2>3, <3>2, <3>6
    <3>7. QED BY <1>1, <3>3, <3>4, <3>5, <3>6
  <2>7. ~ByRule1(D \ B, J, V, a, b)
    <3>1. SUFFICES ASSUME NEW q \in Nodes, <<q, a>> \in D, ~Bad(q, a), q # b, <<q, b>> \notin J
                   PROVE  FALSE
      BY <2>5 DEF ByRule1
    <3>2. q # c /\ <<q, c>> \in J
      BY <1>2, <1>3, <2>3, <3>1
    <3>3. ~Open(J, D, q, c)
      BY <2>3, <3>1
    <3>4. CASE <<c, q>> \in D
      BY <1>1, <1>3, <2>3, <3>1, <3>4
    <3>5. CASE <<q, c>> \in D
      BY <1>1, <1>3, <2>3, <3>1, <3>5
    <3>6. QED BY <1>1, <3>2, <3>3, <3>4, <3>5
  <2>8. ~ByRule2(D \ B, a, b)
    <3>1. SUFFICES ASSUME NEW q \in Nodes, <<a, q>> \in D, <<q, b>> \in D, ~Bad(q, b)
                   PROVE  FALSE
      BY <2>5 DEF ByRule2
    <3>2. q # a
      BY <1>1, <3>1
    <3>3. <<q, c>> \in D
      BY <1>6, <2>3, <2>4, <3>1, <3>2
    <3>4. QED BY <1>3, <2>3, <3>1, <3>3
  <2>9. ~ByRule3(D \ B, J, V, a, b)
    <3>1. SUFFICES ASSUME NEW u \in Nodes, NEW v \in Nodes, <<u, b>> \in D, ~Bad(u, b),
                          <<v, b>> \in D, ~Bad(v, b), u # v, <<u, v>> \notin J,
                          <<a, u>> \in J, <<a, v>> \in J, <<u, a>> \notin V
                   PROVE  FALSE
      BY <2>5 DEF ByRule3
    <3>2. u # a /\ v # a
      BY <1>1, <3>1
    <3>3. <<u, c>> \in D /\ <<v, c>> \in D
      BY <1>6, <2>3, <2>4, <3>1, <3>2
    <3>4. <<a, u>> \notin D /\ <<a, v>> \notin D
      BY <1>3, <2>3, <3>3
    <3>5. ~(Open(J, D, a, u) /\ Open(J, D, a, v))
      BY <1>3, <2>3, <3>1, <3>3
    <3>6. ~(<<u, a>> \in D /\ <<v, a>> \in D)
      BY <1>1, <3>1
    <3>7. ~(<<u, a>> \in D /\ Open(J, D, a, v))
      BY <1>3, <3>1
    <3>8. ~(<<v, a>> \in D /\ Open(J, D, a, u))
      BY <1>1, <1>3, <3>1
    <3>9. QED BY <1>1, <3>1, <3>4, <3>5, <3>6, <3>7, <3>8
  <2>10. QED BY <2>2, <2>6, <2>7, <2>8, <2>9 DEF Follows
<1>8. x # z
  BY <1>1, <1>2
<1>9. <<x, z>> \in J
  BY <1>3, <1>8
<1>10. ~Open(J, D, x, z)
  <2>1. Open(J, D, x, z) => <<x, y>> \in B
    OBVIOUS
  <2> HIDE DEF B
  <2>2. QED BY <1>7, <2>1
<1>11. <<z, x>> \notin D
  BY <1>1, <1>3
<1>12. QED BY <1>1, <1>9, <1>10, <1>11

-------------------------------------------------------------------------------
(* Orders of the nodes.  E holds joined pairs, in both directions.         *)

StrictOrder(L) ==
    /\ \A x \in Nodes : <<x, x>> \notin L
    /\ \A x, y \in Nodes : x # y => <<x, y>> \in L \/ <<y, x>> \in L
    /\ \A x, y, z \in Nodes : <<x, y>> \in L /\ <<y, z>> \in L => <<x, z>> \in L

\* On the nodes of S, the joined predecessors of a node are joined to each other.
Perfect(E, L, S) ==
    \A p, q, c \in S :
        /\ p # q /\ <<p, c>> \in E /\ <<q, c>> \in E /\ <<p, c>> \in L /\ <<q, c>> \in L
        => <<p, q>> \in E

Clique(E, K) == \A x, y \in K : x # y => <<x, y>> \in E

\* The nodes of K come before the others of S.
First(L, K, S) == \A k \in K, x \in S \ K : <<k, x>> \in L

\* A strict order has a least member in every set of nodes.
LEMMA LeastMember ==
    ASSUME NEW L, StrictOrder(L), NEW S \in SUBSET Nodes, S # {}
    PROVE  \E m \in S : \A x \in S : <<x, m>> \notin L
<1> DEFINE Bad == {T \in SUBSET Nodes : T # {} /\ \A m \in T : \E x \in T : <<x, m>> \in L}
<1>1. SUFFICES ASSUME S \in Bad PROVE FALSE
  OBVIOUS
<1>2. PICK T \in Bad : \A x \in T : T \ {x} \notin Bad
  <2>1. Bad \in SUBSET SUBSET Nodes /\ Bad # {}
    BY <1>1
  <2> HIDE DEF Bad
  <2>2. QED BY <2>1, NodesAssumption, MinimalSet
<1>3. T \in SUBSET Nodes /\ T # {} /\ \A m \in T : \E x \in T : <<x, m>> \in L
  BY <1>2
<1>4. PICK x \in T : TRUE
  BY <1>3
<1>5. PICK z \in T : <<z, x>> \in L
  BY <1>3
<1>6. T \ {x} \in SUBSET Nodes /\ T \ {x} # {}
  BY <1>3, <1>5 DEF StrictOrder
<1>7. PICK m \in T \ {x} : \A w \in T \ {x} : <<w, m>> \notin L
  BY <1>2, <1>6
<1>8. <<x, m>> \in L
  BY <1>3, <1>7
<1>9. <<z, m>> \in L /\ z # x
  BY <1>3, <1>5, <1>7, <1>8 DEF StrictOrder
<1>10. QED BY <1>5, <1>7, <1>9

\* The order L with the nodes of K first and then s.
Promote(L, K, s) ==
    {a \in Nodes \X Nodes :
        \/ a[1] \in K /\ a[2] \notin K
        \/ a[1] = s /\ a[2] \notin K /\ a[2] # s
        \/ a \in L /\ a[1] \in K /\ a[2] \in K
        \/ a \in L /\ a[1] \notin K \cup {s} /\ a[2] \notin K \cup {s}}

\* The order L with the node s last.
Demote(L, s) ==
    {a \in Nodes \X Nodes : (a[2] = s /\ a[1] # s) \/ (a \in L /\ a[1] # s /\ a[2] # s)}

LEMMA PromoteFacts ==
    ASSUME NEW L, StrictOrder(L), NEW K \in SUBSET Nodes, NEW s \in Nodes, s \notin K
    PROVE  /\ StrictOrder(Promote(L, K, s))
           /\ \A x, y \in Nodes : <<x, y>> \in Promote(L, K, s) <=>
                 \/ x \in K /\ y \notin K
                 \/ x = s /\ y \notin K /\ y # s
                 \/ <<x, y>> \in L /\ x \in K /\ y \in K
                 \/ <<x, y>> \in L /\ x \notin K \cup {s} /\ y \notin K \cup {s}
<1>1. \A x, y \in Nodes : <<x, y>> \in Promote(L, K, s) <=>
         \/ x \in K /\ y \notin K
         \/ x = s /\ y \notin K /\ y # s
         \/ <<x, y>> \in L /\ x \in K /\ y \in K
         \/ <<x, y>> \in L /\ x \notin K \cup {s} /\ y \notin K \cup {s}
  BY DEF Promote
<1>2. QED BY <1>1 DEF StrictOrder

LEMMA DemoteFacts ==
    ASSUME NEW L, StrictOrder(L), NEW s \in Nodes
    PROVE  /\ StrictOrder(Demote(L, s))
           /\ \A x, y \in Nodes : <<x, y>> \in Demote(L, s) <=>
                 (y = s /\ x # s) \/ (<<x, y>> \in L /\ x # s /\ y # s)
<1>1. \A x, y \in Nodes : <<x, y>> \in Demote(L, s) <=>
         (y = s /\ x # s) \/ (<<x, y>> \in L /\ x # s /\ y # s)
  BY DEF Demote
<1>2. QED BY <1>1 DEF StrictOrder

\* In an order where the joined predecessors of each node are joined, a node whose
\* neighbours are joined can be put last.
LEMMA LastNode ==
    ASSUME NEW E, Symmetric(E), NEW S \in SUBSET Nodes, NEW s \in S,
           Clique(E, {x \in S : <<x, s>> \in E}),
           NEW K \in SUBSET (S \ {s}),
           NEW L, StrictOrder(L), Perfect(E, L, S \ {s}), First(L, K, S \ {s})
    PROVE  \E M : StrictOrder(M) /\ Perfect(E, M, S) /\ First(M, K, S)
<1> DEFINE M == Demote(L, s)
<1>1. s \in Nodes
  OBVIOUS
<1>2. /\ StrictOrder(M)
      /\ \A x, y \in Nodes : <<x, y>> \in M <=> (y = s /\ x # s) \/ (<<x, y>> \in L /\ x # s /\ y # s)
  BY <1>1, DemoteFacts
<1> HIDE DEF M
<1>3. Perfect(E, M, S)
  <2>1. SUFFICES ASSUME NEW p \in S, NEW q \in S, NEW c \in S, p # q, <<p, c>> \in E, <<q, c>> \in E,
                        <<p, c>> \in M, <<q, c>> \in M
                 PROVE  <<p, q>> \in E
    BY DEF Perfect
  <2>2. CASE c = s
    BY <2>1, <2>2 DEF Clique
  <2>3. CASE c # s
    BY <1>2, <2>1, <2>3 DEF Perfect
  <2>4. QED BY <2>2, <2>3
<1>4. First(M, K, S)
  <2>1. ASSUME NEW k \in K, NEW x \in S \ K
        PROVE  <<k, x>> \in M
    <3>1. k \in Nodes /\ x \in Nodes /\ k # s
      OBVIOUS
    <3>2. x # s => <<k, x>> \in L
      BY <2>1 DEF First
    <3>3. QED BY <1>2, <3>1, <3>2
  <2>2. QED BY <2>1, Zenon DEF First
<1>5. QED BY <1>2, <1>3, <1>4

\* It can also be put first together with some of its neighbours, if its neighbours
\* come first.
LEMMA FirstNode ==
    ASSUME NEW E, Symmetric(E), NEW S \in SUBSET Nodes, NEW s \in S,
           NEW C, C = {x \in S : <<x, s>> \in E}, Clique(E, C),
           NEW K \in SUBSET C,
           NEW L, StrictOrder(L), Perfect(E, L, S \ {s}), First(L, C, S \ {s})
    PROVE  \E M : StrictOrder(M) /\ Perfect(E, M, S) /\ First(M, K \cup {s}, S)
<1> DEFINE M == Promote(L, K, s)
<1>1. s \in Nodes /\ s \notin C /\ K \in SUBSET Nodes /\ s \notin K
      /\ \A x, y \in Nodes : <<x, y>> \in E => <<y, x>> \in E
  BY DEF Symmetric, Arcs
<1>2. /\ StrictOrder(M)
      /\ \A x, y \in Nodes : <<x, y>> \in M <=>
            \/ x \in K /\ y \notin K
            \/ x = s /\ y \notin K /\ y # s
            \/ <<x, y>> \in L /\ x \in K /\ y \in K
            \/ <<x, y>> \in L /\ x \notin K \cup {s} /\ y \notin K \cup {s}
  BY <1>1, PromoteFacts
<1> HIDE DEF M
<1>3. Perfect(E, M, S)
  <2>1. SUFFICES ASSUME NEW p \in S, NEW q \in S, NEW c \in S, p # q, <<p, c>> \in E, <<q, c>> \in E,
                        <<p, c>> \in M, <<q, c>> \in M
                 PROVE  <<p, q>> \in E
    BY DEF Perfect
  <2>2. CASE c \in K
    BY <1>1, <1>2, <2>1, <2>2 DEF Clique
  <2>3. CASE c = s
    BY <1>1, <1>2, <2>1, <2>3 DEF Clique
  <2>4. CASE c \in C \ K
    <3>1. ASSUME NEW r \in {p, q}
          PROVE  r \in C \cup {s}
      <4>1. r \in S /\ <<r, c>> \in M
        BY <2>1
      <4>2. CASE r \notin K \cup {s}
        <5>1. <<r, c>> \in L
          BY <1>1, <1>2, <2>4, <4>1, <4>2
        <5>2. r \notin C => <<c, r>> \in L
          BY <2>4, <4>1, <4>2 DEF First
        <5>3. <<c, r>> \notin L
          BY <4>1, <5>1 DEF StrictOrder
        <5>4. QED BY <5>2, <5>3
      <4>3. QED BY <4>2
    <3>2. QED BY <1>1, <2>1, <3>1 DEF Clique
  <2>5. CASE c \notin C \cup {s}
    <3>1. <<s, c>> \notin E
      BY <1>1, <2>5
    <3>2. p # s /\ q # s
      BY <2>1, <3>1
    <3>3. ASSUME NEW r \in {p, q}
          PROVE  <<r, c>> \in L
      <4>1. r \in S \ {s} /\ <<r, c>> \in M
        BY <2>1, <3>2
      <4>2. CASE r \in K
        BY <2>5, <4>1, <4>2 DEF First
      <4>3. QED BY <1>1, <1>2, <2>5, <4>1, <4>2
    <3>4. QED BY <2>1, <2>5, <3>2, <3>3 DEF Perfect
  <2>6. QED BY <2>2, <2>3, <2>4, <2>5
<1>4. First(M, K \cup {s}, S)
  <2>1. ASSUME NEW k \in K \cup {s}, NEW x \in S \ (K \cup {s})
        PROVE  <<k, x>> \in M
    <3>1. k \in Nodes /\ x \in Nodes /\ x \notin K /\ x # s
      BY <1>1
    <3>2. QED BY <1>2, <2>1, <3>1
  <2>2. QED BY <2>1, Zenon DEF First
<1>5. QED BY <1>2, <1>3, <1>4

\* An acyclic graph gives E, if the joined parents of each node are joined, a perfect
\* order that begins with any clique.
LEMMA PerfectOrder ==
    ASSUME NEW E, Symmetric(E), NEW d, ArcsAcyclic(d),
           \A x, y \in Nodes : <<x, y>> \in E => <<x, y>> \in d \/ <<y, x>> \in d,
           Perfect(E, d, Nodes),
           NEW K \in SUBSET Nodes, Clique(E, K)
    PROVE  \E L : StrictOrder(L) /\ Perfect(E, L, Nodes) /\ First(L, K, Nodes)
<1> DEFINE Ordered(S) == \A C \in SUBSET S : Clique(E, C) =>
               \E L : StrictOrder(L) /\ Perfect(E, L, S) /\ First(L, C, S)
           Bad == {S \in SUBSET Nodes : ~Ordered(S)}
<1>1. SUFFICES ASSUME Bad # {} PROVE FALSE
  <2>1. Bad = {} => Ordered(Nodes)
    OBVIOUS
  <2>2. QED BY <2>1
<1>2. PICK S \in Bad : \A x \in S : S \ {x} \notin Bad
  <2>1. Bad \in SUBSET SUBSET Nodes
    OBVIOUS
  <2> HIDE DEF Bad
  <2>2. QED BY <1>1, <2>1, NodesAssumption, MinimalSet
<1>3. S \in SUBSET Nodes /\ \A x \in S : Ordered(S \ {x})
  BY <1>2
<1>4. PICK C \in SUBSET S : Clique(E, C) /\ ~\E L : StrictOrder(L) /\ Perfect(E, L, S) /\ First(L, C, S)
  BY <1>2
<1> HIDE DEF Bad
<1>5. S # {}
  <2>1. SUFFICES ASSUME S = {} PROVE FALSE
    OBVIOUS
  <2> DEFINE L == {a \in Nodes \X Nodes : a[1] < a[2]}
  <2>2. ASSUME NEW x \in Nodes, NEW y \in Nodes
        PROVE  <<x, y>> \in L <=> x < y
    <3>1. <<x, y>> \in Nodes \X Nodes /\ <<x, y>>[1] = x /\ <<x, y>>[2] = y
      OBVIOUS
    <3>2. QED BY <3>1
  <2> HIDE DEF L
  <2>3. StrictOrder(L)
    BY <2>2, NodesAssumption DEF StrictOrder
  <2>4. Perfect(E, L, S) /\ First(L, C, S)
    BY <2>1 DEF Perfect, First
  <2>5. QED BY <1>4, <2>3, <2>4
<1>6. PICK s \in S : \A m \in S : <<s, m>> \notin d
  BY <1>3, <1>5, AcyclicArcs
<1> DEFINE N == {x \in S : <<x, s>> \in E}
<1>7. \A x \in N : <<x, s>> \in d
  <2>1. \A x \in N : <<x, s>> \in E /\ x \in Nodes /\ s \in Nodes /\ <<s, x>> \notin d
    BY <1>3, <1>6
  <2>2. QED BY <2>1
<1>8. Clique(E, N) /\ N \in SUBSET (S \ {s})
  <2>1. ASSUME NEW x \in N, NEW y \in N, x # y
        PROVE  <<x, y>> \in E
    <3>1. x \in Nodes /\ y \in Nodes /\ s \in Nodes /\ <<x, s>> \in E /\ <<y, s>> \in E
      BY <1>3
    <3>2. <<x, s>> \in d /\ <<y, s>> \in d
      BY <1>7
    <3>3. QED BY <2>1, <3>1, <3>2 DEF Perfect
  <2>2. s \notin N
    BY DEF Symmetric, Arcs
  <2>3. QED BY <2>1, <2>2 DEF Clique
<1>9. CASE s \notin C
  <2>1. C \in SUBSET (S \ {s})
    BY <1>9
  <2>2. PICK L : StrictOrder(L) /\ Perfect(E, L, S \ {s}) /\ First(L, C, S \ {s})
    BY <1>3, <1>4, <2>1
  <2>3. \E M : StrictOrder(M) /\ Perfect(E, M, S) /\ First(M, C, S)
    BY <1>3, <1>8, <2>1, <2>2, LastNode
  <2>4. QED BY <1>4, <2>3
<1>10. CASE s \in C
  <2>1. C \ {s} \in SUBSET N
    BY <1>4, <1>10 DEF Clique
  <2>2. PICK L : StrictOrder(L) /\ Perfect(E, L, S \ {s}) /\ First(L, N, S \ {s})
    <3> HIDE DEF N
    <3>1. QED BY <1>3, <1>8
  <2>3. PICK M : StrictOrder(M) /\ Perfect(E, M, S) /\ First(M, (C \ {s}) \cup {s}, S)
    <3>1. N = {x \in S : <<x, s>> \in E}
      OBVIOUS
    <3> HIDE DEF N
    <3>2. QED BY <1>3, <1>8, <2>1, <2>2, <3>1, FirstNode
  <2>4. (C \ {s}) \cup {s} = C
    BY <1>10
  <2>5. QED BY <1>4, <2>3, <2>4
<1>11. QED BY <1>9, <1>10

\* More arcs from which to conclude allow no conclusion less.
LEMMA FollowsFromMore ==
    ASSUME NEW C, NEW M, C \subseteq M, NEW J, NEW V, NEW x, NEW y, Follows(C, J, V, x, y)
    PROVE  Follows(M, J, V, x, y)
<1>1. ByRule1(C, J, V, x, y) => ByRule1(M, J, V, x, y)
  BY DEF ByRule1
<1>2. ByRule2(C, x, y) => ByRule2(M, x, y)
  BY DEF ByRule2
<1>3. ByRule3(C, J, V, x, y) => ByRule3(M, J, V, x, y)
  BY DEF ByRule3
<1>4. QED BY <1>1, <1>2, <1>3 DEF Follows

\* A rule adds arcs that follow from the others.
LEMMA RuleAdds ==
    ASSUME NEW J, J \subseteq Arcs, NEW V, NEW D, Justified(D, J, V),
           NEW New \in SUBSET J,
           \A x, y \in Nodes : <<x, y>> \in New => Follows(D, J, V, x, y)
    PROVE  Justified(D \cup New, J, V)
<1>1. D \subseteq J
  BY DEF Justified
<1>2. ASSUME NEW B \in SUBSET (D \cup New), B # {}
      PROVE  \E x, y \in Nodes : <<x, y>> \in B /\ Follows((D \cup New) \ B, J, V, x, y)
  <2> DEFINE M == (D \cup New) \ B
  <2>1. CASE B \cap D # {}
    <3> DEFINE C == B \cap D
    <3>1. PICK x \in Nodes, y \in Nodes : <<x, y>> \in C /\ Follows(D \ C, J, V, x, y)
      <4>1. C \in SUBSET D /\ C # {}
        BY <2>1
      <4> HIDE DEF C
      <4>2. QED BY <4>1 DEF Justified
    <3>2. D \ C \subseteq M
      OBVIOUS
    <3>3. <<x, y>> \in B
      BY <3>1
    <3> HIDE DEF C, M
    <3>4. Follows(M, J, V, x, y)
      BY <3>1, <3>2, FollowsFromMore
    <3>5. QED BY <3>3, <3>4 DEF M
  <2>2. CASE B \cap D = {}
    <3>1. D \subseteq M
      BY <2>2
    <3>2. PICK a \in B : a \in New
      BY <1>2, <2>2
    <3>3. PICK x \in Nodes, y \in Nodes : a = <<x, y>>
      BY <3>2 DEF Arcs
    <3> HIDE DEF M
    <3>4. Follows(M, J, V, x, y)
      BY <3>1, <3>2, <3>3, FollowsFromMore
    <3>5. QED BY <3>2, <3>3, <3>4 DEF M
  <2>3. QED BY <2>1, <2>2
<1>3. QED BY <1>1, <1>2 DEF Justified

\* Where no rule applies, a pair that is open has both directions in the class.
LEMMA OpenPairFlips ==
    ASSUME NEW d, NEW J, NEW D, Completed(d, J, D),
           NEW x \in Nodes, NEW y \in Nodes, Open(J, D, x, y)
    PROVE  \E f : /\ Orients(f, J) /\ ArcsAcyclic(f)
                  /\ Unshielded(f, J) = Unshielded(d, J)
                  /\ <<y, x>> \in f
<1> DEFINE V == Unshielded(d, J)
           E == {a \in J : Open(J, D, a[1], a[2])}
<1>1. /\ D \subseteq d /\ D \subseteq J /\ J \subseteq Arcs
      /\ \A a, b \in Nodes : <<a, b>> \in J => <<b, a>> \in J
      /\ \A a, b \in Nodes : <<a, b>> \in J => a # b
      /\ \A a, b \in Nodes : <<a, b>> \in J => <<a, b>> \in D \/ <<b, a>> \in D \/ Open(J, D, a, b)
      /\ \A a, b \in Nodes : Open(J, D, a, b) => Open(J, D, b, a)
      /\ \A a, b, c \in Nodes :
            a # b /\ <<a, c>> \in d /\ <<b, c>> \in d /\ <<a, b>> \notin J => <<a, c>> \in D
  BY CompletedFacts
<1>2. /\ Orients(d, J) /\ ArcsAcyclic(d) /\ V \subseteq D
      /\ \A a, b, c \in Nodes : <<a, b>> \in D /\ Open(J, D, b, c) /\ a # c => <<a, c>> \in J
  BY DEF Completed, RulesDone
<1>3. \A a, b, c \in Nodes : <<a, b>> \in D /\ Open(J, D, b, c) => <<a, c>> \in D
  BY ArcsIntoOpenPairs
<1>4. \A a, b \in Nodes : Open(J, D, a, b) => <<a, b>> \in J /\ <<a, b>> \notin D /\ <<b, a>> \notin D
  BY DEF Open
<1>5. \A a, b \in Nodes : <<a, b>> \in E <=> Open(J, D, a, b)
  BY <1>4
<1>6. Symmetric(E)
  BY <1>1, <1>5 DEF Symmetric
<1>7. \A a, b \in Nodes : <<a, b>> \in J => (<<a, b>> \in d <=> <<b, a>> \notin d)
  BY <1>2 DEF Orients
<1>8. E \subseteq J
  OBVIOUS
<1> HIDE DEF E
<1>9. Perfect(E, d, Nodes)
  <2>1. SUFFICES ASSUME NEW p \in Nodes, NEW q \in Nodes, NEW c \in Nodes, p # q,
                        Open(J, D, p, c), Open(J, D, q, c), <<p, c>> \in d, <<q, c>> \in d
                 PROVE  Open(J, D, p, q)
    BY <1>5 DEF Perfect
  <2>2. <<p, q>> \in J
    BY <1>1, <1>4, <2>1
  <2>3. <<p, q>> \notin D
    BY <1>3, <1>4, <2>1
  <2>4. <<q, p>> \notin D
    BY <1>3, <1>4, <2>1
  <2>5. QED BY <1>1, <2>2, <2>3, <2>4
<1>10. PICK L : StrictOrder(L) /\ Perfect(E, L, Nodes) /\ First(L, {y}, Nodes)
  <2>1. {y} \in SUBSET Nodes /\ Clique(E, {y})
    BY DEF Clique
  <2>2. \A a, b \in Nodes : <<a, b>> \in E => <<a, b>> \in d \/ <<b, a>> \in d
    BY <1>7, <1>8
  <2>3. QED BY <1>2, <1>6, <1>9, <2>1, <2>2, PerfectOrder
<1> DEFINE f == D \cup (E \cap L)
<1>11. \A a, b \in Nodes : <<a, b>> \in f <=> <<a, b>> \in D \/ (Open(J, D, a, b) /\ <<a, b>> \in L)
  BY <1>5
<1>12. f \subseteq J
  BY <1>1, <1>8
<1> HIDE DEF f, V
<1>13. \A a, b \in Nodes : a # b => (<<a, b>> \in L <=> <<b, a>> \notin L)
  BY <1>10 DEF StrictOrder
<1>14. Orients(f, J)
  <2>1. ASSUME NEW a \in Nodes, NEW b \in Nodes, <<a, b>> \in J
        PROVE  <<a, b>> \in f <=> <<b, a>> \notin f
    <3>1. CASE <<a, b>> \in D
      BY <1>1, <1>4, <1>7, <1>11, <2>1, <3>1
    <3>2. CASE <<b, a>> \in D
      BY <1>1, <1>4, <1>7, <1>11, <2>1, <3>2
    <3>3. CASE Open(J, D, a, b)
      BY <1>1, <1>4, <1>11, <1>13, <2>1, <3>3
    <3>4. QED BY <1>1, <2>1, <3>1, <3>2, <3>3
  <2>2. QED BY <1>12, <2>1 DEF Orients
<1>15. ArcsAcyclic(f)
  <2>1. ASSUME NEW S \in SUBSET Nodes, S # {}
        PROVE  \E n \in S : \A m \in S : <<m, n>> \notin f
    <3> DEFINE T == {n \in S : \A m \in S : <<m, n>> \notin D}
    <3>1. T # {}
      <4>1. PICK n \in S : \A m \in S : <<m, n>> \notin d
        BY <1>2, <2>1, AcyclicSources
      <4>2. QED BY <1>1, <4>1
    <3>2. ASSUME NEW n \in T, NEW m \in S, Open(J, D, m, n)
          PROVE  m \in T
      <4>1. SUFFICES ASSUME NEW k \in S, <<k, m>> \in D PROVE FALSE
        OBVIOUS
      <4>2. <<k, n>> \in D
        BY <1>3, <3>2, <4>1
      <4>3. QED BY <4>2
    <3>3. T \in SUBSET Nodes /\ \A n \in T, m \in S : <<m, n>> \notin D
      OBVIOUS
    <3>4. T \subseteq S
      OBVIOUS
    <3> HIDE DEF T
    <3>5. PICK t \in T : \A m \in T : <<m, t>> \notin L
      BY <1>10, <3>1, <3>3, LeastMember
    <3>6. \A m \in S : <<m, t>> \notin f
      BY <1>11, <3>2, <3>3, <3>5
    <3>7. QED BY <3>4, <3>6
  <2>2. QED BY <2>1, SourcesAcyclic
<1>16. \A p, q, c \in Nodes :
          p # q /\ <<p, q>> \notin J =>
             (<<p, c>> \in f /\ <<q, c>> \in f <=> <<p, c>> \in d /\ <<q, c>> \in d)
  <2>1. SUFFICES ASSUME NEW p \in Nodes, NEW q \in Nodes, NEW c \in Nodes, p # q, <<p, q>> \notin J
                 PROVE  <<p, c>> \in f /\ <<q, c>> \in f <=> <<p, c>> \in d /\ <<q, c>> \in d
    OBVIOUS
  <2>2. <<q, p>> \notin J
    BY <1>1, <2>1
  <2>3. <<p, c>> \in d /\ <<q, c>> \in d => <<p, c>> \in D /\ <<q, c>> \in D
    BY <1>1, <2>1, <2>2
  <2>4. ~(<<p, c>> \in D /\ Open(J, D, q, c))
    BY <1>1, <1>2, <2>1
  <2>5. ~(<<q, c>> \in D /\ Open(J, D, p, c))
    BY <1>1, <1>2, <2>1, <2>2
  <2>6. ~(Open(J, D, p, c) /\ Open(J, D, q, c) /\ <<p, c>> \in L /\ <<q, c>> \in L)
    BY <1>5, <1>8, <1>10, <2>1 DEF Perfect
  <2>7. QED BY <1>1, <1>11, <2>3, <2>4, <2>5, <2>6
<1>17. Unshielded(f, J) = Unshielded(d, J)
  <2>1. f \subseteq Nodes \X Nodes /\ d \subseteq Nodes \X Nodes
    BY <1>1, <1>2, <1>12 DEF Orients, Arcs
  <2>2. ASSUME NEW a \in Nodes \X Nodes
        PROVE  a \in Unshielded(f, J) <=> a \in Unshielded(d, J)
    <3>1. PICK p \in Nodes, c \in Nodes : a = <<p, c>>
      OBVIOUS
    <3>2. a \in Unshielded(f, J) <=>
             \E q \in Nodes : <<p, c>> \in f /\ q # p /\ <<q, c>> \in f /\ <<p, q>> \notin J
      BY <3>1 DEF Unshielded
    <3>3. a \in Unshielded(d, J) <=>
             \E q \in Nodes : <<p, c>> \in d /\ q # p /\ <<q, c>> \in d /\ <<p, q>> \notin J
      BY <3>1 DEF Unshielded
    <3>4. QED BY <1>16, <3>2, <3>3
  <2>3. QED BY <2>1, <2>2 DEF Unshielded
<1>18. <<y, x>> \in f
  <2>1. Open(J, D, y, x) /\ x # y
    BY <1>1, <1>4
  <2>2. <<y, x>> \in L
    BY <1>10, <2>1 DEF First
  <2>3. QED BY <1>11, <2>1, <2>2
<1>19. QED BY <1>14, <1>15, <1>17, <1>18

-------------------------------------------------------------------------------
(* Graphs and their relations.                                             *)

\* The arcs between joined nodes, in both directions.
Links(g) == {a \in Arcs : Ends(a) \in Skeleton(g)}

\* A pair of nodes is an edge between them, an open pair, or has an arc.
LEMMA JoinedFacts ==
    ASSUME NEW g \in Graphs
    PROVE  /\ Symmetric(Links(g)) /\ g.arcs \subseteq Links(g)
           /\ \A x, y \in Nodes : <<x, y>> \in Links(g) <=> {x, y} \in Skeleton(g)
           /\ \A x, y \in Nodes : HasConnection(g, x, y) <=> {x, y} \in Skeleton(g)
           /\ NoOverlap(g) =>
                 \A x, y \in Nodes : {x, y} \in g.edges <=> Open(Links(g), g.arcs, x, y)
<1>1. g.arcs \in SUBSET Arcs /\ g.edges \in SUBSET Edges
  BY DEF Graphs
<1>2. \A e \in Skeleton(g) : e \in Edges
  BY <1>1 DEF Skeleton, Edges
<1>3. ASSUME NEW x \in Nodes, NEW y \in Nodes
      PROVE  <<x, y>> \in Links(g) <=> {x, y} \in Skeleton(g)
  <2>1. Ends(<<x, y>>) = {x, y}
    BY DEF Ends
  <2>2. {x, y} \in Skeleton(g) => x # y
    BY <1>2, EdgeEnds
  <2>3. QED BY <2>1, <2>2 DEF Links, Arcs
<1>4. ASSUME NEW x \in Nodes, NEW y \in Nodes
      PROVE  {x, y} \in {Ends(a) : a \in g.arcs} <=> <<x, y>> \in g.arcs \/ <<y, x>> \in g.arcs
  <2>1. Ends(<<x, y>>) = {x, y} /\ Ends(<<y, x>>) = {x, y} /\ Reverse(<<x, y>>) = <<y, x>>
    BY DEF Ends, Reverse
  <2>2. ASSUME NEW a \in g.arcs, Ends(a) = {x, y}
        PROVE  <<x, y>> \in g.arcs \/ <<y, x>> \in g.arcs
    <3>1. PICK u \in Nodes, v \in Nodes : a = <<u, v>>
      BY <1>1 DEF Arcs
    <3>2. {u, v} = {x, y}
      BY <2>2, <3>1 DEF Ends
    <3>3. (u = x /\ v = y) \/ (u = y /\ v = x)
      BY <2>2, <3>1, <3>2, <1>1 DEF Arcs
    <3>4. QED BY <2>2, <3>1, <3>3
  <2>3. QED BY <2>1, <2>2
<1>5. Symmetric(Links(g))
  <2>1. \A x, y \in Nodes : {x, y} = {y, x}
    OBVIOUS
  <2>2. QED BY <1>3, <2>1 DEF Symmetric, Links
<1>6. g.arcs \subseteq Links(g)
  BY <1>1 DEF Links, Skeleton
<1>7. \A x, y \in Nodes : HasConnection(g, x, y) <=> {x, y} \in Skeleton(g)
  BY <1>4 DEF HasConnection, Skeleton
<1>8. NoOverlap(g) => \A x, y \in Nodes : {x, y} \in g.edges <=> Open(Links(g), g.arcs, x, y)
  <2>1. ASSUME NoOverlap(g), NEW x \in Nodes, NEW y \in Nodes
        PROVE  {x, y} \in g.edges <=>
                  {x, y} \in Skeleton(g) /\ <<x, y>> \notin g.arcs /\ <<y, x>> \notin g.arcs
    <3>1. {x, y} \in {Ends(a) : a \in g.arcs} => {x, y} \notin g.edges
      BY <2>1 DEF NoOverlap
    <3>2. QED BY <1>4, <3>1 DEF Skeleton
  <2>2. QED BY <1>3, <2>1 DEF Open
<1>9. QED BY <1>3, <1>5, <1>6, <1>7, <1>8

\* A directed acyclic graph gives each joined pair one direction.
LEMMA DagOrients ==
    ASSUME NEW d \in Graphs, IsDag(d)
    PROVE  /\ Orients(d.arcs, Links(d)) /\ ArcsAcyclic(d.arcs)
           /\ Skeleton(d) = {Ends(a) : a \in d.arcs}
           /\ \A x, y \in Nodes : {x, y} \in Skeleton(d) <=> <<x, y>> \in d.arcs \/ <<y, x>> \in d.arcs
<1>1. d.edges = {} /\ ArcsAcyclic(d.arcs)
  BY DEF IsDag
<1>2. /\ d.arcs \subseteq Links(d)
      /\ \A x, y \in Nodes : <<x, y>> \in Links(d) <=> {x, y} \in Skeleton(d)
      /\ \A x, y \in Nodes : HasConnection(d, x, y) <=> {x, y} \in Skeleton(d)
  BY JoinedFacts
<1>3. \A x, y \in Nodes : {x, y} \in Skeleton(d) <=> <<x, y>> \in d.arcs \/ <<y, x>> \in d.arcs
  BY <1>1, <1>2 DEF HasConnection
<1>4. \A x, y \in Nodes : <<x, y>> \in d.arcs => <<y, x>> \notin d.arcs
  BY <1>1, NoShortCycle
<1>5. QED BY <1>1, <1>2, <1>3, <1>4 DEF Orients, Skeleton

\* The v-structures of two graphs with one skeleton are the same if the arcs of
\* v-structures are.
LEMMA SameVStructures ==
    ASSUME NEW f \in Graphs, NEW d \in Graphs, Skeleton(f) = Skeleton(d)
    PROVE  VStructures(f) = VStructures(d) <=>
              Unshielded(f.arcs, Links(f)) = Unshielded(d.arcs, Links(d))
<1>1. ASSUME NEW g \in {f, d}, NEW p \in Nodes, NEW q \in Nodes, NEW c \in Nodes,
             p # q, {p, q} \notin Skeleton(d)
      PROVE  <<{p, q}, c>> \in VStructures(g) <=> <<p, c>> \in g.arcs /\ <<q, c>> \in g.arcs
  <2>1. {p, q} \in Edges
    <3>1. <<p, q>> \in Arcs /\ Ends(<<p, q>>) = {p, q}
      BY <1>1 DEF Arcs, Ends
    <3>2. QED BY <3>1, ReverseArc
  <2>2. QED BY <1>1, <2>1 DEF VStructures
<1>2. ASSUME NEW g \in {f, d}, NEW p \in Nodes, NEW c \in Nodes
      PROVE  <<p, c>> \in Unshielded(g.arcs, Links(g)) <=>
                \E q \in Nodes : /\ q # p /\ {p, q} \notin Skeleton(d)
                                 /\ <<p, c>> \in g.arcs /\ <<q, c>> \in g.arcs
  <2>1. \A q \in Nodes : <<p, q>> \in Links(g) <=> {p, q} \in Skeleton(d)
    BY JoinedFacts
  <2>2. QED BY <2>1 DEF Unshielded
<1>3. ASSUME NEW g \in {f, d}, NEW v \in VStructures(g)
      PROVE  \E p, q, c \in Nodes : v = <<{p, q}, c>> /\ p # q /\ {p, q} \notin Skeleton(d)
  <2>1. PICK e \in Edges, c \in Nodes : v = <<e, c>> /\ e \notin Skeleton(d)
    BY DEF VStructures
  <2>2. PICK p \in Nodes, q \in Nodes : p # q /\ e = {p, q}
    BY DEF Edges, Arcs, Ends
  <2>3. QED BY <2>1, <2>2
<1>4. ASSUME NEW g \in {f, d}
      PROVE  Unshielded(g.arcs, Links(g)) \subseteq Nodes \X Nodes
  BY DEF Unshielded, Graphs, Arcs
<1> DEFINE U(g) == Unshielded(g.arcs, Links(g))
<1>5. ASSUME NEW g \in {f, d}, NEW h \in {f, d}, VStructures(g) = VStructures(h)
      PROVE  U(g) \subseteq U(h)
  <2>1. ASSUME NEW p \in Nodes, NEW c \in Nodes, <<p, c>> \in U(g)
        PROVE  <<p, c>> \in U(h)
    <3>1. PICK q \in Nodes : /\ q # p /\ {p, q} \notin Skeleton(d)
                             /\ <<p, c>> \in g.arcs /\ <<q, c>> \in g.arcs
      BY <1>2, <2>1
    <3>2. <<{p, q}, c>> \in VStructures(h)
      BY <1>1, <1>5, <3>1
    <3>3. <<p, c>> \in h.arcs /\ <<q, c>> \in h.arcs
      BY <1>1, <3>1, <3>2
    <3>4. QED BY <1>2, <3>1, <3>3
  <2>2. QED BY <1>4, <2>1
<1>6. ASSUME NEW g \in {f, d}, NEW h \in {f, d}, U(g) = U(h)
      PROVE  VStructures(g) \subseteq VStructures(h)
  <2>1. SUFFICES ASSUME NEW v \in VStructures(g) PROVE v \in VStructures(h)
    OBVIOUS
  <2>2. PICK p \in Nodes, q \in Nodes, c \in Nodes :
                v = <<{p, q}, c>> /\ p # q /\ {p, q} \notin Skeleton(d)
    BY <1>3
  <2>3. <<p, c>> \in g.arcs /\ <<q, c>> \in g.arcs
    BY <1>1, <2>2
  <2>4. <<p, c>> \in U(g) /\ <<q, c>> \in U(g)
    <3>1. {q, p} = {p, q}
      OBVIOUS
    <3>2. QED BY <1>2, <2>2, <2>3, <3>1
  <2>5. <<p, c>> \in h.arcs /\ <<q, c>> \in h.arcs
    BY <1>2, <1>6, <2>4
  <2>6. QED BY <1>1, <2>2, <2>5
<1>7. QED BY <1>5, <1>6

\* The graphs of the class: one direction for each joined pair.
LEMMA ClassOrientations ==
    ASSUME NEW d \in Graphs
    PROVE  LET g == [arcs |-> {}, edges |-> Skeleton(d)]
           IN  /\ \A f \in Orientations(g) :
                     f \in Graphs /\ Skeleton(f) = Skeleton(d) /\ f.edges = {}
               /\ \A A : Orients(A, Links(d)) =>
                     /\ [arcs |-> A, edges |-> {}] \in Orientations(g)
                     /\ [arcs |-> A, edges |-> {}] \in Graphs
<1> DEFINE g == [arcs |-> {}, edges |-> Skeleton(d)]
           new(F, e) == IF e \in F THEN OneOf(e) ELSE Reverse(OneOf(e))
<1>1. ASSUME NEW e \in Skeleton(d)
      PROVE  /\ e \in Edges /\ OneOf(e) \in Arcs /\ Ends(OneOf(e)) = e
             /\ Reverse(OneOf(e)) \in Arcs /\ Ends(Reverse(OneOf(e))) = e
  <2>1. e \in Edges
    BY DEF Skeleton, Graphs, Edges
  <2>2. OneOf(e) \in Arcs /\ Ends(OneOf(e)) = e
    BY <2>1 DEF OneOf, Edges
  <2>3. QED BY <2>1, <2>2, ReverseArc
<1>2. ASSUME NEW f \in Orientations(g)
      PROVE  f \in Graphs /\ Skeleton(f) = Skeleton(d) /\ f.edges = {}
  <2>1. PICK F \in SUBSET Skeleton(d) :
           f = [arcs |-> {} \cup {new(F, e) : e \in Skeleton(d)}, edges |-> {}]
    BY DEF Orientations
  <2>2. ASSUME NEW e \in Skeleton(d)
        PROVE  new(F, e) \in Arcs /\ Ends(new(F, e)) = e
    BY <1>1
  <2> HIDE DEF new
  <2>3. f.arcs = {new(F, e) : e \in Skeleton(d)} /\ f.edges = {}
    BY <2>1
  <2>4. f \in Graphs
    BY <2>1, <2>2 DEF Graphs
  <2>5. {Ends(a) : a \in f.arcs} = Skeleton(d)
    BY <2>2, <2>3
  <2>6. QED BY <2>3, <2>4, <2>5 DEF Skeleton
<1>3. ASSUME NEW A, Orients(A, Links(d))
      PROVE  [arcs |-> A, edges |-> {}] \in Orientations(g) /\ [arcs |-> A, edges |-> {}] \in Graphs
  <2> DEFINE F == {e \in Skeleton(d) : OneOf(e) \in A}
  <2>1. A \subseteq Arcs /\ \A a \in A : Ends(a) \in Skeleton(d)
    BY <1>3 DEF Orients, Links
  <2>2. ASSUME NEW a \in Arcs, Ends(a) \in Skeleton(d)
        PROVE  a \in A <=> Reverse(a) \notin A
    <3>1. PICK x \in Nodes, y \in Nodes : a = <<x, y>> /\ Reverse(a) = <<y, x>>
      BY DEF Arcs, Reverse
    <3>2. <<x, y>> \in Links(d)
      BY <2>2, <3>1 DEF Links
    <3>3. QED BY <1>3, <3>1, <3>2 DEF Orients
  <2>3. ASSUME NEW e \in Skeleton(d)
        PROVE  new(F, e) \in A
    <3>1. CASE OneOf(e) \in A
      BY <3>1
    <3>2. CASE OneOf(e) \notin A
      <4>1. Reverse(OneOf(e)) \in A
        BY <1>1, <2>2, <3>2
      <4>2. QED BY <3>2, <4>1
    <3>3. QED BY <3>1, <3>2
  <2>4. ASSUME NEW a \in A
        PROVE  a = new(F, Ends(a)) /\ Ends(a) \in Skeleton(d)
    <3>1. a \in Arcs /\ Ends(a) \in Skeleton(d) /\ Reverse(a) \notin A
      BY <2>1, <2>2
    <3>2. OneOf(Ends(a)) = a \/ OneOf(Ends(a)) = Reverse(a)
      BY <1>1, <3>1, SameEnds
    <3>3. Reverse(Reverse(a)) = a
      BY <3>1, ReverseArc
    <3>4. QED BY <3>1, <3>2, <3>3
  <2>5. A = {} \cup {new(F, e) : e \in Skeleton(d)}
    <3> HIDE DEF new
    <3>1. QED BY <2>3, <2>4
  <2>6. F \in SUBSET g.edges
    OBVIOUS
  <2>7. [arcs |-> A, edges |-> {}] =
           [arcs |-> g.arcs \cup {IF e \in F THEN OneOf(e) ELSE Reverse(OneOf(e)) : e \in g.edges},
            edges |-> {}]
    BY <2>5
  <2> HIDE DEF F, g
  <2>8. [arcs |-> A, edges |-> {}] \in Orientations(g)
    BY <2>6, <2>7 DEF Orientations
  <2>9. QED BY <2>1, <2>8 DEF Graphs
<1>4. QED BY <1>2, <1>3

\* A partially directed graph with the skeleton of a directed acyclic graph d represents
\* the equivalence class of d if it has the arcs of its v-structures, its other arcs follow
\* from them by the three Meek rules, and no rule applies any more (the condition on which
\* the loop over the rules in constraint.hpp ends).
THEOREM CompletedIsClass ==
    ASSUME NEW d \in Graphs, IsDag(d), NEW g \in Graphs, NoOverlap(g),
           Skeleton(g) = Skeleton(d), Completed(d.arcs, Links(d), g.arcs)
    PROVE  g = ClassGraph(d)
<1> DEFINE J == Links(d)
           s == [arcs |-> {}, edges |-> Skeleton(d)]
           class == {f \in Orientations(s) : IsDag(f) /\ VStructures(f) = VStructures(d)}
           compelled == {a \in d.arcs : \A f \in class : a \in f.arcs}
<1>1. Links(g) = J
  BY DEF Links
<1>2. /\ g.arcs \subseteq d.arcs /\ J \subseteq Arcs
      /\ Justified(g.arcs, J, Unshielded(d.arcs, J)) /\ Orients(d.arcs, J) /\ Symmetric(J)
  BY CompletedFacts DEF Completed
<1>3. \A x, y \in Nodes : {x, y} \in g.edges <=> Open(J, g.arcs, x, y)
  BY <1>1, JoinedFacts
<1>4. /\ d.arcs \subseteq Arcs /\ d.edges = {} /\ ArcsAcyclic(d.arcs)
      /\ \A x, y \in Nodes : <<x, y>> \in d.arcs => <<x, y>> \in J /\ <<y, x>> \notin d.arcs
      /\ \A x, y \in Nodes : <<x, y>> \in J => <<x, y>> \in d.arcs \/ <<y, x>> \in d.arcs
  BY <1>2, DagOrients DEF Graphs, Orients, IsDag
<1>5. ASSUME NEW f \in class
      PROVE  g.arcs \subseteq f.arcs
  <2>1. f \in Graphs /\ IsDag(f) /\ Skeleton(f) = Skeleton(d) /\ VStructures(f) = VStructures(d)
    BY ClassOrientations
  <2>2. Links(f) = J
    BY <2>1 DEF Links
  <2>3. Unshielded(f.arcs, J) = Unshielded(d.arcs, J)
    BY <2>1, <2>2, SameVStructures
  <2>4. Orients(f.arcs, J) /\ ArcsAcyclic(f.arcs)
    BY <2>1, <2>2, DagOrients
  <2> HIDE DEF J
  <2>5. QED BY <1>2, <2>3, <2>4, FollowsInClass
<1>6. ASSUME NEW x \in Nodes, NEW y \in Nodes, Open(J, g.arcs, x, y)
      PROVE  \E f \in class : <<x, y>> \notin f.arcs
  <2>1. PICK A : /\ Orients(A, J) /\ ArcsAcyclic(A)
                 /\ Unshielded(A, J) = Unshielded(d.arcs, J) /\ <<y, x>> \in A
    BY <1>6, OpenPairFlips
  <2> DEFINE f == [arcs |-> A, edges |-> {}]
  <2>2. f \in Orientations(s) /\ f \in Graphs
    BY <2>1, ClassOrientations
  <2>3. f.arcs = A /\ f.edges = {} /\ IsDag(f)
    BY <2>1 DEF IsDag
  <2> HIDE DEF f
  <2>4. Skeleton(f) = Skeleton(d)
    BY <2>2, ClassOrientations
  <2>5. Links(f) = J
    BY <2>4 DEF Links
  <2>6. VStructures(f) = VStructures(d)
    BY <2>1, <2>2, <2>3, <2>4, <2>5, SameVStructures
  <2>7. f \in class
    BY <2>2, <2>3, <2>6
  <2>8. <<x, y>> \notin A
    BY <1>6, <2>1 DEF Orients, Open
  <2>9. QED BY <2>3, <2>7, <2>8
<1> HIDE DEF J, class
<1>7. ASSUME NEW x \in Nodes, NEW y \in Nodes
      PROVE  <<x, y>> \in compelled <=> <<x, y>> \in g.arcs
  <2>1. <<x, y>> \in g.arcs => <<x, y>> \in compelled
    BY <1>2, <1>5
  <2>2. ASSUME <<x, y>> \in d.arcs, <<x, y>> \notin g.arcs
        PROVE  <<x, y>> \notin compelled
    <3>1. Open(J, g.arcs, x, y)
      BY <1>2, <1>4, <2>2 DEF Open
    <3>2. QED BY <1>6, <3>1
  <2>3. QED BY <2>1, <2>2
<1>8. compelled = g.arcs
  <2>1. compelled \subseteq Nodes \X Nodes /\ g.arcs \subseteq Nodes \X Nodes
    BY <1>2, <1>4 DEF Arcs
  <2> HIDE DEF compelled
  <2>2. QED BY <1>7, <2>1
<1>9. {Ends(a) : a \in d.arcs \ g.arcs} = g.edges
  <2>1. ASSUME NEW a \in d.arcs \ g.arcs
        PROVE  Ends(a) \in g.edges
    <3>1. PICK x \in Nodes, y \in Nodes : a = <<x, y>> /\ Ends(a) = {x, y}
      BY <1>4 DEF Arcs, Ends
    <3>2. Open(J, g.arcs, x, y)
      BY <1>2, <1>4, <2>1, <3>1 DEF Open
    <3>3. QED BY <1>3, <3>1, <3>2 DEF J
  <2>2. ASSUME NEW e \in g.edges
        PROVE  \E a \in d.arcs \ g.arcs : Ends(a) = e
    <3>1. PICK x \in Nodes, y \in Nodes : e = {x, y}
      BY DEF Graphs, Edges, Arcs, Ends
    <3>2. Open(J, g.arcs, x, y)
      BY <1>3, <3>1 DEF J
    <3>3. Ends(<<x, y>>) = e /\ Ends(<<y, x>>) = e
      BY <3>1 DEF Ends
    <3>4. QED BY <1>4, <3>2, <3>3 DEF Open
  <2>3. QED BY <2>1, <2>2
<1>10. ClassGraph(d) = [arcs |-> compelled, edges |-> {Ends(a) : a \in d.arcs \ compelled}]
  BY DEF ClassGraph, class
<1> HIDE DEF compelled
<1>11. ClassGraph(d) = [arcs |-> g.arcs, edges |-> g.edges]
  BY <1>8, <1>9, <1>10
<1>12. QED BY <1>11 DEF Graphs

-------------------------------------------------------------------------------
(* The orientation of a graph with the skeleton of d, with the answers of  *)
(* a test that is faithful to d.                                           *)

\* The arcs of the v-structures of d, and those that end in x.
Colliders(d) == Unshielded(d.arcs, Links(d))
PairsAt(d, x) == {e \in Edges : <<e, x>> \in VStructures(d)}

\* What the evaluation of the v-structures finds out.
Evaluates(seps, d) ==
    \A x \in Nodes : \A pq \in CandidatePairs(pdag, x) :
        IsVStructure(seps, pdag, pq, x) <=> <<pq, x>> \in VStructures(d)

\* The v-structures that are still to be applied are those whose arcs are missing.
Applying(d) ==
    /\ pdag.arcs \subseteq Colliders(d)
    /\ \A x \in Nodes : \/ evaluated[x] = PairsAt(d, x)
                        \/ evaluated[x] = {} /\ Into(PairsAt(d, x), x) \subseteq pdag.arcs

\* A round that has found nothing yet has left nothing behind for the rules it applied.
RoundInv ==
    /\ phase = "rule1" => toCheck \subseteq pdag.arcs /\ (changed \/ toCheck = pdag.arcs)
    /\ phase \in {"rule2", "rule3"} /\ ~changed => Rule1Arcs(pdag, pdag.arcs) = {}
    /\ phase = "rule3" /\ ~changed => Rule2Arcs(pdag) = {} /\ nextNode = 0
    /\ phase = "done" => /\ Rule1Arcs(pdag, pdag.arcs) = {} /\ Rule2Arcs(pdag) = {}
                         /\ \A n \in Nodes : Rule3Arcs(pdag, n) = {}

Ruling == {"rule1", "rule2", "rule3", "done"}

Directed(d) ==
    /\ Skeleton(pdag) = Skeleton(d)
    /\ phase \in {"found", "evaluate"} => pdag.arcs = {}
    /\ phase = "vstructures" => Applying(d)
    /\ phase \in Ruling =>
          /\ Colliders(d) \subseteq pdag.arcs
          /\ Justified(pdag.arcs, Links(d), Colliders(d))
    /\ RoundInv

\* The pairs and arcs of the v-structures of a directed acyclic graph.
LEMMA ColliderFacts ==
    ASSUME NEW d \in Graphs, IsDag(d)
    PROVE  /\ Colliders(d) \subseteq d.arcs /\ d.arcs \subseteq Links(d) /\ Links(d) \subseteq Arcs
           /\ \A a \in d.arcs : a \in Arcs /\ Reverse(a) \notin d.arcs /\ Reverse(a) \in Arcs
           /\ \A x \in Nodes : /\ PairsAt(d, x) \subseteq Edges
                               /\ Into(PairsAt(d, x), x) \subseteq Colliders(d)
                               /\ \A e \in PairsAt(d, x) : \A p \in e : <<p, x>> \in d.arcs
           /\ \A a \in Colliders(d) : a[2] \in Nodes /\ a \in Into(PairsAt(d, a[2]), a[2])
<1>1. /\ Orients(d.arcs, Links(d)) /\ d.arcs \subseteq Arcs
      /\ \A x, y \in Nodes : <<x, y>> \in Links(d) <=> {x, y} \in Skeleton(d)
  BY DagOrients, JoinedFacts DEF Graphs
<1>2. ASSUME NEW a \in d.arcs
      PROVE  a \in Arcs /\ Reverse(a) \notin d.arcs /\ Reverse(a) \in Arcs
  <2>1. PICK x \in Nodes, y \in Nodes : a = <<x, y>> /\ Reverse(a) = <<y, x>>
    BY <1>1 DEF Arcs, Reverse
  <2>2. QED BY <1>1, <2>1, ReverseArc DEF Orients
<1>3. ASSUME NEW x \in Nodes, NEW e \in PairsAt(d, x)
      PROVE  e \in Edges /\ e \notin Skeleton(d) /\ \A p \in e : <<p, x>> \in d.arcs
  BY DEF PairsAt, VStructures
<1>4. ASSUME NEW x \in Nodes, NEW a \in Into(PairsAt(d, x), x)
      PROVE  a \in Colliders(d)
  <2>1. PICK p \in UNION PairsAt(d, x) : a = <<p, x>>
    BY DEF Into
  <2>2. PICK e \in PairsAt(d, x) : p \in e
    BY <2>1
  <2>3. e \in Edges /\ e \notin Skeleton(d) /\ \A q \in e : <<q, x>> \in d.arcs
    BY <1>3
  <2>4. PICK q \in Nodes : q # p /\ e = {p, q} /\ p \in Nodes
    BY <2>2, <2>3, EdgeEnds
  <2>5. a \in d.arcs /\ a[1] = p /\ a[2] = x
    BY <2>2, <2>1, <2>3
  <2>6. <<q, x>> \in d.arcs /\ <<p, q>> \notin Links(d)
    BY <1>1, <2>3, <2>4
  <2>7. QED BY <2>4, <2>5, <2>6 DEF Colliders, Unshielded
<1>5. ASSUME NEW a \in Colliders(d)
      PROVE  a[2] \in Nodes /\ a \in Into(PairsAt(d, a[2]), a[2])
  <2>1. PICK q \in Nodes : a \in d.arcs /\ q # a[1] /\ <<q, a[2]>> \in d.arcs /\ <<a[1], q>> \notin Links(d)
    BY DEF Colliders, Unshielded
  <2>2. PICK p \in Nodes, x \in Nodes : a = <<p, x>>
    BY <1>1, <2>1 DEF Arcs
  <2>3. {p, q} \notin Skeleton(d)
    BY <1>1, <2>1, <2>2
  <2>4. {p, q} \in Edges
    <3>1. <<p, q>> \in Arcs /\ Ends(<<p, q>>) = {p, q}
      BY <2>1, <2>2 DEF Arcs, Ends
    <3>2. QED BY <3>1, ReverseArc
  <2>5. {p, q} \in PairsAt(d, x)
    BY <2>1, <2>2, <2>3, <2>4 DEF PairsAt, VStructures
  <2>6. QED BY <2>2, <2>5 DEF Into
<1>6. Colliders(d) \subseteq d.arcs
  BY DEF Colliders, Unshielded
<1>7. \A x \in Nodes : Into(PairsAt(d, x), x) \subseteq Colliders(d)
  BY <1>4
<1>8. Links(d) \subseteq Arcs /\ d.arcs \subseteq Links(d)
  BY <1>1 DEF Links, Orients
<1>9. QED BY <1>2, <1>3, <1>5, <1>6, <1>7, <1>8

\* Directing edges adds exactly the arcs.
LEMMA DirectAdds ==
    ASSUME NEW g \in Graphs, NoOverlap(g), NEW A \in SUBSET Arcs, \A a \in A : Ends(a) \in g.edges
    PROVE  /\ DirectAll(g, A).arcs = g.arcs \cup A
           /\ A = {} => DirectAll(g, A) = g
<1> DEFINE d == DirectAll(g, A)
<1>1. /\ g.arcs \subseteq d.arcs /\ d.arcs \subseteq g.arcs \cup A
      /\ \A a \in A : Ends(a) \in g.edges => a \in d.arcs
  BY DirectAllEffect
<1>2. A = {} => d = g
  BY DEF DirectAll, Graphs
<1> HIDE DEF d
<1>3. QED BY <1>1, <1>2 DEF d

\* The arcs that a rule finds follow from those of the graph.
LEMMA RulesFollow ==
    ASSUME NEW g \in Graphs, NoOverlap(g), NEW V, V \subseteq g.arcs
    PROVE  LET J == Links(g)
           IN  /\ \A new : /\ \/ \E arcs \in SUBSET g.arcs : new = Rule1Arcs(g, arcs)
                              \/ new = Rule2Arcs(g)
                              \/ \E n \in Nodes : new = Rule3Arcs(g, n)
                           => /\ new \subseteq J
                              /\ \A x, y \in Nodes : <<x, y>> \in new => Follows(g.arcs, J, V, x, y)
<1> DEFINE J == Links(g)
           D == g.arcs
<1>1. /\ \A x, y \in Nodes : HasConnection(g, x, y) <=> <<x, y>> \in J
      /\ \A x, y \in Nodes : <<x, y>> \in J <=> <<y, x>> \in J
      /\ \A x, y \in Nodes : {x, y} \in g.edges => <<x, y>> \in J /\ <<x, y>> \notin D /\ <<y, x>> \notin D
      /\ D \subseteq Arcs
  <2>1. \A x, y \in Nodes : HasConnection(g, x, y) <=> <<x, y>> \in J
    BY JoinedFacts
  <2>2. \A x, y \in Nodes : <<x, y>> \in J <=> <<y, x>> \in J
    BY JoinedFacts DEF Symmetric
  <2>3. \A x, y \in Nodes : {x, y} \in g.edges => <<x, y>> \in J /\ <<x, y>> \notin D /\ <<y, x>> \notin D
    BY JoinedFacts DEF Open
  <2> HIDE DEF J
  <2>4. QED BY <2>1, <2>2, <2>3 DEF Graphs
<1>2. ASSUME NEW new, \A a \in new : a \in Arcs /\ Ends(a) \in g.edges
      PROVE  new \subseteq J
  <2>1. \A a \in new : Ends(a) \in Skeleton(g)
    BY <1>2 DEF Skeleton
  <2>2. QED BY <1>2, <2>1 DEF Links
<1> HIDE DEF J
<1>3. ASSUME NEW arcs \in SUBSET g.arcs, NEW x \in Nodes, NEW y \in Nodes, <<x, y>> \in Rule1Arcs(g, arcs)
      PROVE  Follows(D, J, V, x, y)
  <2>1. {x, y} \in g.edges
    BY <1>3 DEF Rule1Arcs, Ends
  <2>2. PICK b \in arcs : b[2] = x /\ ~HasConnection(g, b[1], y)
    BY <1>3 DEF Rule1Arcs
  <2>3. PICK z \in Nodes : b = <<z, x>> /\ <<z, x>> \in D
    BY <1>1, <2>2 DEF Arcs
  <2>4. <<z, y>> \notin J
    BY <1>1, <2>2, <2>3
  <2>5. z # y /\ <<y, x>> \notin V
    BY <1>1, <2>1, <2>3
  <2>6. QED BY <2>3, <2>4, <2>5 DEF Follows, ByRule1
<1>4. ASSUME NEW x \in Nodes, NEW y \in Nodes, <<x, y>> \in Rule2Arcs(g)
      PROVE  Follows(D, J, V, x, y)
  <2>1. Children(g, x) \cap Parents(g, y) # {}
    BY <1>4 DEF Rule2Arcs
  <2>2. QED BY <2>1 DEF Follows, ByRule2, Children, Parents
<1>5. ASSUME NEW n \in Nodes, NEW x \in Nodes, NEW y \in Nodes, <<x, y>> \in Rule3Arcs(g, n)
      PROVE  Follows(D, J, V, x, y)
  <2>1. PICK p \in Neighbors(g, x) \cap Parents(g, y), q \in Neighbors(g, x) \cap Parents(g, y) :
               p # q /\ ~HasConnection(g, p, q)
    BY <1>5 DEF Rule3Arcs
  <2>2. p \in Nodes /\ q \in Nodes /\ {x, p} \in g.edges /\ {x, q} \in g.edges
        /\ <<p, y>> \in D /\ <<q, y>> \in D
    BY <2>1 DEF Neighbors, Parents
  <2>3. <<p, q>> \notin J /\ <<x, p>> \in J /\ <<x, q>> \in J /\ <<p, x>> \notin V
    BY <1>1, <2>1, <2>2
  <2>4. QED BY <2>1, <2>2, <2>3 DEF Follows, ByRule3
<1>6. \A new : /\ \/ \E arcs \in SUBSET g.arcs : new = Rule1Arcs(g, arcs)
                  \/ new = Rule2Arcs(g)
                  \/ \E n \in Nodes : new = Rule3Arcs(g, n)
               => /\ new \subseteq J
                  /\ \A x, y \in Nodes : <<x, y>> \in new => Follows(g.arcs, J, V, x, y)
  <2>1. SUFFICES ASSUME NEW new,
                    \/ \E arcs \in SUBSET g.arcs : new = Rule1Arcs(g, arcs)
                    \/ new = Rule2Arcs(g)
                    \/ \E n \in Nodes : new = Rule3Arcs(g, n)
                 PROVE  new \subseteq J /\ \A x, y \in Nodes : <<x, y>> \in new => Follows(D, J, V, x, y)
    BY Zenon DEF D
  <2>2. \A a \in new : a \in Arcs /\ Ends(a) \in g.edges
    BY <2>1 DEF Rule1Arcs, Rule2Arcs, Rule3Arcs
  <2>3. \A x, y \in Nodes : <<x, y>> \in new => Follows(D, J, V, x, y)
    BY <1>3, <1>4, <1>5, <2>1
  <2>4. QED BY <1>2, <2>2, <2>3
<1>7. QED BY <1>6 DEF J

\* Where the rules find nothing, no rule applies.
LEMMA RulesExhausted ==
    ASSUME NEW g \in Graphs, NoOverlap(g),
           Rule1Arcs(g, g.arcs) = {}, Rule2Arcs(g) = {}, \A n \in Nodes : Rule3Arcs(g, n) = {}
    PROVE  RulesDone(Links(g), g.arcs)
<1> DEFINE J == Links(g)
           D == g.arcs
<1>1. /\ \A x, y \in Nodes : HasConnection(g, x, y) <=> <<x, y>> \in J
      /\ \A x, y \in Nodes : {x, y} \in g.edges <=> Open(J, D, x, y)
      /\ \A x, y \in Nodes : Open(J, D, x, y) => x # y
      /\ \A x, y \in Nodes : <<x, y>> \in Arcs => Ends(<<x, y>>) = {x, y}
      /\ \A x, y \in Nodes : x # y => <<x, y>> \in Arcs
  <2>1. \A x, y \in Nodes : Open(J, D, x, y) => x # y
    BY JoinedFacts DEF Open, Symmetric, Arcs
  <2>2. QED BY <2>1, JoinedFacts DEF Ends, Arcs
<1> HIDE DEF J
<1>2. ASSUME NEW x \in Nodes, NEW y \in Nodes, NEW z \in Nodes,
             <<x, y>> \in D, Open(J, D, y, z), x # z
      PROVE  <<x, z>> \in J
  <2>1. SUFFICES ASSUME <<x, z>> \notin J PROVE FALSE
    OBVIOUS
  <2>2. <<y, z>> \in Arcs /\ Ends(<<y, z>>) \in g.edges /\ ~HasConnection(g, x, z)
    BY <1>1, <1>2, <2>1
  <2>3. \E b \in D : b[2] = <<y, z>>[1] /\ ~HasConnection(g, b[1], <<y, z>>[2])
    BY <1>2, <2>2
  <2>4. <<y, z>> \in Rule1Arcs(g, D)
    BY <2>2, <2>3 DEF Rule1Arcs
  <2>5. QED BY <2>4
<1>3. ASSUME NEW x \in Nodes, NEW y \in Nodes, NEW z \in Nodes,
             <<x, y>> \in D, <<y, z>> \in D, Open(J, D, x, z)
      PROVE  FALSE
  <2> DEFINE path(a) == Children(g, a[1]) \cap Parents(g, a[2]) # {}
  <2>1. path(<<x, z>>)
    BY <1>3 DEF Children, Parents
  <2>2. <<x, z>> \in Arcs /\ <<z, x>> \in Arcs /\ Ends(<<x, z>>) = {x, z} /\ Ends(<<z, x>>) = {x, z}
        /\ {x, z} \in g.edges
    BY <1>1, <1>3 DEF Ends
  <2>3. Reverse(<<x, z>>) = <<z, x>> /\ Reverse(<<z, x>>) = <<x, z>>
    BY DEF Reverse
  <2>4. Rule2Arcs(g) = {a \in Arcs : Ends(a) \in g.edges /\ path(a) /\ (a[1] < a[2] \/ ~path(Reverse(a)))}
    BY DEF Rule2Arcs
  <2> HIDE DEF path
  <2>5. x < z \/ z < x
    BY <1>1, <1>3, NodesAssumption
  <2>6. <<x, z>> \notin Rule2Arcs(g) /\ <<z, x>> \notin Rule2Arcs(g)
    OBVIOUS
  <2>7. ~(x < z) /\ path(<<z, x>>)
    BY <2>1, <2>2, <2>3, <2>4, <2>6
  <2>8. ~(z < x)
    BY <2>2, <2>3, <2>4, <2>6, <2>7
  <2>9. QED BY <2>5, <2>7, <2>8
<1>4. ASSUME NEW x \in Nodes, NEW y \in Nodes, NEW u \in Nodes, NEW v \in Nodes,
             Open(J, D, x, y), Open(J, D, x, u), Open(J, D, x, v),
             <<u, y>> \in D, <<v, y>> \in D, u # v
      PROVE  <<u, v>> \in J
  <2>1. SUFFICES ASSUME <<u, v>> \notin J PROVE FALSE
    OBVIOUS
  <2>2. {x, u} \in g.edges /\ {x, v} \in g.edges /\ {x, y} \in g.edges
    BY <1>1, <1>4
  <2>3. ~HasConnection(g, u, v)
    BY <1>1, <2>1
  <2>4. <<x, y>> \in Arcs /\ Ends(<<x, y>>) \in g.edges
    <3>1. x # y
      BY <1>1, <1>4
    <3>2. QED BY <2>2, <3>1 DEF Arcs, Ends
  <2>5. u \in Neighbors(g, x) \cap Parents(g, y) /\ v \in Neighbors(g, x) \cap Parents(g, y)
    BY <1>4, <2>2 DEF Neighbors, Parents
  <2>6. <<x, y>>[1] = x /\ <<x, y>>[2] = y
    OBVIOUS
  <2>7. <<x, y>> \in Rule3Arcs(g, y)
    BY <1>4, <2>3, <2>4, <2>5, <2>6 DEF Rule3Arcs
  <2>8. QED BY <2>7
<1>5. QED BY <1>2, <1>3, <1>4 DEF RulesDone, J

\* Nothing is restricted where the test is faithful.
LEMMA NothingRestricted ==
    ASSUME OrientationInv, NEW d, Faithful(task, d)
    PROVE  /\ d \in Graphs /\ IsDag(d)
           /\ task.nodes = Nodes /\ task.interface = {}
           /\ restrictions = [arcWhitelist |-> {}, edgeWhitelist |-> {},
                              arcBlacklist |-> {}, edgeBlacklist |-> {}]
<1>1. /\ task.arcBlacklist = {} /\ task.arcWhitelist = {}
      /\ task.edgeBlacklist = {} /\ task.edgeWhitelist = {}
      /\ restrictions = ValidateRestrictions(task)
  BY DEF Faithful, OrientationInv
<1>2. DerivedWhitelist(task) = {}
  BY <1>1 DEF DerivedWhitelist
<1>3. restrictions = [arcWhitelist |-> {}, edgeWhitelist |-> {}, arcBlacklist |-> {}, edgeBlacklist |-> {}]
  BY <1>1, <1>2 DEF ValidateRestrictions
<1>4. QED BY <1>3 DEF Faithful

LEMMA RestrictedDirects ==
    ASSUME OrientationInv, NEW d, Faithful(task, d), Directed(d), DirectRestricted
    PROVE  Directed(d)'
<1>1. /\ pdag \in Graphs /\ NoOverlap(pdag)
      /\ task.interface = {} /\ restrictions.arcBlacklist = {}
  BY NothingRestricted DEF OrientationInv
<1>2. DirectAll(pdag, {}) = pdag
  BY <1>1, DirectAdds
<1>3. /\ phase = "found" /\ phase' = "evaluate"
      /\ pdag' = DirectAll(DirectAll(pdag, {}),
                           {Reverse(a) : a \in {a \in {} : Ends(a) \in DirectAll(pdag, {}).edges}})
  <2> DEFINE fromInterface == {a \in Arcs : a[1] \in task.interface /\ Ends(a) \in pdag.edges}
  <2>1. fromInterface = {}
    BY <1>1
  <2>2. /\ phase = "found" /\ phase' = "evaluate"
        /\ pdag' = DirectAll(DirectAll(pdag, fromInterface),
               {Reverse(a) : a \in {a \in restrictions.arcBlacklist : Ends(a) \in DirectAll(pdag, fromInterface).edges}})
    BY DEF DirectRestricted
  <2> HIDE DEF fromInterface
  <2>3. QED BY <1>1, <2>1, <2>2
<1>4. {Reverse(a) : a \in {a \in {} : Ends(a) \in pdag.edges}} = {}
  OBVIOUS
<1>5. pdag' = pdag
  BY <1>2, <1>3, <1>4
<1>6. Skeleton(pdag) = Skeleton(d) /\ pdag.arcs = {}
  BY <1>3 DEF Directed
<1>7. QED BY <1>3, <1>5, <1>6 DEF Directed, RoundInv, Ruling

LEMMA EvaluateDirects ==
    ASSUME OrientationInv, NEW d, Faithful(task, d), Directed(d),
           NEW seps, EvaluateVStructures(seps), Evaluates(seps, d)
    PROVE  Directed(d)'
<1>1. /\ pdag \in Graphs /\ NoOverlap(pdag) /\ d \in Graphs /\ IsDag(d) /\ task.nodes = Nodes
  BY NothingRestricted DEF OrientationInv
<1>2. phase = "evaluate" /\ pdag.arcs = {} /\ Skeleton(pdag) = Skeleton(d) /\ pdag.edges = Skeleton(d)
      /\ UNCHANGED pdag
  <2>1. phase = "evaluate" /\ UNCHANGED pdag
    BY DEF EvaluateVStructures
  <2>2. pdag.arcs = {} /\ Skeleton(pdag) = Skeleton(d)
    BY <2>1 DEF Directed
  <2>3. Skeleton(pdag) = pdag.edges
    BY <2>2 DEF Skeleton
  <2>4. QED BY <2>1, <2>2, <2>3
<1>3. ASSUME NEW x \in Nodes
      PROVE  VStructuresAt(seps, pdag, x) = PairsAt(d, x)
  <2> DEFINE among == {pq \in CandidatePairs(pdag, x) : IsVStructure(seps, pdag, pq, x)}
  <2>1. Parents(pdag, x) = {}
    BY <1>2 DEF Parents
  <2>2. \A found : MixedPairs(pdag, x, found) = {}
    BY <2>1 DEF MixedPairs
  <2>3. VStructuresAt(seps, pdag, x) = among
    BY <2>2 DEF VStructuresAt
  <2>4. among \subseteq PairsAt(d, x)
    BY DEF Evaluates, PairsAt, CandidatePairs
  <2>5. ASSUME NEW pq \in PairsAt(d, x)
        PROVE  pq \in among
    <3>1. pq \in Edges /\ \A p \in pq : <<p, x>> \in d.arcs
      BY <1>1, ColliderFacts
    <3>2. \A p \in pq : p \in Nodes /\ {p, x} \in Skeleton(d)
      BY <1>1, <3>1, DagOrients, EdgeEnds
    <3>3. \A p \in pq : p \in Neighbors(pdag, x)
      <4>1. \A p \in pq : {p, x} = {x, p}
        OBVIOUS
      <4>2. QED BY <1>2, <3>2, <4>1 DEF Neighbors
    <3>4. pq \in CandidatePairs(pdag, x)
      BY <3>1, <3>3 DEF CandidatePairs
    <3>5. QED BY <3>4 DEF Evaluates, PairsAt
  <2>6. QED BY <2>3, <2>4, <2>5
<1>4. phase' = "crashed" \/ (phase' = "vstructures" /\ \A x \in Nodes : evaluated'[x] = PairsAt(d, x))
  <2>1. \/ phase' = "crashed"
        \/ /\ phase' = "vstructures"
           /\ evaluated' = [x \in Nodes |-> IF x \in task.nodes THEN VStructuresAt(seps, pdag, x) ELSE {}]
    BY DEF EvaluateVStructures
  <2>2. QED BY <1>1, <1>3, <2>1
<1>5. phase' = "vstructures" => Applying(d)'
  BY <1>2, <1>4 DEF Applying
<1>6. QED BY <1>2, <1>4, <1>5 DEF Directed, RoundInv, Ruling

LEMMA ApplyDirects ==
    ASSUME OrientationInv, NEW d, Faithful(task, d), Directed(d),
           NEW child \in Nodes, ApplyAtChild(child)
    PROVE  Directed(d)'
<1> DEFINE pairs == evaluated[child]
           A == Into({pq \in pairs : Applicable(pdag, pq, child)}, child)
           directed == DirectAll(pdag, A)
           V == Colliders(d)
<1>1. /\ pdag \in Graphs /\ NoOverlap(pdag) /\ d \in Graphs /\ IsDag(d)
      /\ restrictions.arcBlacklist = {} /\ restrictions.arcWhitelist = {}
  BY NothingRestricted DEF OrientationInv
<1>2. /\ phase = "vstructures" /\ phase' = "vstructures" /\ pairs # {}
      /\ pdag' = IF task.bidirected THEN directed
                 ELSE [directed EXCEPT !.arcs = @ \ {Reverse(a) : a \in A}]
      /\ evaluated' = [evaluated EXCEPT ![child] = {}]
  BY DEF ApplyAtChild, ApplyVStructures
<1>3. Applying(d) /\ Skeleton(pdag) = Skeleton(d)
  BY <1>2 DEF Directed
<1>4. pairs = PairsAt(d, child)
  BY <1>2, <1>3 DEF Applying
<1>5. A = Into(PairsAt(d, child), child)
  <2>1. \A pq \in pairs : Applicable(pdag, pq, child)
    BY <1>1 DEF Applicable
  <2>2. {pq \in pairs : Applicable(pdag, pq, child)} = pairs
    BY <2>1
  <2>3. QED BY <1>4, <2>2
<1> HIDE DEF A, pairs
<1>6. /\ A \subseteq V /\ V \subseteq d.arcs /\ d.arcs \subseteq Arcs
      /\ \A a \in d.arcs : Reverse(a) \notin d.arcs /\ Reverse(a) \in Arcs /\ a \in Links(d)
  BY <1>1, <1>5, ColliderFacts
<1>7. pdag.arcs \subseteq V
  BY <1>3 DEF Applying
<1> HIDE DEF V
<1>8. /\ directed \in Graphs
      /\ pdag.arcs \subseteq directed.arcs /\ directed.arcs \subseteq pdag.arcs \cup A
      /\ \A a \in A : Ends(a) \in pdag.edges => a \in directed.arcs
  <2>1. A \in SUBSET Arcs
    BY <1>6
  <2> HIDE DEF A
  <2>2. QED BY <1>1, <2>1, DirectAllEffect
<1> HIDE DEF directed
<1>9. ASSUME NEW a \in A
      PROVE  a \in directed.arcs
  <2>1. a \in Arcs /\ Ends(a) \in Skeleton(pdag) /\ Reverse(a) \notin pdag.arcs
    BY <1>3, <1>6, <1>7 DEF Links
  <2>2. CASE Ends(a) \in pdag.edges
    BY <1>8, <2>2
  <2>3. CASE Ends(a) \notin pdag.edges
    <3>1. PICK b \in pdag.arcs : Ends(a) = Ends(b)
      BY <2>1, <2>3 DEF Skeleton
    <3>2. a = b
      BY <1>6, <1>7, <2>1, <3>1, SameEnds, ReverseArc
    <3>3. QED BY <1>8, <3>1, <3>2
  <2>4. QED BY <2>2, <2>3
<1>10. directed.arcs = pdag.arcs \cup A
  BY <1>8, <1>9
<1>11. pdag'.arcs = pdag.arcs \cup A
  <2>1. {Reverse(a) : a \in A} \cap directed.arcs = {}
    BY <1>6, <1>7, <1>10
  <2>2. directed = [arcs |-> directed.arcs, edges |-> directed.edges]
    BY <1>8 DEF Graphs
  <2>3. QED BY <1>2, <1>10, <2>1, <2>2
<1>12. Skeleton(pdag') = Skeleton(d)
  BY <1>3, ApplyStep DEF Steady
<1>13. Applying(d)'
  <2>1. pdag'.arcs \subseteq V
    BY <1>6, <1>7, <1>11
  <2>2. ASSUME NEW x \in Nodes
        PROVE  \/ evaluated'[x] = PairsAt(d, x)
               \/ evaluated'[x] = {} /\ Into(PairsAt(d, x), x) \subseteq pdag'.arcs
    <3>1. evaluated \in [Nodes -> SUBSET Edges]
      BY DEF OrientationInv
    <3>2. CASE x = child
      BY <1>2, <1>5, <1>11, <3>1, <3>2
    <3>3. CASE x # child
      <4>1. evaluated'[x] = evaluated[x]
        BY <1>2, <3>1, <3>3
      <4>2. QED BY <1>3, <1>11, <4>1 DEF Applying
    <3>4. QED BY <3>2, <3>3
  <2>3. QED BY <2>1, <2>2 DEF Applying, V
<1>14. QED BY <1>2, <1>12, <1>13 DEF Directed, RoundInv, Ruling

\* A round of the rules can start on a graph whose arcs follow from the v-structures.
LEMMA RoundDirects ==
    ASSUME NEW d, Skeleton(pdag) = Skeleton(d), Colliders(d) \subseteq pdag.arcs,
           Justified(pdag.arcs, Links(d), Colliders(d)), StartRound
    PROVE  Directed(d)'
<1>1. phase' = "rule1" /\ toCheck' = pdag.arcs /\ UNCHANGED pdag
  BY DEF StartRound
<1>2. RoundInv'
  BY <1>1 DEF RoundInv
<1>3. QED BY <1>1, <1>2 DEF Directed

LEMMA AllAppliedDirects ==
    ASSUME OrientationInv, NEW d, Faithful(task, d), Directed(d), AllApplied
    PROVE  Directed(d)'
<1>1. d \in Graphs /\ IsDag(d)
  BY NothingRestricted
<1>2. phase = "vstructures" /\ (\A x \in Nodes : evaluated[x] = {}) /\ StartRound
  BY DEF AllApplied
<1>3. Applying(d) /\ Skeleton(pdag) = Skeleton(d)
  BY <1>2 DEF Directed
<1>4. /\ Colliders(d) \subseteq d.arcs /\ d.arcs \subseteq Links(d) /\ Links(d) \subseteq Arcs
      /\ \A a \in Colliders(d) : a[2] \in Nodes /\ a \in Into(PairsAt(d, a[2]), a[2])
  BY <1>1, ColliderFacts
<1>5. \A x \in Nodes : Into(PairsAt(d, x), x) \subseteq pdag.arcs
  <2>1. ASSUME NEW x \in Nodes, PairsAt(d, x) = {}
        PROVE  Into(PairsAt(d, x), x) = {}
    BY <2>1 DEF Into
  <2>2. QED BY <1>2, <1>3, <2>1 DEF Applying
<1>6. Colliders(d) = pdag.arcs
  BY <1>3, <1>4, <1>5 DEF Applying
<1>7. Justified(pdag.arcs, Links(d), Colliders(d))
  <2> DEFINE V == Colliders(d)
  <2>1. V \subseteq Links(d) /\ V \subseteq Arcs
    BY <1>4
  <2> HIDE DEF V
  <2>2. ASSUME NEW B \in SUBSET V, B # {}
        PROVE  \E x, y \in Nodes : <<x, y>> \in B /\ Follows(V \ B, Links(d), V, x, y)
    <3>1. PICK a \in B : TRUE
      BY <2>2
    <3>2. PICK x \in Nodes, y \in Nodes : a = <<x, y>>
      BY <2>1 DEF Arcs
    <3>3. QED BY <3>1, <3>2 DEF Follows
  <2>3. QED BY <1>6, <2>1, <2>2 DEF Justified, V
<1>8. QED BY <1>2, <1>3, <1>6, <1>7, RoundDirects

\* A rule that directs what it finds.
LEMMA RuleDirects ==
    ASSUME OrientationInv, NEW d, Faithful(task, d), Directed(d), phase \in Ruling,
           NEW new, \/ \E arcs \in SUBSET pdag.arcs : new = Rule1Arcs(pdag, arcs)
                    \/ new = Rule2Arcs(pdag)
                    \/ \E n \in Nodes : new = Rule3Arcs(pdag, n),
           pdag' = DirectAll(pdag, new)
    PROVE  /\ pdag'.arcs = pdag.arcs \cup new
           /\ Skeleton(pdag') = Skeleton(d)
           /\ Colliders(d) \subseteq pdag'.arcs
           /\ Justified(pdag'.arcs, Links(d), Colliders(d))
           /\ new = {} => pdag' = pdag
<1>1. pdag \in Graphs /\ NoOverlap(pdag) /\ d \in Graphs /\ IsDag(d)
  BY NothingRestricted DEF OrientationInv
<1>2. /\ Skeleton(pdag) = Skeleton(d) /\ Colliders(d) \subseteq pdag.arcs
      /\ Justified(pdag.arcs, Links(d), Colliders(d))
  BY DEF Directed
<1>3. Links(pdag) = Links(d) /\ Links(d) \subseteq Arcs
  BY <1>2 DEF Links
<1>4. /\ new \subseteq Links(d)
      /\ \A x, y \in Nodes : <<x, y>> \in new => Follows(pdag.arcs, Links(d), Colliders(d), x, y)
  <2> DEFINE V == Colliders(d)
  <2>1. V \subseteq pdag.arcs
    BY <1>2
  <2> HIDE DEF V
  <2>2. /\ new \subseteq Links(pdag)
        /\ \A x, y \in Nodes : <<x, y>> \in new => Follows(pdag.arcs, Links(pdag), V, x, y)
    BY <1>1, <2>1, RulesFollow
  <2>3. QED BY <1>3, <2>2 DEF V
<1>5. new \in SUBSET Arcs /\ \A a \in new : Ends(a) \in pdag.edges
  BY DEF Rule1Arcs, Rule2Arcs, Rule3Arcs
<1>6. pdag'.arcs = pdag.arcs \cup new /\ (new = {} => pdag' = pdag)
  BY <1>1, <1>5, DirectAdds
<1>7. Skeleton(pdag') = Skeleton(d)
  BY <1>1, <1>2, <1>5, DirectAllEffect
<1>8. Justified(pdag'.arcs, Links(d), Colliders(d))
  <2> DEFINE V == Colliders(d)
             J == Links(d)
  <2>1. J \subseteq Arcs /\ Justified(pdag.arcs, J, V) /\ new \in SUBSET J
        /\ \A x, y \in Nodes : <<x, y>> \in new => Follows(pdag.arcs, J, V, x, y)
    BY <1>2, <1>3, <1>4
  <2> HIDE DEF V, J
  <2>2. Justified(pdag.arcs \cup new, J, V)
    BY <2>1, RuleAdds
  <2>3. QED BY <1>6, <2>2 DEF V, J
<1>9. QED BY <1>2, <1>6, <1>7, <1>8

LEMMA RulesDirect ==
    ASSUME OrientationInv, NEW d, Faithful(task, d), Directed(d),
           Rule1 \/ Rule2 \/ (\E n \in Nodes : Rule3(n)) \/ EndRound
    PROVE  Directed(d)'
<1> DEFINE Sound(g) == /\ Skeleton(g) = Skeleton(d) /\ Colliders(d) \subseteq g.arcs
                       /\ Justified(g.arcs, Links(d), Colliders(d))
<1>1. ASSUME Sound(pdag'), RoundInv', phase' \in {"rule1", "rule2", "rule3", "done"}
      PROVE  Directed(d)'
  BY <1>1 DEF Directed
<1>2. RoundInv
  BY DEF Directed
<1>3. CASE Rule1
  <2> DEFINE new == Rule1Arcs(pdag, toCheck)
  <2>1. /\ phase = "rule1" /\ phase' = IF new = {} THEN "rule2" ELSE "rule1"
        /\ pdag' = DirectAll(pdag, new) /\ toCheck' = new
        /\ changed' = (changed \/ new # {})
    BY <1>3 DEF Rule1
  <2>2. toCheck \subseteq pdag.arcs /\ (changed \/ toCheck = pdag.arcs)
    BY <1>2, <2>1 DEF RoundInv
  <2>3. /\ pdag'.arcs = pdag.arcs \cup new /\ Sound(pdag')
        /\ new = {} => pdag' = pdag
    <3>1. \E arcs \in SUBSET pdag.arcs : new = Rule1Arcs(pdag, arcs)
      BY <2>2
    <3>2. phase \in Ruling
      BY <2>1 DEF Ruling
    <3> HIDE DEF new
    <3>3. QED BY <2>1, <3>1, <3>2, RuleDirects
  <2>4. RoundInv'
    <3>1. CASE new # {}
      BY <2>1, <2>3, <3>1 DEF RoundInv
    <3>2. CASE new = {}
      <4>1. phase' = "rule2" /\ pdag' = pdag /\ (changed' <=> changed)
        BY <2>1, <2>3, <3>2
      <4>2. ~changed => Rule1Arcs(pdag, pdag.arcs) = {}
        BY <2>2, <3>2
      <4>3. QED BY <4>1, <4>2 DEF RoundInv
    <3>3. QED BY <3>1, <3>2
  <2>5. QED BY <1>1, <2>1, <2>3, <2>4
<1>4. CASE Rule2
  <2> DEFINE new == Rule2Arcs(pdag)
  <2>1. /\ phase = "rule2" /\ phase' = "rule3"
        /\ pdag' = DirectAll(pdag, new) /\ nextNode' = 0
        /\ changed' = (changed \/ new # {})
    BY <1>4 DEF Rule2
  <2>2. Sound(pdag') /\ (new = {} => pdag' = pdag)
    <3>1. phase \in Ruling /\ new = Rule2Arcs(pdag)
      BY <2>1 DEF Ruling
    <3> HIDE DEF new
    <3>2. QED BY <2>1, <3>1, RuleDirects
  <2>3. ~changed => Rule1Arcs(pdag, pdag.arcs) = {}
    BY <1>2, <2>1 DEF RoundInv
  <2>4. RoundInv'
    <3>1. CASE new # {}
      BY <2>1, <3>1 DEF RoundInv
    <3>2. CASE new = {}
      <4>1. pdag' = pdag /\ (changed' <=> changed) /\ Rule2Arcs(pdag) = {}
        BY <2>1, <2>2, <3>2
      <4>2. QED BY <2>1, <2>3, <4>1 DEF RoundInv
    <3>3. QED BY <3>1, <3>2
  <2>5. QED BY <1>1, <2>1, <2>2, <2>4
<1>5. ASSUME NEW n \in Nodes, Rule3(n)
      PROVE  Directed(d)'
  <2> DEFINE new == Rule3Arcs(pdag, n)
  <2>1. /\ phase = "rule3" /\ phase' = "rule3" /\ pdag' = DirectAll(pdag, new) /\ changed' = TRUE
    BY <1>5 DEF Rule3
  <2>2. Sound(pdag')
    <3>1. phase \in Ruling /\ \E m \in Nodes : new = Rule3Arcs(pdag, m)
      BY <2>1 DEF Ruling
    <3> HIDE DEF new
    <3>2. QED BY <2>1, <3>1, RuleDirects
  <2>3. RoundInv'
    BY <2>1 DEF RoundInv
  <2>4. QED BY <1>1, <2>1, <2>2, <2>3
<1>6. CASE EndRound
  <2>1. phase = "rule3" /\ \A n \in Nodes : ~Rule3Due(n)
    BY <1>6 DEF EndRound
  <2>2. Sound(pdag)
    BY <2>1 DEF Directed, Ruling
  <2>3. CASE changed
    <3>1. StartRound
      BY <1>6, <2>3 DEF EndRound
    <3>2. QED BY <2>2, <3>1, RoundDirects
  <2>4. CASE ~changed
    <3>1. phase' = "done" /\ UNCHANGED pdag
      BY <1>6, <2>4 DEF EndRound
    <3>2. Rule1Arcs(pdag, pdag.arcs) = {} /\ Rule2Arcs(pdag) = {} /\ nextNode = 0
      BY <1>2, <2>1, <2>4 DEF RoundInv
    <3>3. \A n \in Nodes : Rule3Arcs(pdag, n) = {}
      BY <2>1, <3>2, NodesAssumption DEF Rule3Due
    <3>4. RoundInv'
      BY <3>1, <3>2, <3>3 DEF RoundInv
    <3>5. Sound(pdag')
      BY <2>2, <3>1
    <3>6. QED BY <1>1, <3>1, <3>4, <3>5
  <2>5. QED BY <2>3, <2>4
<1>7. QED BY <1>3, <1>4, <1>5, <1>6

\* A step of the orientation.
LEMMA OrientDirects ==
    ASSUME OrientationInv, NEW d, Faithful(task, d), Directed(d),
           NEW seps, Orient(seps), phase = "evaluate" => Evaluates(seps, d)
    PROVE  Directed(d)'
<1>1. EvaluateVStructures(seps) => phase = "evaluate"
  BY DEF EvaluateVStructures
<1>2. QED BY <1>1, RestrictedDirects, EvaluateDirects, ApplyDirects, AllAppliedDirects, RulesDirect
          DEF Orient

\* The orientation that PC and MMPC share (direct_unshielded_triples and the Meek rules of
\* constraint.hpp), started with the skeleton of d and the answers of a test that is
\* faithful to d, ends with the graph of the equivalence class of d, in every order in which
\* v-structures are applied and rules direct edges.
THEOREM OrientationComplete ==
    ASSUME OrientationInv, NEW d, Faithful(task, d), Directed(d), phase = "done"
    PROVE  pdag = ClassGraph(d)
<1>1. pdag \in Graphs /\ NoOverlap(pdag) /\ d \in Graphs /\ IsDag(d)
  BY NothingRestricted DEF OrientationInv
<1>2. /\ Skeleton(pdag) = Skeleton(d) /\ Colliders(d) \subseteq pdag.arcs
      /\ Justified(pdag.arcs, Links(d), Colliders(d)) /\ RoundInv
  BY DEF Directed, Ruling
<1>3. Links(pdag) = Links(d)
  BY <1>2 DEF Links
<1>4. RulesDone(Links(pdag), pdag.arcs)
  BY <1>1, <1>2, RulesExhausted DEF RoundInv
<1>5. Symmetric(Links(d)) /\ Orients(d.arcs, Links(d)) /\ ArcsAcyclic(d.arcs)
  BY <1>1, JoinedFacts, DagOrients
<1>6. Completed(d.arcs, Links(d), pdag.arcs)
  BY <1>2, <1>3, <1>4, <1>5 DEF Completed, Colliders
<1>7. QED BY <1>1, <1>2, <1>6, CompletedIsClass

-------------------------------------------------------------------------------
(* What a faithful test answers.                                           *)

\* No path of an acyclic graph leads back to its first node.
LEMMA NoPathBack ==
    ASSUME NEW N, IsFiniteSet(N), NEW ch \in [N -> SUBSET N], Acyclic(N, ch), NEW x \in N
    PROVE  ~HasPath(N, ch, x, x)
<1> DEFINE D == Closure(N, ch, ch[x])
<1>1. ch[x] \subseteq D /\ D \in SUBSET N /\ IsClosed(ch, D)
  BY ClosureIsClosed
<1>2. SUFFICES ASSUME x \in D PROVE FALSE
  BY DEF HasPath
<1>3. PICK n \in D : \A m \in D : n \notin ch[m]
  <2> HIDE DEF D
  <2>1. QED BY <1>1, <1>2, AcyclicHasSource
<1>4. IsClosed(ch, D \ {n}) /\ ch[x] \subseteq D \ {n} /\ D \ {n} \in SUBSET N
  <2> HIDE DEF D
  <2>1. QED BY <1>1, <1>2, <1>3 DEF IsClosed
<1>5. D \subseteq D \ {n}
  BY <1>4, ClosureIsLeast
<1>6. QED BY <1>3, <1>5

\* The nodes that separation looks at, and the moral graph on them.
Kin(d, e, S) == Closure(Nodes, [x \in Nodes |-> Parents(d, x)], e \cup S)
Moral(d, e, S) ==
    [x \in Nodes |->
        IF x \in S THEN {}
        ELSE {y \in Kin(d, e, S) \ {x} : \/ HasConnection(d, x, y)
                                         \/ \E z \in Kin(d, e, S) : {x, y} \subseteq Parents(d, z)}]

\* K and M are those nodes and that graph for the ends x and y of e.
Judged(d, e, S, K, M) == S \in SUBSET (Nodes \ e) /\ K = Kin(d, e, S) /\ M = Moral(d, e, S)

Judgement(d, x, y, S, K, M) ==
    /\ x \in K /\ y \in K /\ S \subseteq K /\ K \in SUBSET Nodes
    /\ \A z \in K, p \in Nodes : <<p, z>> \in d.arcs => p \in K
    /\ M \in [Nodes -> SUBSET Nodes]
    /\ \A z, w \in Nodes : w \in M[z] <=>
          /\ z \notin S /\ w \in K /\ w # z
          /\ HasConnection(d, z, w) \/ \E c \in K : <<z, c>> \in d.arcs /\ <<w, c>> \in d.arcs

LEMMA SeparationFacts ==
    ASSUME NEW d \in Graphs, NEW x \in Nodes, NEW y \in Nodes, x # y, NEW e, e = {x, y},
           NEW S, NEW K, NEW M, Judged(d, e, S, K, M)
    PROVE  /\ Separated(d, e, S) <=> ~HasPath(Nodes, M, x, y) /\ ~HasPath(Nodes, M, y, x)
           /\ Judgement(d, x, y, S, K, M)
<1> DEFINE pa == [z \in Nodes |-> Parents(d, z)]
           seeds == e \cup S
           Beside(z) == {v \in K \ {z} : HasConnection(d, z, v) \/ \E c \in K : {z, v} \subseteq Parents(d, c)}
<1> USE DEF Judged
<1>1. Separated(d, e, S) <=> \A a, b \in e : a # b => ~HasPath(Nodes, M, a, b)
  BY DEF Separated, Moral, Kin
<1>2. Separated(d, e, S) <=> ~HasPath(Nodes, M, x, y) /\ ~HasPath(Nodes, M, y, x)
  BY <1>1
<1>3. pa \in [Nodes -> SUBSET Nodes] /\ seeds \in SUBSET Nodes
  BY DEF Parents
<1>4. seeds \subseteq K /\ K \in SUBSET Nodes /\ IsClosed(pa, K)
  <2>1. K = Closure(Nodes, pa, seeds)
    BY DEF Kin
  <2> HIDE DEF pa, seeds, Judged
  <2>2. /\ seeds \subseteq Closure(Nodes, pa, seeds) /\ Closure(Nodes, pa, seeds) \in SUBSET Nodes
        /\ IsClosed(pa, Closure(Nodes, pa, seeds))
    BY <1>3, ClosureIsClosed
  <2>3. QED BY <2>1, <2>2
<1>5. \A z \in K, p \in Nodes : <<p, z>> \in d.arcs => p \in K
  BY <1>4 DEF IsClosed, Parents
<1>6. M = [z \in Nodes |-> IF z \in S THEN {} ELSE Beside(z)]
  BY DEF Moral
<1>7. ASSUME NEW z \in Nodes, NEW w \in Nodes
      PROVE  w \in Beside(z) <=>
                /\ w \in K /\ w # z
                /\ HasConnection(d, z, w) \/ \E c \in K : <<z, c>> \in d.arcs /\ <<w, c>> \in d.arcs
  <2>1. \A c \in K : {z, w} \subseteq Parents(d, c) <=> <<z, c>> \in d.arcs /\ <<w, c>> \in d.arcs
    BY DEF Parents
  <2>2. QED BY <2>1
<1>8. \A z \in Nodes : Beside(z) \in SUBSET Nodes
  BY <1>4
<1> HIDE DEF Beside
<1>9. M \in [Nodes -> SUBSET Nodes]
  BY <1>6, <1>8
<1>10. \A z, w \in Nodes : w \in M[z] <=> z \notin S /\ w \in Beside(z)
  BY <1>6
<1>11. \A z, w \in Nodes : w \in M[z] <=>
          /\ z \notin S /\ w \in K /\ w # z
          /\ HasConnection(d, z, w) \/ \E c \in K : <<z, c>> \in d.arcs /\ <<w, c>> \in d.arcs
  BY <1>7, <1>10
<1>12. QED BY <1>2, <1>4, <1>5, <1>9, <1>11 DEF Judgement

\* Two steps of the moral graph are a path.
LEMMA ShortPath ==
    ASSUME NEW M \in [Nodes -> SUBSET Nodes], NEW x \in Nodes, NEW y \in Nodes,
           y \in M[x] \/ \E z \in Nodes : z \in M[x] /\ y \in M[z]
    PROVE  HasPath(Nodes, M, x, y)
<1>1. M[x] \subseteq Closure(Nodes, M, M[x]) /\ IsClosed(M, Closure(Nodes, M, M[x]))
  BY ClosureIsClosed
<1>2. QED BY <1>1 DEF HasPath, IsClosed

\* Nothing separates adjacent nodes.
LEMMA AdjacentDepend ==
    ASSUME NEW d \in Graphs, NEW x \in Nodes, NEW y \in Nodes, x # y, NEW e, e = {x, y},
           e \in Skeleton(d), NEW S \in SUBSET (Nodes \ e)
    PROVE  ~Separated(d, e, S)
<1>1. HasConnection(d, x, y)
  BY JoinedFacts
<1>2. PICK K, M : Judged(d, e, S, K, M)
  BY DEF Judged
<1>3. /\ Separated(d, e, S) <=> ~HasPath(Nodes, M, x, y) /\ ~HasPath(Nodes, M, y, x)
      /\ Judgement(d, x, y, S, K, M)
  BY <1>2, SeparationFacts
<1>4. y \in M[x] /\ M \in [Nodes -> SUBSET Nodes]
  BY <1>1, <1>3 DEF Judgement
<1>5. HasPath(Nodes, M, x, y)
  BY <1>4, ShortPath
<1>6. QED BY <1>3, <1>5

\* What separates two nodes contains their common neighbour if and only if it is not
\* their common child.
LEMMA MiddleNode ==
    ASSUME NEW d \in Graphs, IsDag(d), NEW x \in Nodes, NEW y \in Nodes, x # y, NEW e, e = {x, y},
           NEW S \in SUBSET (Nodes \ e), Separated(d, e, S),
           NEW z \in Nodes \ e, {x, z} \in Skeleton(d), {y, z} \in Skeleton(d)
    PROVE  z \in S <=> ~(<<x, z>> \in d.arcs /\ <<y, z>> \in d.arcs)
<1>1. PICK K, M : Judged(d, e, S, K, M)
  BY DEF Judged
<1>2. ~HasPath(Nodes, M, x, y) /\ Judgement(d, x, y, S, K, M)
  BY <1>1, SeparationFacts
<1> USE DEF Judgement
<1>3. HasConnection(d, x, z) /\ HasConnection(d, z, y)
  <2>1. {y, z} = {z, y}
    OBVIOUS
  <2>2. QED BY <2>1, JoinedFacts
<1>4. ~(y \in M[x]) /\ ~(z \in M[x] /\ y \in M[z])
  BY <1>2, ShortPath
<1>5. CASE <<x, z>> \in d.arcs /\ <<y, z>> \in d.arcs
  <2>1. z \in S => y \in M[x]
    BY <1>2, <1>5
  <2>2. QED BY <1>4, <1>5, <2>1
<1>6. CASE ~(<<x, z>> \in d.arcs /\ <<y, z>> \in d.arcs)
  <2>1. <<z, x>> \in d.arcs \/ <<z, y>> \in d.arcs
    BY <1>6, DagOrients
  <2>2. z \in K
    BY <1>2, <2>1
  <2>3. z \notin S => z \in M[x] /\ y \in M[z]
    BY <1>2, <1>3, <2>2
  <2>4. QED BY <1>4, <1>6, <2>3
<1>7. QED BY <1>5, <1>6

\* A node is separated by its parents from a node that is no descendant of it.
LEMMA ParentsSeparate ==
    ASSUME NEW d \in Graphs, IsDag(d), NEW x \in Nodes, NEW y \in Nodes, x # y, NEW e, e = {x, y},
           e \notin Skeleton(d), ~HasPath(Nodes, [z \in Nodes |-> Children(d, z)], x, y),
           NEW S, S = Parents(d, x)
    PROVE  S \in SUBSET (Nodes \ e) /\ Separated(d, e, S)
<1> DEFINE ch == [z \in Nodes |-> Children(d, z)]
           D == Closure(Nodes, ch, ch[x])
<1>1. /\ \A u, w \in Nodes : HasConnection(d, u, w) <=> <<u, w>> \in d.arcs \/ <<w, u>> \in d.arcs
      /\ \A u \in Nodes : <<u, u>> \notin d.arcs
      /\ \A u \in Nodes : u \in S <=> <<u, x>> \in d.arcs
      /\ S \subseteq Nodes
      /\ d.arcs \subseteq Arcs
  <2>1. d.edges = {} /\ d.arcs \subseteq Arcs
    BY DEF IsDag, Graphs
  <2>2. QED BY <2>1 DEF Parents, Arcs, HasConnection
<1>2. S \in SUBSET (Nodes \ e)
  <2>1. <<y, x>> \notin d.arcs
    BY DagOrients
  <2>2. QED BY <1>1, <2>1
<1>3. ch \in [Nodes -> SUBSET Nodes] /\ \A u, w \in Nodes : w \in ch[u] <=> <<u, w>> \in d.arcs
  BY DEF Children
<1>4. Acyclic(Nodes, ch)
  BY DEF IsDag, ArcsAcyclic, Children
<1> HIDE DEF ch
<1>5. /\ x \notin D /\ y \notin D /\ ch[x] \subseteq D /\ D \in SUBSET Nodes
      /\ \A u, w \in Nodes : <<u, w>> \in d.arcs /\ u \in D => w \in D
  <2>1. x \notin D
    BY <1>3, <1>4, NodesAssumption, NoPathBack DEF HasPath
  <2>2. y \notin D
    BY DEF HasPath, ch
  <2>3. ch[x] \subseteq D /\ D \in SUBSET Nodes /\ IsClosed(ch, D)
    BY <1>3, ClosureIsClosed
  <2> HIDE DEF D
  <2>4. QED BY <1>3, <2>1, <2>2, <2>3 DEF IsClosed
<1>6. PICK K, M : Judged(d, e, S, K, M)
  BY <1>2 DEF Judged
<1>7. /\ Separated(d, e, S) <=> ~HasPath(Nodes, M, x, y) /\ ~HasPath(Nodes, M, y, x)
      /\ Judgement(d, x, y, S, K, M)
  BY <1>6, SeparationFacts
<1> USE DEF Judgement
<1>8. K \subseteq Nodes \ D
  <2> DEFINE pa == [z \in Nodes |-> Parents(d, z)]
             seeds == e \cup S
  <2>1. IsClosed(pa, Nodes \ D)
    <3> HIDE DEF D
    <3>1. \A c \in Nodes \ D : Parents(d, c) \subseteq Nodes \ D
      BY <1>5 DEF Parents
    <3>2. QED BY <3>1 DEF IsClosed
  <2>2. seeds \subseteq Nodes \ D
    <3> HIDE DEF D
    <3>1. QED BY <1>1, <1>5
  <2>3. K = Closure(Nodes, pa, seeds)
    BY <1>6 DEF Judged, Kin
  <2> HIDE DEF D, pa, seeds
  <2>4. Nodes \ D \in SUBSET Nodes
    OBVIOUS
  <2>5. Closure(Nodes, pa, seeds) \subseteq Nodes \ D
    BY <2>1, <2>2, <2>4, ClosureIsLeast
  <2>6. QED BY <2>3, <2>5
<1> HIDE DEF D
<1>9. \A c \in K : <<x, c>> \notin d.arcs
  BY <1>3, <1>5, <1>7, <1>8
<1>10. M[x] \subseteq S
  <2>1. ASSUME NEW w \in M[x]
        PROVE  w \in S
    <3>1. w \in Nodes
      BY <1>7
    <3>2. w \in K /\ HasConnection(d, x, w)
      BY <1>7, <1>9, <2>1, <3>1
    <3>3. QED BY <1>1, <1>9, <3>1, <3>2
  <2>2. QED BY <2>1
<1>11. ~HasPath(Nodes, M, x, y)
  <2>1. S \in SUBSET Nodes /\ IsClosed(M, S)
    BY <1>2, <1>7 DEF IsClosed
  <2>2. Closure(Nodes, M, M[x]) \subseteq S
    BY <1>10, <2>1, ClosureIsLeast
  <2>3. QED BY <1>2, <2>2 DEF HasPath
<1>12. ~HasPath(Nodes, M, y, x)
  <2>1. ASSUME NEW w \in K, w # x
        PROVE  M[w] \subseteq K \ {x}
    <3>1. w \in Nodes /\ M[w] \subseteq K
      BY <1>7
    <3>2. ASSUME x \in M[w] PROVE FALSE
      <4>1. w \notin S /\ (HasConnection(d, w, x) \/ \E c \in K : <<w, c>> \in d.arcs /\ <<x, c>> \in d.arcs)
        BY <1>7, <3>1, <3>2
      <4>2. QED BY <1>1, <1>9, <2>1, <3>1, <4>1
    <3>3. QED BY <3>1, <3>2
  <2>2. K \ {x} \in SUBSET Nodes /\ IsClosed(M, K \ {x}) /\ M[y] \subseteq K \ {x}
    BY <1>7, <2>1 DEF IsClosed
  <2>3. Closure(Nodes, M, M[y]) \subseteq K \ {x}
    BY <2>2, ClosureIsLeast
  <2>4. QED BY <2>3 DEF HasPath
<1>13. QED BY <1>2, <1>11, <1>12, <1>7

\* Nodes that are not adjacent are separated by the parents of one of them.
LEMMA SomeParentsSeparate ==
    ASSUME NEW d \in Graphs, IsDag(d), NEW x \in Nodes, NEW y \in Nodes, x # y, NEW e, e = {x, y},
           e \notin Skeleton(d)
    PROVE  \E z \in e : Parents(d, z) \in SUBSET (Nodes \ e) /\ Separated(d, e, Parents(d, z))
<1> DEFINE ch == [z \in Nodes |-> Children(d, z)]
<1>1. ch \in [Nodes -> SUBSET Nodes] /\ Acyclic(Nodes, ch)
  BY DEF Children, IsDag, ArcsAcyclic
<1>2. ~(HasPath(Nodes, ch, x, y) /\ HasPath(Nodes, ch, y, x))
  <2> DEFINE C(u) == Closure(Nodes, ch, ch[u])
  <2>1. SUFFICES ASSUME y \in C(x), x \in C(y) PROVE FALSE
    BY DEF HasPath
  <2> HIDE DEF ch
  <2>2. C(x) \in SUBSET Nodes /\ IsClosed(ch, C(x))
    BY <1>1, ClosureIsClosed
  <2>3. ch[y] \subseteq C(x)
    BY <2>1, <2>2 DEF IsClosed
  <2>4. C(y) \subseteq C(x)
    BY <2>2, <2>3, ClosureIsLeast
  <2>5. HasPath(Nodes, ch, x, x)
    BY <2>1, <2>4 DEF HasPath
  <2>6. QED BY <1>1, <2>5, NodesAssumption, NoPathBack
<1>3. e = {y, x}
  OBVIOUS
<1>4. CASE ~HasPath(Nodes, ch, x, y)
  BY <1>4, ParentsSeparate
<1>5. CASE ~HasPath(Nodes, ch, y, x)
  BY <1>3, <1>5, ParentsSeparate
<1>6. QED BY <1>2, <1>4, <1>5

\* What find_skeleton and the evaluation of v-structures can rely on: a test that is
\* faithful to d separates no joined pair, separates the others by the parents of one of
\* the two, and a set that separates a pair holds each common neighbour but the common
\* children.
THEOREM FaithfulAnswers ==
    ASSUME NEW d \in Graphs, IsDag(d), NEW e \in Edges
    PROVE  /\ \A S \in Answers(d)[e] : S \in SUBSET (Nodes \ e)
           /\ e \in Skeleton(d) => Answers(d)[e] = {}
           /\ e \notin Skeleton(d) => \E z \in e : Parents(d, z) \in Answers(d)[e]
           /\ \A z \in Nodes \ e : (\A u \in e : {u, z} \in Skeleton(d)) =>
                 \A S \in Answers(d)[e] : z \in S <=> ~\A u \in e : <<u, z>> \in d.arcs
<1>1. Answers(d)[e] = {S \in SUBSET (Nodes \ e) : Separated(d, e, S)}
  BY DEF Answers
<1>2. PICK x \in Nodes, y \in Nodes : x # y /\ e = {x, y}
  BY DEF Edges, Arcs, Ends
<1>3. e \in Skeleton(d) => Answers(d)[e] = {}
  BY <1>1, <1>2, AdjacentDepend
<1>4. e \notin Skeleton(d) => \E z \in e : Parents(d, z) \in Answers(d)[e]
  BY <1>1, <1>2, SomeParentsSeparate
<1>5. ASSUME NEW z \in Nodes \ e, \A u \in e : {u, z} \in Skeleton(d), NEW S \in Answers(d)[e]
      PROVE  z \in S <=> ~\A u \in e : <<u, z>> \in d.arcs
  <2>1. S \in SUBSET (Nodes \ e) /\ Separated(d, e, S)
        /\ {x, z} \in Skeleton(d) /\ {y, z} \in Skeleton(d)
    BY <1>1, <1>2, <1>5
  <2>2. z \in S <=> ~(<<x, z>> \in d.arcs /\ <<y, z>> \in d.arcs)
    BY <1>2, <2>1, MiddleNode
  <2>3. QED BY <1>2, <2>2
<1>6. QED BY <1>1, <1>3, <1>4, <1>5

\* Evaluated on the edges of the skeleton of d, before anything is directed, exactly the
\* v-structures of d are found: by the separating sets that were recorded, or by all
\* that can be tested.
LEMMA VStructureFound ==
    ASSUME OrientationInv, NEW d, Faithful(task, d),
           Skeleton(pdag) = Skeleton(d), pdag.arcs = {},
           NEW seps, NEW x \in Nodes, NEW pq \in CandidatePairs(pdag, x),
           task.useSepsets /\ pq \notin Skeleton(d) =>
               seps[pq] # {} /\ seps[pq] \subseteq task.separators[pq]
    PROVE  IsVStructure(seps, pdag, pq, x) <=> <<pq, x>> \in VStructures(d)
<1> DEFINE A == task.separators[pq]
           collides == \A p \in pq : <<p, x>> \in d.arcs
<1>1. /\ pdag \in Graphs /\ NoOverlap(pdag) /\ d \in Graphs /\ IsDag(d)
      /\ task.separators = Answers(d)
      /\ task.threshold \in Nat \X Nat /\ task.threshold[1] <= task.threshold[2]
  BY NothingRestricted DEF OrientationInv, Faithful
<1>2. pq \in Edges /\ pq \subseteq Neighbors(pdag, x)
  BY DEF CandidatePairs
<1>3. x \notin pq /\ \A p \in pq : p \in Nodes /\ {p, x} \in Skeleton(d)
  <2>1. ASSUME NEW p \in pq
        PROVE  p \in Nodes /\ p # x /\ {p, x} \in Skeleton(d)
    <3>1. p \in Nodes /\ {x, p} = {p, x}
      BY <1>2 DEF Neighbors
    <3>2. QED BY <1>1, <1>2, <3>1, AdjacentEnds
  <2>2. QED BY <2>1
<1>4. <<pq, x>> \in VStructures(d) <=> pq \notin Skeleton(d) /\ collides
  BY <1>2 DEF VStructures
<1>5. /\ \A S \in A : S \in SUBSET (Nodes \ pq)
      /\ pq \notin Skeleton(d) => \E z \in pq : Parents(d, z) \in A
      /\ \A S \in A : x \in S <=> ~collides
  <2>1. x \in Nodes \ pq /\ \A u \in pq : {u, x} \in Skeleton(d)
    BY <1>3
  <2>2. A = Answers(d)[pq]
    BY <1>1
  <2>3. /\ \A S \in Answers(d)[pq] : S \in SUBSET (Nodes \ pq)
        /\ pq \notin Skeleton(d) => \E z \in pq : Parents(d, z) \in Answers(d)[pq]
        /\ \A S \in Answers(d)[pq] : x \in S <=> ~\A u \in pq : <<u, x>> \in d.arcs
    BY <1>1, <1>2, <2>1, FaithfulAnswers
  <2>4. QED BY <2>2, <2>3
<1> HIDE DEF A, collides
<1>6. CASE pq \in Skeleton(d)
  BY <1>4, <1>6 DEF IsVStructure
<1>7. CASE pq \notin Skeleton(d) /\ task.useSepsets
  <2>1. seps[pq] # {} /\ seps[pq] \subseteq A
    BY <1>7 DEF A
  <2>2. (\A S \in seps[pq] : x \notin S) <=> collides
    BY <1>5, <2>1
  <2>3. QED BY <1>4, <1>7, <2>2 DEF IsVStructure
<1>8. CASE pq \notin Skeleton(d) /\ ~task.useSepsets
  <2> DEFINE T == TestedSets(pdag, pq, x)
             indep == A \cap T
             withChild == {S \in indep : x \in S}
             t1 == task.threshold[1]
             t2 == task.threshold[2]
  <2>1. IsVStructure(seps, pdag, pq, x) <=>
           /\ indep # {}
           /\ withChild = {} \/ Cardinality(withChild) * t2 < t1 * Cardinality(indep)
    BY <1>8 DEF IsVStructure, IsUnambiguous, A
  <2>2. indep # {}
    <3>1. PICK z \in pq : Parents(d, z) \in A
      BY <1>5, <1>8
    <3>2. z \in Nodes /\ Parents(d, z) \subseteq Adjacent(pdag, z)
      <4>1. z \in Nodes
        BY <1>3
      <4>2. ASSUME NEW u \in Parents(d, z)
            PROVE  u \in Neighbors(pdag, z)
        <5>1. u \in Nodes /\ {z, u} \in Skeleton(pdag)
          BY <1>1, <4>1, AdjacentEnds DEF Parents
        <5>2. Skeleton(pdag) = pdag.edges
          BY DEF Skeleton
        <5>3. QED BY <5>1, <5>2 DEF Neighbors
      <4>3. QED BY <4>1, <4>2 DEF Adjacent
    <3>3. IsFiniteSet(Parents(d, z))
      BY NodesAssumption, FS_Subset DEF Parents
    <3>4. Parents(d, z) \in T
      <4>1. CASE Parents(d, z) = {}
        BY <4>1 DEF TestedSets
      <4>2. CASE \E u : Parents(d, z) = {u}
        <5>1. PICK u : Parents(d, z) = {u}
          BY <4>2
        <5>2. u \in UNION {Adjacent(pdag, v) : v \in pq}
          BY <3>2, <5>1
        <5>3. QED BY <5>1, <5>2 DEF TestedSets
      <4>3. CASE Parents(d, z) # {} /\ ~\E u : Parents(d, z) = {u}
        <5>1. Cardinality(Parents(d, z)) >= 2
          <6>1. Cardinality(Parents(d, z)) \in Nat
            BY <3>3, FS_CardinalityType
          <6>2. Cardinality(Parents(d, z)) # 0
            BY <3>3, <4>3, FS_EmptySet
          <6>3. Cardinality(Parents(d, z)) # 1
            BY <3>3, <4>3, FS_Singleton
          <6>4. QED BY <6>1, <6>2, <6>3
        <5>2. Parents(d, z) \in {S \in SUBSET Adjacent(pdag, z) : Cardinality(S) >= 2}
          BY <3>2, <5>1
        <5>3. QED BY <5>2 DEF TestedSets
      <4>4. QED BY <4>1, <4>2, <4>3
    <3>5. QED BY <3>1, <3>4
  <2>3. Cardinality(indep) \in Nat
    <3>1. indep \subseteq SUBSET Nodes
      BY <1>5
    <3>2. IsFiniteSet(indep)
      BY <3>1, NodesAssumption, FS_SUBSET, FS_Subset
    <3>3. QED BY <3>2, FS_CardinalityType
  <2>4. CASE collides
    <3>1. withChild = {}
      BY <1>5, <2>4
    <3>2. QED BY <1>4, <1>8, <2>1, <2>2, <2>4, <3>1
  <2>5. CASE ~collides
    <3>1. withChild = indep
      BY <1>5, <2>5
    <3>2. ~(Cardinality(indep) * t2 < t1 * Cardinality(indep))
      <4> DEFINE c == Cardinality(indep)
      <4>1. c \in Nat /\ t1 \in Nat /\ t2 \in Nat /\ t1 <= t2
        BY <1>1, <2>3
      <4> HIDE DEF c, t1, t2
      <4>2. t1 * c <= c * t2
        BY <4>1
      <4>3. c * t2 \in Nat /\ t1 * c \in Nat
        BY <4>1
      <4>4. QED BY <4>2, <4>3 DEF c
    <3>3. QED BY <1>4, <2>1, <2>2, <2>5, <3>1, <3>2
  <2>6. QED BY <2>4, <2>5
<1>9. QED BY <1>6, <1>7, <1>8

LEMMA EvaluatesFaithfully ==
    ASSUME OrientationInv, NEW d, Faithful(task, d),
           Skeleton(pdag) = Skeleton(d), pdag.arcs = {},
           NEW seps,
           task.useSepsets =>
               \A e \in Edges \ Skeleton(d) : seps[e] # {} /\ seps[e] \subseteq task.separators[e]
    PROVE  Evaluates(seps, d)
<1>1. \A x \in Nodes : CandidatePairs(pdag, x) \subseteq Edges
  BY DEF CandidatePairs
<1>2. QED BY <1>1, VStructureFound DEF Evaluates

===============================================================================
