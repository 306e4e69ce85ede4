---------------------------- MODULE PdagConversions ----------------------------
(***************************************************************************)
(* The conversions between partially directed and directed acyclic graphs  *)
(* (graph/generic_graph.hpp): to_dag, to_approximate_dag and to_pdag, on   *)
(* unconditional graphs.  Each is one behaviour: the orders in which the   *)
(* code visits unordered sets are choices.                                 *)
(***************************************************************************)
EXTENDS PartialDag, Sequences, Functions

Seqs == INSTANCE SequencesExt

CONSTANTS
    Calls           \* which conversion of which graph callers ask for

ASSUME CallsAssumption ==
    \A c \in Calls : c.to \in {"dag", "approximate_dag", "pdag"} /\ c.graph \in Graphs

VARIABLES
    call,       \* the conversion and the graph that is converted
    status,
    out,        \* the graph that is built
    copy,       \* to_dag: what is left of the input, its nodes included
    incoming,   \* sorts: per node, the arcs from nodes that are not sorted
    stack,
    sorted,     \* sorts: the nodes in order
    todo        \* to_pdag: the arcs still to be labelled

sorts == <<incoming, stack, sorted, todo>>
vars == <<call, status, out, copy, sorts>>

input == call.graph

Orders(S) == Bijection(1 .. Cardinality(S), S)

-------------------------------------------------------------------------------
(* to_dag (Dor and Tarsi).                                                 *)

\* Mutant: parents are not compared with the neighbours.
IsSinkAmongNeighbors(g, x) ==
    /\ Children(g, x) = {}
    /\ \A y, z \in Neighbors(g, x) : y # z => HasConnection(g, y, z)

\* A leaf whose neighbours are joined to each other and to its parents.
IsSink(g, x) ==
    /\ Children(g, x) = {}
    /\ \A y \in Neighbors(g, x) :
          \A z \in (Neighbors(g, x) \cup Parents(g, x)) \ {y} : HasConnection(g, y, z)

\* Mutant: the node stays.
RemoveNothing(g, x) == g

RemoveNode(g, x) ==
    [nodes |-> g.nodes \ {x},
     arcs  |-> {a \in g.arcs : x \notin Ends(a)},
     edges |-> {e \in g.edges : x \notin e}]

CheckArcs ==
    /\ status = "check"
    /\ status' = IF ArcsAcyclic(input.arcs) THEN "extend" ELSE "thrown"
    /\ UNCHANGED <<call, out, copy, sorts>>

Sinks(g) == {x \in g.nodes : IsSink(g, x)}

RemoveSink(x) ==
    /\ status = "extend"
    /\ copy.edges # {}
    /\ x \in Sinks(copy)
    /\ out' = [out EXCEPT !.arcs = @ \cup {<<y, x>> : y \in Neighbors(copy, x)}]
    /\ copy' = RemoveNode(copy, x)
    /\ UNCHANGED <<call, status, sorts>>

EndExtension ==
    /\ status = "extend"
    /\ \/ copy.edges = {} /\ status' = "returned"
       \/ copy.edges # {} /\ Sinks(copy) = {} /\ status' = "thrown"
    /\ UNCHANGED <<call, out, copy, sorts>>

-------------------------------------------------------------------------------
(* The stack of topological_sort and of to_approximate_dag.                *)

Sorted == Range(sorted)
Rank(x) == CHOOSE i \in DOMAIN sorted : sorted[i] = x

\* Mutant: arcs into nodes that are already sorted stay.
FlipSortedNever(n) == out

\* Arcs into nodes that are already sorted are flipped.
FlipSorted(n) ==
    LET back == {<<n, c>> : c \in Children(input, n) \cap Sorted}
    IN  [out EXCEPT !.arcs = (@ \ back) \cup {Reverse(a) : a \in back}]

\* Mutant: nodes that are sorted are pushed again.
FreedAgain(n) == {c \in Children(input, n) : incoming[c] = 1}

\* The children whose last arc from an unsorted node is the one from n.
Freed(n) == {c \in Children(input, n) \ Sorted : incoming[c] = 1}

PopNode ==
    LET n == Seqs!Last(stack)
        children == Children(input, n)
    IN  /\ status = "sort"
        /\ stack # <<>>
        /\ sorted' = Append(sorted, n)
        /\ incoming' = [c \in Nodes |-> IF c \in children THEN incoming[c] - 1 ELSE incoming[c]]
        /\ out' = FlipSorted(n)
        /\ \E order \in Orders(Freed(n)) : stack' = Seqs!Front(stack) \o order
        /\ UNCHANGED <<call, status, copy, todo>>

NumParents(x) == Cardinality(Parents(out, x))

\* The stack is empty before all nodes are sorted: a child of a sorted node, with
\* the fewest parents, of the first sorted node that has one; without such a
\* child, the first of the nodes with the fewest parents.
NextOfCycle(n) ==
    LET candidates(i) == Children(out, sorted[i]) \ Sorted
        among == UNION {candidates(i) : i \in DOMAIN sorted}
        fewest(S) == {x \in S : \A y \in S : NumParents(x) <= NumParents(y)}
        first == {i \in DOMAIN sorted : candidates(i) \cap fewest(among) # {}}
    IN  IF among # {}
        THEN \E i \in first : (\A j \in first : i <= j) /\ n \in candidates(i) \cap fewest(among)
        ELSE n \in fewest(Nodes \ Sorted) /\ \A m \in fewest(Nodes \ Sorted) : n <= m

BreakCycle(n) ==
    /\ status = "sort"
    /\ call.to = "approximate_dag"
    /\ stack = <<>>
    /\ n \in Nodes \ Sorted
    /\ NextOfCycle(n)
    /\ stack' = <<n>>
    /\ UNCHANGED <<call, status, out, copy, incoming, sorted, todo>>


\* sort_arcs: by the rank of the head, then by falling rank of the tail.
Before(a, b) ==
    Rank(a[2]) < Rank(b[2]) \/ (a[2] = b[2] /\ Rank(a[1]) > Rank(b[1]))

SortedArcs == {s \in Orders(input.arcs) : \A i, j \in DOMAIN s : i < j => Before(s[i], s[j])}

EndSort ==
    /\ status = "sort"
    /\ stack = <<>>
    /\ Sorted = Nodes
    /\ IF call.to = "approximate_dag"
       THEN /\ status' = "returned"
            /\ out' = [arcs |-> out.arcs \cup {a \in Arcs : Ends(a) \in input.edges /\ Rank(a[1]) < Rank(a[2])},
                       edges |-> {}]
            /\ UNCHANGED todo
       ELSE /\ status' = "label"
            /\ out' = [arcs |-> {}, edges |-> {}]
            /\ todo' \in SortedArcs
    /\ UNCHANGED <<call, copy, incoming, stack, sorted>>

-------------------------------------------------------------------------------
(* to_pdag (Chickering).                                                   *)

AddArcs(g, A) == [g EXCEPT !.arcs = @ \cup A]

\* The labels of the arcs into y when x -> y is the next one without a label.
Label(g, x, y) ==
    LET into == {<<z, y>> : z \in Parents(input, y)}
        fromParents == {<<w, y>> : w \in Parents(g, x)}
    IN  IF ~(fromParents \subseteq input.arcs) THEN AddArcs(g, into)
        ELSE IF \E z \in Parents(input, y) \ {x} : <<z, x>> \notin input.arcs
             THEN AddArcs(g, into)
             ELSE [AddArcs(g, fromParents) EXCEPT !.edges = @ \cup {Ends(a) : a \in into}]

LabelArc ==
    LET x == todo[1][1]
        y == todo[1][2]
        more == Cardinality(out.arcs) + Cardinality(out.edges) < Cardinality(input.arcs)
    IN  /\ status = "label"
        /\ IF todo = <<>> \/ ~more
           THEN status' = "returned" /\ UNCHANGED <<out, todo>>
           ELSE /\ out' = IF HasConnection(out, x, y) THEN out ELSE Label(out, x, y)
                /\ todo' = Tail(todo)
                /\ UNCHANGED status
        /\ UNCHANGED <<call, copy, incoming, stack, sorted>>

-------------------------------------------------------------------------------
Roots == {x \in Nodes : Parents(input, x) = {}}

Init ==
    /\ call \in Calls
    /\ status = IF call.to = "dag" THEN "check" ELSE "sort"
    /\ out = [arcs |-> input.arcs, edges |-> {}]
    /\ copy = [nodes |-> Nodes, arcs |-> input.arcs, edges |-> input.edges]
    /\ incoming = [x \in Nodes |-> Cardinality(Parents(input, x))]
    /\ sorted = <<>>
    /\ todo = <<>>
    /\ IF call.to = "dag" THEN stack = <<>> ELSE stack \in Orders(Roots)

Finished == status \in {"returned", "thrown"} /\ UNCHANGED vars

Step ==
    \/ CheckArcs
    \/ \E x \in Nodes : RemoveSink(x)
    \/ EndExtension
    \/ PopNode
    \/ \E n \in Nodes : BreakCycle(n)
    \/ EndSort
    \/ LabelArc

Next == Step \/ Finished

Spec == Init /\ [][Next]_vars /\ WF_vars(Step)

-------------------------------------------------------------------------------
(* Properties.                                                             *)

\* The variables keep their types; the stack and the order hold each node once.
TypeOK ==
    /\ call \in Calls
    /\ status \in {"check", "extend", "sort", "label", "returned", "thrown"}
    /\ out \in Graphs
    /\ copy.nodes \subseteq Nodes /\ [arcs |-> copy.arcs, edges |-> copy.edges] \in Graphs
    /\ incoming \in [Nodes -> Int]
    /\ stack \in Seq(Nodes) /\ sorted \in Seq(Nodes) /\ todo \in Seq(Arcs)
    /\ IsInjective(sorted \o stack)

\* to_dag: whatever sinks it picks, it returns a consistent extension, and throws
\* only when there is none, unless an edge of the input is beside an arc.
ToDagExact ==
    call.to = "dag" =>
        /\ status = "returned" => out \in Extensions(input)
        /\ status = "thrown" /\ NoOverlap(input) => Extensions(input) = {}

\* to_approximate_dag always returns an acyclic graph with the same adjacencies,
\* and turns no arc of a graph without directed cycles.
ApproximateDag ==
    call.to = "approximate_dag" /\ status = "returned" =>
        /\ IsDag(out)
        /\ Skeleton(out) = Skeleton(input)
        /\ ArcsAcyclic(input.arcs) => input.arcs \subseteq out.arcs


\* "Gets the PDAG that represents the equivalence class of this Dag" (to_pdag).
ClassRepresented ==
    call.to = "pdag" /\ status = "returned" => out = ClassGraph(input)

\* Every conversion returns or throws: also to_approximate_dag of a cyclic graph.
Terminates == <>(status \in {"returned", "thrown"})

===============================================================================
