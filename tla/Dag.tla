--------------------------------- MODULE Dag ----------------------------------
(***************************************************************************)
(* The directed acyclic graph of graph/generic_graph.hpp: GraphBase keeps  *)
(* the nodes, their three index maps and the stack of free indices;        *)
(* ArcGraph keeps the arcs three times over (the arc set, the parents and  *)
(* the children of each node) and the sets of roots and leaves; DagImpl    *)
(* guards the operations so that no cycle appears.                         *)
(*                                                                         *)
(* A node is known by its name, by its index (its slot in m_nodes, reused  *)
(* after a removal) and by its collapsed index (its position in            *)
(* m_string_nodes, which a removal gives to the last node).                *)
(***************************************************************************)
EXTENDS Integers, Sequences, Reachability

CONSTANTS Names,    \* the names a caller may give to nodes
          NoName,   \* the name of a slot that holds no node
          MaxRaw    \* bound on the number of slots of m_nodes

ASSUME NoNameAssumption == NoName \notin Names
ASSUME MaxRawAssumption == MaxRaw \in Nat

Idx == 0 .. MaxRaw - 1

VARIABLES
    numRaw,       \* m_nodes.size()
    name,         \* the name in each slot; NoName once invalidated
    parents,      \* the m_parents of each slot
    children,     \* the m_children of each slot
    indices,      \* m_indices: name -> index
    strings,      \* m_string_nodes.m_elems: the names by collapsed index
    collapsed,    \* m_string_nodes.m_indices: name -> collapsed index
    freeIndices,  \* m_free_indices, a stack
    arcs,         \* m_arcs
    roots,        \* m_roots
    leaves        \* m_leaves

nodeVars == <<numRaw, name, indices, strings, collapsed, freeIndices>>
arcVars == <<parents, children, arcs, roots, leaves>>
vars == <<nodeVars, arcVars>>

\* is_valid(idx)
Live == {i \in Idx : name[i] # NoName}

HasArc(s, t) == s \in parents[t]

-------------------------------------------------------------------------------
(* BidirectionalMapIndex, the pair <<strings, collapsed>>.                 *)

InsertElem(e) ==
    IF e \in DOMAIN collapsed
    THEN UNCHANGED <<strings, collapsed>>
    ELSE /\ strings' = Append(strings, e)
         /\ collapsed' = [x \in DOMAIN collapsed \cup {e} |->
                            IF x = e THEN Len(strings) ELSE collapsed[x]]

\* Mutant: the element moved into the gap keeps its old index.
SwapRemoveStaleIndex(e) ==
    LET k == collapsed[e] + 1
    IN  /\ strings' = SubSeq([strings EXCEPT ![k] = strings[Len(strings)]],
                             1, Len(strings) - 1)
        /\ collapsed' = [x \in DOMAIN collapsed \ {e} |-> collapsed[x]]

\* Mutant: the elements after the gap move down by one.
EraseElem(e) ==
    /\ strings' = SelectSeq(strings, LAMBDA x : x # e)
    /\ collapsed' = [x \in DOMAIN collapsed \ {e} |->
                       IF collapsed[x] > collapsed[e] THEN collapsed[x] - 1
                                                      ELSE collapsed[x]]

\* The last element moves into the gap and takes its index.
SwapRemoveElem(e) ==
    LET k == collapsed[e] + 1
        last == strings[Len(strings)]
    IN  /\ strings' = SubSeq([strings EXCEPT ![k] = last], 1, Len(strings) - 1)
        /\ collapsed' = [x \in DOMAIN collapsed \ {e} |->
                           IF x = last THEN collapsed[e] ELSE collapsed[x]]

-------------------------------------------------------------------------------
(* The acyclicity guards of DagImpl.                                       *)

\* Mutant: the search looks for the path the wrong way round.
CanAddArcReversed(s, t) ==
    /\ s # t
    /\ \/ parents[s] = {}
       \/ children[t] = {}
       \/ ~HasPath(Idx, children, s, t)

\* The search runs only when neither shortcut applies.
CanAddArc(s, t) ==
    /\ s # t
    /\ \/ parents[s] = {}
       \/ children[t] = {}
       \/ ~HasPath(Idx, children, t, s)

\* Mutant: the arc itself counts as a path.
HasPathAnyArc(s, t) == HasPath(Idx, children, s, t)

\* has_path_unsafe_no_direct_arc: the search does not start on the arc itself.
HasPathNoDirectArc(s, t) ==
    HasPath(Idx, [children EXCEPT ![s] = @ \ {t}], s, t)

\* With the arc present, one parent of t, or one child of s, is the other end.
CanFlipArc(s, t) ==
    /\ s # t
    /\ IF HasArc(s, t)
       THEN \/ parents[t] = {s}
            \/ children[s] = {t}
            \/ ~HasPathNoDirectArc(s, t)
       ELSE \/ parents[t] = {}
            \/ children[s] = {}
            \/ ~HasPath(Idx, children, s, t)

-------------------------------------------------------------------------------
(* The operations.  A call that throws changes nothing and is not a step.  *)

Init ==
    /\ numRaw = 0
    /\ name = [i \in Idx |-> NoName]
    /\ parents = [i \in Idx |-> {}]
    /\ children = [i \in Idx |-> {}]
    /\ indices = <<>>
    /\ strings = <<>>
    /\ collapsed = <<>>
    /\ freeIndices = <<>>
    /\ arcs = {}
    /\ roots = {}
    /\ leaves = {}

\* create_node: the slot freed last, or a new one.
NewIndex ==
    IF freeIndices = <<>> THEN numRaw ELSE freeIndices[Len(freeIndices)]

\* Mutant: m_nodes grows although a slot is reused.
TakeSlotGrow ==
    /\ numRaw' = numRaw + 1
    /\ freeIndices' = IF freeIndices = <<>> THEN <<>>
                      ELSE SubSeq(freeIndices, 1, Len(freeIndices) - 1)

\* Mutant: the slot reused stays in the stack.
TakeSlotKeep ==
    /\ numRaw' = IF freeIndices = <<>> THEN numRaw + 1 ELSE numRaw
    /\ UNCHANGED freeIndices

\* create_node takes the slot NewIndex.
TakeSlot ==
    IF freeIndices = <<>>
    THEN numRaw' = numRaw + 1 /\ UNCHANGED freeIndices
    ELSE /\ freeIndices' = SubSeq(freeIndices, 1, Len(freeIndices) - 1)
         /\ UNCHANGED numRaw

AddNode(n) ==
    LET i == NewIndex
    IN  /\ n \notin DOMAIN collapsed
        /\ i < MaxRaw
        /\ TakeSlot
        /\ name' = [name EXCEPT ![i] = n]
        /\ parents' = [parents EXCEPT ![i] = {}]
        /\ children' = [children EXCEPT ![i] = {}]
        /\ indices' = [m \in DOMAIN indices \cup {n} |->
                         IF m \in DOMAIN indices THEN indices[m] ELSE i]
        /\ InsertElem(n)
        /\ roots' = roots \cup {i}
        /\ leaves' = leaves \cup {i}
        /\ UNCHANGED arcs

\* Mutant: the children left without parents are not made roots.
RootsMinus(i) == (roots \ {i}) \cup (IF parents[i] = {} THEN {} ELSE {i})

\* remove_node_arcs_edges removes every arc at i: its parents may become
\* leaves and its children roots.  i itself is taken out of m_roots and m_leaves
\* first, and the removal of its last incoming (outgoing) arc puts it back.
RootsWithout(i) ==
    (roots \ {i}) \cup {c \in children[i] : parents[c] = {i}}
                  \cup (IF parents[i] = {} THEN {} ELSE {i})

LeavesWithout(i) ==
    (leaves \ {i}) \cup {p \in parents[i] : children[p] = {i}}
                   \cup (IF children[i] = {} THEN {} ELSE {i})

\* Mutant: the arcs out of i stay.
ArcsNotInto(i) == {a \in arcs : a[2] # i}

ArcsWithout(i) == {a \in arcs : a[1] # i /\ a[2] # i}

RemoveNode(i) ==
    /\ i \in Live
    /\ arcs' = ArcsWithout(i)
    /\ parents' = [j \in Idx |-> IF j = i THEN {} ELSE parents[j] \ {i}]
    /\ children' = [j \in Idx |-> IF j = i THEN {} ELSE children[j] \ {i}]
    /\ roots' = RootsWithout(i)
    /\ leaves' = LeavesWithout(i)
    /\ SwapRemoveElem(name[i])
    /\ indices' = [m \in DOMAIN indices \ {name[i]} |-> indices[m]]
    /\ name' = [name EXCEPT ![i] = NoName]
    /\ freeIndices' = Append(freeIndices, i)
    /\ UNCHANGED numRaw

AddArcUnsafe(s, t) ==
    /\ arcs' = arcs \cup {<<s, t>>}
    /\ parents' = [parents EXCEPT ![t] = @ \cup {s}]
    /\ children' = [children EXCEPT ![s] = @ \cup {t}]
    /\ roots' = roots \ {t}
    /\ leaves' = leaves \ {s}

\* add_arc throws when the arc would close a cycle, and ignores an arc it has.
AddArc(s, t) ==
    /\ s \in Live /\ t \in Live
    /\ CanAddArc(s, t)
    /\ ~HasArc(s, t)
    /\ AddArcUnsafe(s, t)
    /\ UNCHANGED nodeVars

\* Mutant: losing the last parent does not make a root.
RootsUnchanged(s, t) == roots

\* remove_arc_unsafe: t is a root again when s was its only parent.
RootsCut(s, t) == IF parents[t] = {s} THEN roots \cup {t} ELSE roots

LeavesCut(s, t) == IF children[s] = {t} THEN leaves \cup {s} ELSE leaves

RemoveArc(s, t) ==
    /\ s \in Live /\ t \in Live
    /\ HasArc(s, t)
    /\ arcs' = arcs \ {<<s, t>>}
    /\ parents' = [parents EXCEPT ![t] = @ \ {s}]
    /\ children' = [children EXCEPT ![s] = @ \ {t}]
    /\ roots' = RootsCut(s, t)
    /\ leaves' = LeavesCut(s, t)
    /\ UNCHANGED nodeVars

\* flip_arc_unsafe removes the arc and adds its reverse.
FlipArc(s, t) ==
    /\ s \in Live /\ t \in Live
    /\ CanFlipArc(s, t)
    /\ HasArc(s, t)
    /\ arcs' = (arcs \ {<<s, t>>}) \cup {<<t, s>>}
    /\ parents' = [parents EXCEPT ![t] = @ \ {s}, ![s] = @ \cup {t}]
    /\ children' = [children EXCEPT ![s] = @ \ {t}, ![t] = @ \cup {s}]
    /\ roots' = RootsCut(s, t) \ {s}
    /\ leaves' = LeavesCut(s, t) \ {t}
    /\ UNCHANGED nodeVars

Next ==
    \/ \E n \in Names : AddNode(n)
    \/ \E i \in Idx : RemoveNode(i)
    \/ \E s, t \in Idx : AddArc(s, t)
    \/ \E s, t \in Idx : RemoveArc(s, t)
    \/ \E s, t \in Idx : FlipArc(s, t)

Spec == Init /\ [][Next]_vars

-------------------------------------------------------------------------------
(* topological_sort starts from m_roots and releases a node when its last  *)
(* parent has been placed; is_dag says whether it ends without throwing.   *)

Placed ==
    {n \in Live : \A K \in SUBSET Live :
        /\ roots \cap Live \subseteq K
        /\ \A m \in Live : parents[m] # {} /\ parents[m] \subseteq K => m \in K
        => n \in K}

\* collapsed_from_index throws on a root that names no node, and the sort
\* throws when a node has not been placed.
IsDag == roots \subseteq Live /\ Placed = Live

-------------------------------------------------------------------------------
(* Properties.                                                             *)

\* Every variable has its type; the arc endpoints and indices are slots.
TypeOK ==
    /\ numRaw \in 0 .. MaxRaw
    /\ name \in [Idx -> Names \cup {NoName}]
    /\ parents \in [Idx -> SUBSET Idx]
    /\ children \in [Idx -> SUBSET Idx]
    /\ DOMAIN indices \subseteq Names
    /\ \A n \in DOMAIN indices : indices[n] \in Idx
    /\ strings \in Seq(Names)
    /\ DOMAIN collapsed \subseteq Names
    /\ \A n \in DOMAIN collapsed : collapsed[n] \in Nat
    /\ freeIndices \in Seq(Idx)
    /\ arcs \subseteq Idx \X Idx
    /\ roots \subseteq Idx
    /\ leaves \subseteq Idx

\* name, m_indices and m_string_nodes name the same nodes and are inverse to
\* each other, through any sequence of additions, removals and slot reuses.
IndexMapsAgree ==
    /\ \A i \in Live : name[i] \in DOMAIN indices /\ indices[name[i]] = i
    /\ \A n \in DOMAIN indices : name[indices[n]] = n
    /\ DOMAIN collapsed = DOMAIN indices
    /\ \A n \in DOMAIN collapsed :
          /\ collapsed[n] \in 0 .. Len(strings) - 1
          /\ strings[collapsed[n] + 1] = n
    /\ \A k \in 1 .. Len(strings) :
          strings[k] \in DOMAIN collapsed /\ collapsed[strings[k]] = k - 1

\* m_free_indices holds each slot without a node once, so that no node is
\* ever created in a slot that is in use and no slot is lost.
FreeSlotsExact ==
    /\ \A k \in 1 .. Len(freeIndices) :
          freeIndices[k] < numRaw /\ freeIndices[k] \notin Live
    /\ \A j, k \in 1 .. Len(freeIndices) :
          freeIndices[j] = freeIndices[k] => j = k
    /\ \A i \in Idx : \/ i \in Live /\ i < numRaw
                      \/ i >= numRaw /\ i \notin Live
                      \/ \E k \in 1 .. Len(freeIndices) : freeIndices[k] = i

\* The three copies of the arcs agree, and an arc joins two nodes of the graph.
AdjacencyAgrees ==
    /\ \A s, t \in Idx : /\ s \in parents[t] <=> <<s, t>> \in arcs
                         /\ t \in children[s] <=> <<s, t>> \in arcs
    /\ \A a \in arcs : a[1] \in Live /\ a[2] \in Live

\* Of the nodes of the graph, m_roots holds those without parents and m_leaves
\* those without children; whatever else they hold is an unused slot.
RootsLeavesExact ==
    /\ \A i \in Live : /\ i \in roots <=> parents[i] = {}
                       /\ i \in leaves <=> children[i] = {}
    /\ \A i \in roots \cup leaves : i < numRaw

\* The guards of add_arc and flip_arc keep the graph acyclic.
ArcsAcyclic == Acyclic(Idx, children)

\* The guards are exact: shortcuts and search accept an arc (a flip) of the
\* graph exactly when the resulting graph has no cycle.
GuardsExact ==
    \A s, t \in Live : s # t =>
        /\ CanAddArc(s, t) <=>
             Acyclic(Idx, [children EXCEPT ![s] = @ \cup {t}])
        /\ CanFlipArc(s, t) <=>
             Acyclic(Idx, [children EXCEPT ![s] = @ \ {t}, ![t] = @ \cup {s}])

\* When every member of m_roots is a node, topological_sort places them all.
SortCompletes == roots \subseteq Live => IsDag

\* A node keeps its index as long as it exists, and a step changes the
\* collapsed index of at most one node that stays.
IndicesKept ==
    LET stay == DOMAIN indices \cap DOMAIN indices'
        moved == {n \in stay : collapsed'[n] # collapsed[n]}
    IN  /\ \A n \in stay : indices'[n] = indices[n]
        /\ \A m, n \in moved : m = n

\* docs/source/api/graphs.rst: the index of a node does not change, and removing
\* a node changes the collapsed index of at most one other node.
IndicesStable == [][IndicesKept]_vars

\* The graph of a Dag object can always be sorted: topological_sort() of the
\* binding is documented to return the sort of the DAG, without a condition.
SortAlwaysAvailable == IsDag

===============================================================================
