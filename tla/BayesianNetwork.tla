--------------------------- MODULE BayesianNetwork ---------------------------
(***************************************************************************)
(* BNGeneric<Dag> of models/BayesianNetwork.hpp for the conditional linear *)
(* Gaussian networks of models/CLGNetwork.hpp.  The network composes the   *)
(* graph of module Dag with two vectors that have a slot for each index of *)
(* the graph: the type of the node and its conditional distribution (CPD). *)
(* Calls of the owner of the network interleave edits of the graph, new    *)
(* types, CPDs given by hand, fits that may throw midway, and copies       *)
(* through pickle.                                                         *)
(***************************************************************************)
EXTENDS Integers, Sequences, FiniteSets

CONSTANTS Names, NoName, MaxRaw,   \* as in Dag
          MaxEdits,                \* bound on the edits, for each number of nodes
          DataSets,                \* the data given to fit: the kind of each column
          Shapes,                  \* the CPDs made by hand, evidence aside
          NodeLists,               \* the lists of nodes given to a constructor
          MaxGiven,                \* bound on the nodes a call gives types or CPDs to
          Unknown, Linear, Discrete,  \* UnknownFactorType, LinearGaussianCPDType, DiscreteFactorType
          NoCpd                    \* the null pointer

ASSUME GraphAssumption == NoName \notin Names /\ MaxRaw \in Nat
ASSUME TypesAssumption ==
    /\ Unknown \notin {Linear, Discrete}
    /\ Linear # Discrete
Kinds == {"continuous", "categorical"}

ASSUME InputsAssumption ==
    /\ DataSets \subseteq [Names -> Kinds]
    /\ Shapes \subseteq [type : {Linear, Discrete}, mixed : BOOLEAN, fitted : BOOLEAN]
ASSUME NodeListsAssumption == \A ns \in NodeLists :
    /\ ns \in Seq(Names) /\ Len(ns) <= MaxRaw
    /\ \A j, k \in DOMAIN ns : ns[j] = ns[k] => j = k
ASSUME BoundsAssumption == MaxEdits \in [0 .. MaxRaw -> Nat] /\ MaxGiven \in Nat

VARIABLES numRaw, name, parents, children, indices, strings, collapsed,
          freeIndices, arcs, roots, leaves   \* the Dag g

G == INSTANCE Dag

VARIABLES
    nodeTypes,  \* m_node_types: the type of the node of index i is nodeTypes[i + 1]
    cpds,       \* m_cpds, empty until the first fit or add_cpds
    outcome,    \* what the last call did
    edits       \* edits of the graph so far

bnVars == <<nodeTypes, cpds, outcome, edits>>
vars == <<numRaw, name, parents, children, indices, strings, collapsed,
          freeIndices, arcs, roots, leaves, nodeTypes, cpds, outcome, edits>>

FactorTypes == {Linear, Discrete}

\* A CPD as far as the network looks at it: its type, its evidence, whether its
\* class is the one for discrete evidence (CLinearGaussianCPD), and fitted().
Cpds == [type : FactorTypes, evidence : SUBSET Names, mixed : BOOLEAN, fitted : BOOLEAN]

ASSUME NoCpdAssumption == NoCpd \notin Cpds

Type(i) == nodeTypes[i + 1]
Cpd(i) == IF cpds = <<>> THEN NoCpd ELSE cpds[i + 1]
ParentNames(i) == {name[p] : p \in parents[i]}

\* m_cpds after resize(num_raw_nodes()) if it was empty.
Allocated == IF cpds = <<>> THEN [k \in 1 .. numRaw |-> NoCpd] ELSE cpds

-------------------------------------------------------------------------------
(* CLGNetworkType.                                                         *)

\* compatible_node_type: the parents of a discrete node must be discrete.  The
\* children are not looked at.
Compatible(types, i) ==
    types[i + 1] = Discrete => \A p \in parents[i] : types[p + 1] = Discrete

\* can_have_arc
CanHaveArc(s, t) == Type(t) = Linear \/ Type(s) # Linear

\* data_default_node_type
DefaultType(kind) == IF kind = "continuous" THEN Linear ELSE Discrete

-------------------------------------------------------------------------------
(* The constructors: nodes and arcs, with types for some of the nodes.     *)

Into(i, as) == {a[1] : a \in {b \in as : b[2] = i}}
OutOf(i, as) == {a[2] : a \in {b \in as : b[1] = i}}

\* The graph with the names ns, in this order, and the arcs as.
GraphOf(ns, as) ==
    LET n == Len(ns)
        live == 0 .. n - 1
    IN  [numRaw |-> n,
         name |-> [i \in G!Idx |-> IF i < n THEN ns[i + 1] ELSE NoName],
         parents |-> [i \in G!Idx |-> Into(i, as)],
         children |-> [i \in G!Idx |-> OutOf(i, as)],
         strings |-> ns,
         indices |-> [m \in {ns[k] : k \in 1 .. n} |-> CHOOSE i \in live : ns[i + 1] = m],
         roots |-> {i \in live : Into(i, as) = {}},
         leaves |-> {i \in live : OutOf(i, as) = {}}]

\* The sets of arcs over the first n indices without a cycle.
ArcSets(n) ==
    {as \in SUBSET ((0 .. n - 1) \X (0 .. n - 1)) :
        G!Acyclic(0 .. n - 1, [i \in 0 .. n - 1 |-> OutOf(i, as)])}

\* initialize_no_types and initialize_types
Init ==
    /\ \E ns \in NodeLists : \E as \in ArcSets(Len(ns)) :
          LET g == GraphOf(ns, as)
          IN  /\ numRaw = g.numRaw /\ name = g.name
              /\ parents = g.parents /\ children = g.children
              /\ indices = g.indices /\ strings = g.strings /\ collapsed = g.indices
              /\ freeIndices = <<>>
              /\ arcs = as /\ roots = g.roots /\ leaves = g.leaves
    /\ nodeTypes \in [1 .. numRaw -> FactorTypes \cup {Unknown}]
    /\ \A i \in G!Live : Compatible(nodeTypes, i)
    /\ cpds = <<>>
    /\ outcome = "other"
    /\ edits = 0

-------------------------------------------------------------------------------
(* Edits of the graph.  No edit of an arc looks at the CPDs.               *)

Edit == edits < MaxEdits[Cardinality(G!Live)] /\ edits' = edits + 1 /\ outcome' = "other"

\* Mutant: the vector keeps its size.
ResizeNot(v, n, e) == v

\* vector::resize
Resize(v, n, e) == [k \in 1 .. n |-> IF k <= Len(v) THEN v[k] ELSE e]

AddNode(n) ==
    LET i == G!NewIndex
        last == i = numRaw' - 1
    IN  /\ Edit
        /\ G!AddNode(n)
        /\ cpds' = IF last /\ cpds # <<>> THEN Resize(cpds, i + 1, NoCpd) ELSE cpds
        /\ nodeTypes' = IF last THEN [Resize(nodeTypes, i + 1, Unknown) EXCEPT ![i + 1] = Unknown]
                                ELSE nodeTypes

\* Mutant: the CPD of the removed node stays in its slot.
ClearKeepingCpd(i) == cpds

ClearCpd(i) == IF cpds = <<>> THEN cpds ELSE [cpds EXCEPT ![i + 1] = NoCpd]

RemoveNode(i) ==
    /\ Edit
    /\ G!RemoveNode(i)
    /\ cpds' = ClearCpd(i)
    /\ nodeTypes' = [nodeTypes EXCEPT ![i + 1] = Unknown]

AddArc(s, t) ==
    /\ Edit
    /\ G!AddArc(s, t)
    /\ CanHaveArc(s, t)
    /\ UNCHANGED <<nodeTypes, cpds>>

RemoveArc(s, t) ==
    /\ Edit
    /\ G!RemoveArc(s, t)
    /\ UNCHANGED <<nodeTypes, cpds>>

\* Mutant: the type rule is asked for the arc that goes away.
FlipArcUnturned(s, t) ==
    /\ Edit
    /\ G!FlipArc(s, t)
    /\ CanHaveArc(s, t)
    /\ UNCHANGED <<nodeTypes, cpds>>

FlipArc(s, t) ==
    /\ Edit
    /\ G!FlipArc(s, t)
    /\ CanHaveArc(t, s)
    /\ UNCHANGED <<nodeTypes, cpds>>

-------------------------------------------------------------------------------
(* Node types.                                                             *)

\* The types of the vector after the assignments of `given`, a function on
\* some of the nodes.
Retyped(given) ==
    [k \in DOMAIN nodeTypes |-> IF k - 1 \in DOMAIN given THEN given[k - 1] ELSE nodeTypes[k]]

\* The CPDs of the retyped nodes whose type is another one go away.
DropOthers(cs, given) ==
    [k \in DOMAIN cs |->
        IF k - 1 \in DOMAIN given /\ cs[k] # NoCpd /\ cs[k].type # given[k - 1]
        THEN NoCpd ELSE cs[k]]

\* The checks of force_type_whitelist, made when all types are in place.
TypesAllowed(given) ==
    \A i \in DOMAIN given : given[i] # Unknown => Compatible(Retyped(given), i)

\* set_node_type, force_type_whitelist (which takes the types back when one is
\* not allowed) and set_unknown_node_types.
ForceTypes(given) ==
    /\ TypesAllowed(given)
    /\ nodeTypes' = Retyped(given)
    /\ cpds' = DropOthers(cpds, given)
    /\ outcome' = "other"
    /\ UNCHANGED <<numRaw, name, parents, children, indices, strings, collapsed,
                   freeIndices, arcs, roots, leaves, edits>>

\* The types that the data gives to the nodes that have none.
Inferred(kinds) == [i \in {j \in G!Live : Type(j) = Unknown} |-> DefaultType(kinds[name[i]])]

-------------------------------------------------------------------------------
(* CPDs.                                                                   *)

\* check_compatible_cpd for a CPD of node i.
CompatibleCpd(c, i) ==
    /\ c.evidence = ParentNames(i)
    /\ Type(i) \in {Unknown, c.type}

\* add_cpds: nothing has changed when a check or force_type_whitelist throws.
AddCpds(given) ==
    LET types == [i \in {j \in DOMAIN given : Type(j) = Unknown} |-> given[i].type]
    IN  /\ \A i \in DOMAIN given : CompatibleCpd(given[i], i)
        /\ TypesAllowed(types)
        /\ nodeTypes' = Retyped(types)
        /\ cpds' = [k \in DOMAIN Allocated |->
                      IF k - 1 \in DOMAIN given THEN given[k - 1]
                      ELSE DropOthers(Allocated, types)[k]]
        /\ outcome' = "other"
        /\ UNCHANGED <<numRaw, name, parents, children, indices, strings, collapsed,
                       freeIndices, arcs, roots, leaves, edits>>

\* Mutant: a CPD of the right type is used whatever its evidence.
MustConstructByType(c, i, types) == c = NoCpd \/ c.type # types[i + 1]

\* Mutant: a CPD is always constructed anew.
MustConstructAlways(c, i, types) == TRUE

\* must_construct_cpd, or no CPD.
MustConstruct(c, i, types) ==
    c = NoCpd \/ c.type # types[i + 1] \/ c.evidence # ParentNames(i)

\* FactorType::new_factor: a linear Gaussian CPD with a discrete parent has the
\* class for discrete evidence.
NewFactor(i, types) ==
    [type |-> types[i + 1], evidence |-> ParentNames(i), fitted |-> FALSE,
     mixed |-> types[i + 1] = Linear /\ \E p \in parents[i] : types[p + 1] = Discrete]

\* Factor::fit does not throw: the columns have the data types it needs.
Fits(c, n, kinds) ==
    LET needed == IF c.mixed THEN {n} ELSE c.evidence \cup {n}
    IN  \A m \in needed : DefaultType(kinds[m]) = c.type

\* fit visits the nodes by collapsed index and stops at the first CPD whose fit
\* throws, which stays constructed and not fitted.
Fit(kinds) ==
    LET given == Inferred(kinds)
        types == Retyped(given)
        before(i) == DropOthers(Allocated, given)[i + 1]
        used(i) == IF MustConstruct(before(i), i, types) THEN NewFactor(i, types) ELSE before(i)
        throws == {i \in G!Live : ~used(i).fitted /\ ~Fits(used(i), name[i], kinds)}
        reached == {i \in G!Live : \A j \in throws : collapsed[name[i]] <= collapsed[name[j]]}
    IN  /\ IF TypesAllowed(given)
           THEN /\ nodeTypes' = types
                /\ cpds' = [k \in DOMAIN Allocated |->
                              IF k - 1 \in reached
                              THEN [used(k - 1) EXCEPT !.fitted = k - 1 \notin throws]
                              ELSE DropOthers(Allocated, given)[k]]
                /\ outcome' = IF throws = {} THEN "fitted" ELSE "fit threw"
           ELSE /\ cpds' = Allocated
                /\ outcome' = "fit threw"
                /\ UNCHANGED nodeTypes
        /\ UNCHANGED <<numRaw, name, parents, children, indices, strings, collapsed,
                       freeIndices, arcs, roots, leaves, edits>>

-------------------------------------------------------------------------------
(* __getstate__ and __setstate__: the network is replaced by its copy.     *)

\* Mutant: the arcs keep the indices they had.
NewIndexOfSame(i) == i

\* The nodes before node i in m_nodes.
Preceding(i) == {j \in G!Live : j < i}

\* The index of a node in the copy: the slots without a node are left out.
NewIndexOf(i) == Cardinality(Preceding(i))

\* The nodes in the order of m_nodes.
NodeOrder ==
    [k \in 1 .. Cardinality(G!Live) |->
        CHOOSE i \in G!Live : Cardinality(Preceding(i)) = k - 1]

\* Mutant: every CPD is stored.
StoresAny(i) == Cpd(i) # NoCpd

\* A CPD that does not fit the network is not stored.
Stores(i) == Cpd(i) # NoCpd /\ CompatibleCpd(Cpd(i), i)

\* m_include_cpd is set by save and otherwise uninitialised.  The constructor
\* throws when it does not accept the stored types, and add_cpds when it does
\* not accept a stored CPD; the network that was stored is still there.
Load(includeCpd) ==
    LET order == NodeOrder
        newArcs == {<<NewIndexOf(a[1]), NewIndexOf(a[2])>> : a \in arcs}
        g == GraphOf([k \in DOMAIN order |-> name[order[k]]], newArcs)
        accepted == /\ \A i \in G!Live : Type(i) # Unknown => Compatible(nodeTypes, i)
                    /\ includeCpd => \A i \in G!Live : Stores(i) => CompatibleCpd(Cpd(i), i)
    IN  IF accepted
        THEN /\ numRaw' = g.numRaw /\ name' = g.name
             /\ parents' = g.parents /\ children' = g.children
             /\ indices' = g.indices /\ strings' = g.strings /\ collapsed' = g.indices
             /\ freeIndices' = <<>>
             /\ arcs' = newArcs /\ roots' = g.roots /\ leaves' = g.leaves
             /\ nodeTypes' = [k \in DOMAIN order |-> Type(order[k])]
             /\ cpds' = IF includeCpd
                        THEN [k \in DOMAIN order |-> IF Stores(order[k]) THEN Cpd(order[k]) ELSE NoCpd]
                        ELSE <<>>
             /\ outcome' = "loaded"
             /\ UNCHANGED edits
        ELSE /\ outcome' = "load threw"
             /\ UNCHANGED <<numRaw, name, parents, children, indices, strings, collapsed,
                            freeIndices, arcs, roots, leaves, nodeTypes, cpds, edits>>

-------------------------------------------------------------------------------
(* The inputs: a call gives types or CPDs to at most MaxGiven nodes.       *)

\* A CPD with other evidence than the parents is refused, so none is tried.
Given(shape) ==
    [i \in DOMAIN shape |-> [type |-> shape[i].type, evidence |-> ParentNames(i),
                             mixed |-> shape[i].mixed, fitted |-> shape[i].fitted]]

SomeNodes == {S \in SUBSET G!Live : Cardinality(S) \in 1 .. MaxGiven}

Next ==
    \/ \E n \in Names : AddNode(n)
    \/ \E i \in G!Idx : RemoveNode(i)
    \/ \E s, t \in G!Idx : AddArc(s, t)
    \/ \E s, t \in G!Idx : RemoveArc(s, t)
    \/ \E s, t \in G!Idx : FlipArc(s, t)
    \/ \E S \in SomeNodes : \E given \in [S -> FactorTypes \cup {Unknown}] : ForceTypes(given)
    \/ \E kinds \in DataSets : ForceTypes(Inferred(kinds))
    \/ \E S \in SomeNodes : \E shape \in [S -> Shapes] : AddCpds(Given(shape))
    \/ \E kinds \in DataSets : Fit(kinds)
    \/ \E includeCpd \in BOOLEAN : Load(includeCpd)

Spec == Init /\ [][Next]_vars

-------------------------------------------------------------------------------
Outcomes == {"other", "fitted", "fit threw", "loaded", "load threw"}

\* The vectors have a slot for each slot of the graph, or no CPDs at all.
TypeOK ==
    /\ G!TypeOK
    /\ nodeTypes \in [1 .. numRaw -> FactorTypes \cup {Unknown}]
    /\ cpds = <<>> \/ cpds \in [1 .. numRaw -> Cpds \cup {NoCpd}]
    /\ outcome \in Outcomes
    /\ edits \in Nat

\* The graph stays consistent when it is edited through the network and when it
\* is rebuilt from a copy with other indices.
GraphSound ==
    /\ G!IndexMapsAgree
    /\ G!FreeSlotsExact
    /\ G!AdjacencyAgrees
    /\ G!RootsLeavesExact
    /\ G!ArcsAcyclic

\* A slot without a node has neither CPD nor type, so that a node put there later
\* starts without them, and a CPD has the type of its node, whatever the calls.
CpdsBelong ==
    /\ \A i \in 0 .. numRaw - 1 : i \notin G!Live => Type(i) = Unknown /\ Cpd(i) = NoCpd
    /\ \A i \in G!Live : Cpd(i) # NoCpd => Cpd(i).type = Type(i)

\* The CPD of node i is fitted and its evidence are the parents the node has now.
Current(i) == Cpd(i) # NoCpd /\ Cpd(i).fitted /\ Cpd(i).evidence = ParentNames(i)

\* fit, when it returns, has left no CPD over from another graph and no node
\* without a type, whatever was edited, given or half fitted before.
FitCompletes ==
    outcome = "fitted" => \A i \in G!Live : Type(i) # Unknown /\ Current(i)

\* "Fit all the unfitted": a fit, also one that throws midway, changes no CPD that
\* is current and no type that is known.
FitKeepsFitted ==
    [][outcome' \in {"fitted", "fit threw"} =>
         \A i \in G!Live : /\ Current(i) => Cpd(i)' = Cpd(i)
                           /\ Type(i) # Unknown => Type(i)' = Type(i)]_vars

\* The arcs a CLG network may not have: into a discrete node from another one.
Forbidden == {a \in arcs : Type(a[2]) = Discrete /\ Type(a[1]) # Discrete}

ForbiddenNames == {<<name[a[1]], name[a[2]]>> : a \in Forbidden}

\* A forbidden arc appears only when its source gets another type, or had none.
ForbiddenOnlyByType ==
    [][\A a \in Forbidden' \ Forbidden :
          outcome' # "loaded" => Type(a[1]) = Unknown \/ Type(a[1])' # Type(a[1])]_vars

\* A copy through pickle is the network node by node: names, types, parents, and
\* either no CPD or those compatible with the network.  It fails only for a
\* network with a forbidden arc.
LoadFaithful ==
    [][/\ outcome' = "loaded" =>
            /\ DOMAIN indices' = DOMAIN indices
            /\ \A i \in G!Live : \A j \in {indices'[name[i]]} :
                  /\ Type(j)' = Type(i)
                  /\ ParentNames(j)' = ParentNames(i)
            /\ \/ \A j \in G!Live' : Cpd(j)' = NoCpd
               \/ \A i \in G!Live : \A j \in {indices'[name[i]]} : Current(i) => Cpd(j)' = Cpd(i)
       /\ outcome' = "load threw" => Forbidden # {}]_vars
===============================================================================
