------------------------------ MODULE Orientation ------------------------------
(***************************************************************************)
(* How PC and MMPC direct the edges of a skeleton                          *)
(* (learning/algorithms/constraint.hpp): interface edges, blacklisted      *)
(* arcs, v-structures found by parallel threads, and the three Meek rules  *)
(* until nothing changes.  The variables of this module are the graph that *)
(* is learnt and the phase of the algorithm, which the modules of PC and   *)
(* MMPC share, and the state of the orientation.                           *)
(*                                                                         *)
(* A task gives what the caller passes: nodes, interface, separators (for  *)
(* each pair the sets given which the test finds it independent), the four *)
(* lists of Restrictions, useSepsets, threshold (a fraction <<n, d>>),     *)
(* bidirected, and dags: the directed acyclic graph whose separations are  *)
(* the answers of the test, if there is one and the task restricts nothing. *)
(***************************************************************************)
EXTENDS Restrictions

VARIABLES
    task,       \* what the caller asked for
    restrictions,
    pdag,       \* the graph
    phase,      \* where the algorithm is
    evaluated,  \* per child, the parent pairs of the v-structures to apply
    toCheck,    \* the arcs rule 1 has still to look at
    nextNode,   \* the first node rule 3 has still to look at
    changed     \* some rule of this round found an arc

problem == <<task, restrictions>>
rulesState == <<toCheck, nextNode, changed>>

OrientationPhases == {"found", "evaluate", "vstructures", "rule1", "rule2", "rule3"}

\* The test is faithful to the directed acyclic graph d, nothing is restricted and
\* the threshold is at most 1.
Faithful(t, d) ==
    /\ d \in Graphs /\ IsDag(d)
    /\ t.separators = Answers(d)
    /\ t.nodes = Nodes /\ t.interface = {}
    /\ t.arcBlacklist = {} /\ t.arcWhitelist = {} /\ t.edgeBlacklist = {} /\ t.edgeWhitelist = {}
    /\ t.threshold \in Nat \X Nat /\ t.threshold[1] <= t.threshold[2]

Adjacent(g, x) == Neighbors(g, x) \cup Parents(g, x)

\* The sets is_unambiguous_vstructure tests for the parents pq of a child.
TestedSets(g, pq, child) ==
    LET adjacent == UNION {Adjacent(g, x) : x \in pq}
    IN  {{}, {child}} \cup {{s} : s \in adjacent}
          \cup UNION {{S \in SUBSET Adjacent(g, x) : Cardinality(S) >= 2} : x \in pq}

\* Mutant: a child in some separating set does not count against it.
IsUnambiguousWeak(g, pq, child) ==
    task.separators[pq] \cap TestedSets(g, pq, child) # {}

IsUnambiguous(g, pq, child) ==
    LET indep == task.separators[pq] \cap TestedSets(g, pq, child)
        withChild == {S \in indep : child \in S}
    IN  /\ indep # {}
        /\ \/ withChild = {}
           \/ Cardinality(withChild) * task.threshold[2] < task.threshold[1] * Cardinality(indep)

-------------------------------------------------------------------------------
(* Whether the parents pq of child form a v-structure.  PC passes its      *)
(* separating sets; MMPC passes none and a zero threshold.                 *)

IsVStructure(sepset, g, pq, child) ==
    /\ pq \notin Skeleton(g)
    /\ IF task.useSepsets
       THEN \A S \in sepset[pq] : child \notin S
       ELSE IsUnambiguous(g, pq, child)

\* evaluate_vstructures_at_node: the pairs of neighbours first, then the
\* neighbours that are in no v-structure yet with the parents.
CandidatePairs(g, child) == {pq \in Edges : pq \subseteq Neighbors(g, child)}

MixedPairs(g, child, found) ==
    {{n, p} : n \in Neighbors(g, child) \ UNION found, p \in Parents(g, child)}

VStructuresAt(sepset, g, child) ==
    LET among == {pq \in CandidatePairs(g, child) : IsVStructure(sepset, g, pq, child)}
    IN  among \cup {pq \in MixedPairs(g, child, among) : IsVStructure(sepset, g, pq, child)}

\* Mutant: joined pairs are looked up as well.
LookedUpShielded(sepset, g) == UNION {CandidatePairs(g, x) : x \in task.nodes}

\* The pairs whose separating set the evaluation asks for.
LookedUp(sepset, g) ==
    UNION {LET found == {pq \in CandidatePairs(g, x) : IsVStructure(sepset, g, pq, x)}
           IN  {pq \in CandidatePairs(g, x) \cup MixedPairs(g, x, found) : pq \notin Skeleton(g)} :
             x \in task.nodes}

-------------------------------------------------------------------------------
(* Applying what was found.                                                *)

\* Mutant: whitelisted arcs are not looked at.
ApplicableUnprotected(g, pq, child) ==
    \A p \in pq : <<p, child>> \notin restrictions.arcBlacklist

\* No arc of the v-structure is blacklisted, and without bidirected arcs it does
\* not need the opposite of a whitelisted arc.
Applicable(g, pq, child) ==
    \A p \in pq : /\ <<p, child>> \notin restrictions.arcBlacklist
                  /\ task.bidirected \/ <<child, p>> \notin g.arcs \cap restrictions.arcWhitelist

Into(pairs, child) == {<<p, child>> : p \in UNION pairs}

ApplyVStructures(g, pairs, child) ==
    LET arcs == Into({pq \in pairs : Applicable(g, pq, child)}, child)
        directed == DirectAll(g, arcs)
    IN  IF task.bidirected THEN directed
        ELSE [directed EXCEPT !.arcs = @ \ {Reverse(a) : a \in arcs}]

\* rule1_find_new_arcs: a -> c -- n without a connection of a and n.
Rule1Arcs(g, arcs) ==
    {a \in Arcs : /\ Ends(a) \in g.edges
                  /\ \E b \in arcs : b[2] = a[1] /\ ~HasConnection(g, b[1], a[2])}

\* rule2: an edge whose ends are joined by a path of two arcs.  An edge is stored
\* with its lower end first; that direction is tried first.
Rule2Arcs(g) ==
    LET path(a) == Children(g, a[1]) \cap Parents(g, a[2]) # {}
    IN  {a \in Arcs : Ends(a) \in g.edges /\ path(a) /\ (a[1] < a[2] \/ ~path(Reverse(a)))}

\* rule3_at_node: neighbours m of n with two unconnected neighbours that are
\* parents of n.
Rule3Arcs(g, n) ==
    {a \in Arcs : /\ a[2] = n
                  /\ Ends(a) \in g.edges
                  /\ \E p, q \in Neighbors(g, a[1]) \cap Parents(g, n) :
                        p # q /\ ~HasConnection(g, p, q)}

-------------------------------------------------------------------------------
(* The actions.  The search has put the algorithm in phase "found".        *)

OrientationInit ==
    /\ evaluated = [x \in Nodes |-> {}]
    /\ toCheck = {}
    /\ nextNode = 0
    /\ changed = FALSE

\* direct_interface_edges (conditional graphs), then direct_arc_blacklist.
DirectRestricted ==
    LET fromInterface == {a \in Arcs : a[1] \in task.interface /\ Ends(a) \in pdag.edges}
        g == DirectAll(pdag, fromInterface)
        opposite == {Reverse(a) : a \in {a \in restrictions.arcBlacklist : Ends(a) \in g.edges}}
    IN  /\ phase = "found"
        /\ pdag' = DirectAll(g, opposite)
        /\ phase' = "evaluate"
        /\ UNCHANGED <<problem, evaluated, rulesState>>

\* The parallel loop of direct_unshielded_triples, on a graph nobody changes.  An
\* exception cannot leave the parallel region: the program ends.
EvaluateVStructures(sepset) ==
    /\ phase = "evaluate"
    /\ IF task.useSepsets /\ \E pq \in LookedUp(sepset, pdag) : sepset[pq] = {}
       THEN /\ phase' = "crashed"
            /\ UNCHANGED evaluated
       ELSE /\ phase' = "vstructures"
            /\ evaluated' = [x \in Nodes |->
                   IF x \in task.nodes THEN VStructuresAt(sepset, pdag, x) ELSE {}]
    /\ UNCHANGED <<problem, pdag, rulesState>>

\* The threads append the results of their nodes in any order.
ApplyAtChild(child) ==
    /\ phase = "vstructures"
    /\ evaluated[child] # {}
    /\ pdag' = ApplyVStructures(pdag, evaluated[child], child)
    /\ evaluated' = [evaluated EXCEPT ![child] = {}]
    /\ UNCHANGED <<problem, phase, rulesState>>

\* Mutant: changed keeps its value of the last round.
StartRoundStale ==
    /\ phase' = "rule1"
    /\ toCheck' = pdag.arcs
    /\ UNCHANGED <<problem, pdag, evaluated, nextNode, changed>>

StartRound ==
    /\ phase' = "rule1"
    /\ toCheck' = pdag.arcs
    /\ changed' = FALSE
    /\ UNCHANGED <<problem, pdag, evaluated, nextNode>>

AllApplied ==
    /\ phase = "vstructures"
    /\ \A x \in Nodes : evaluated[x] = {}
    /\ StartRound

\* rule1 repeats on the arcs it has just found.
Rule1 ==
    LET new == Rule1Arcs(pdag, toCheck)
    IN  /\ phase = "rule1"
        /\ pdag' = DirectAll(pdag, new)
        /\ toCheck' = new
        /\ changed' = (changed \/ new # {})
        /\ phase' = IF new = {} THEN "rule2" ELSE "rule1"
        /\ UNCHANGED <<problem, evaluated, nextNode>>

Rule2 ==
    LET new == Rule2Arcs(pdag)
    IN  /\ phase = "rule2"
        /\ pdag' = DirectAll(pdag, new)
        /\ changed' = (changed \/ new # {})
        /\ nextNode' = 0
        /\ phase' = "rule3"
        /\ UNCHANGED <<problem, evaluated, toCheck>>

\* Nodes in the order of their indices, each on the graph the others left.
Rule3Due(n) == n >= nextNode /\ Rule3Arcs(pdag, n) # {}

Rule3(n) ==
    /\ phase = "rule3"
    /\ Rule3Due(n)
    /\ \A m \in Nodes : Rule3Due(m) => n <= m
    /\ pdag' = DirectAll(pdag, Rule3Arcs(pdag, n))
    /\ nextNode' = n + 1
    /\ changed' = TRUE
    /\ UNCHANGED <<problem, phase, evaluated, toCheck>>

EndRound ==
    /\ phase = "rule3"
    /\ \A n \in Nodes : ~Rule3Due(n)
    /\ IF changed
       THEN StartRound
       ELSE phase' = "done" /\ UNCHANGED <<problem, pdag, evaluated, rulesState>>

Orient(sepset) ==
    \/ DirectRestricted
    \/ EvaluateVStructures(sepset)
    \/ \E x \in Nodes : ApplyAtChild(x)
    \/ AllApplied
    \/ Rule1
    \/ Rule2
    \/ \E n \in Nodes : Rule3(n)
    \/ EndRound

===============================================================================
