---------------------------- MODULE ArcOperatorSet ----------------------------
(***************************************************************************)
(* The ArcOperatorSet of learning/operators: for every ordered pair of     *)
(* nodes one slot, with the delta score of the one operator that the pair  *)
(* allows in the current network (remove the arc, flip the opposite arc,   *)
(* or add the arc).  The deltas are cached once and refreshed after each   *)
(* operator for the nodes it reports as changed.                           *)
(*                                                                         *)
(* A decomposable score is a table: an integer for every node, type of the *)
(* node and set of parents.  The network is the parent set and the type of *)
(* each node; the acyclicity tests are the paths of Reachability, to which *)
(* the guards of Dag are equivalent (GuardsExact).  A conditional network  *)
(* has interface nodes besides its nodes: they may be parents and have     *)
(* none, and no score.                                                     *)
(***************************************************************************)
EXTENDS Integers, FiniteSets, Reachability

CONSTANTS Nodes,    \* the joint nodes of every network
          Problems  \* the searches a caller may ask for

\* The types of a semiparametric network.  In a Gaussian network every node is
\* linear Gaussian.  An interface node may have no type.
NodeTypes == {"LinearGaussian", "CKDE", "Discrete", "Unknown"}

Networks == [parents : [Nodes -> SUBSET Nodes], type : [Nodes -> NodeTypes]]
Tables == [Nodes -> [NodeTypes -> [SUBSET Nodes -> Int]]]

\* children(n) of every node of the network g
Children(g) == [n \in Nodes |-> {m \in Nodes : n \in g.parents[m]}]

\* can_have_arc: a discrete node has discrete parents only.
CanHaveArc(g, s, t) == g.type[t] # "Discrete" \/ g.type[s] = "Discrete"

\* local_score of the node in the network, and with other parents
LocalScore(table, g, n) == table[n][g.type[n]][g.parents[n]]
ScoreWith(table, g, n, parents) == table[n][g.type[n]][parents]

\* A search: the interface nodes, the score that drives it, the validation score
\* (when the score is a ValidatedScore), the operator sets, the restrictions on
\* arcs and types, the patience and the start network, once check_blacklist has
\* accepted it and force_whitelist and force_type_whitelist have completed it.
\* memory is what the delta matrix holds before a delta is written to it.
Problem ==
    [interface : SUBSET Nodes, score : Tables, val : Tables, validated : BOOLEAN,
     operators : SUBSET {"arcs", "node_type"} \ {{}},
     blacklist : SUBSET (Nodes \X Nodes), whitelist : SUBSET (Nodes \X Nodes),
     typeBlacklist : SUBSET (Nodes \X NodeTypes),
     typeWhitelist : SUBSET (Nodes \X NodeTypes),
     indegree : Nat, epsilon : Nat, patience : Nat, start : Networks,
     memory : [Nodes \X Nodes -> Int]]

ASSUME NodesAssumption == IsFiniteSet(Nodes)

\* The start network may have an arc that the types forbid: set_node_type does not
\* look at the children of the node.
ASSUME ProblemsAssumption ==
    /\ Problems \subseteq Problem
    /\ \A q \in Problems :
          /\ Acyclic(Nodes, Children(q.start))
          /\ \A n \in Nodes : IF n \in q.interface THEN q.start.parents[n] = {}
                                                   ELSE q.start.type[n] # "Unknown"
          /\ \A a \in q.whitelist : a[1] \in q.start.parents[a[2]]
          /\ \A a \in q.blacklist : a[1] \notin q.start.parents[a[2]]
          /\ \A a \in q.blacklist : a[2] \notin q.interface
          /\ \A w \in q.typeWhitelist : q.start.type[w[1]] = w[2]

VARIABLES
    problem,     \* the arguments of the search
    network,     \* current_model: the parents and the type of each node
    delta,       \* the delta matrix, on the valid slots
    localScore   \* m_local_cache

\* nodes(): the nodes of the network that are not interface nodes.
OwnNodes == Nodes \ problem.interface

-------------------------------------------------------------------------------
(* update_valid_ops                                                        *)

\* Mutant: a whitelisted arc is valid against its direction.
ValidOpAgainst(s, t) ==
    /\ s # t /\ t \in OwnNodes
    /\ <<s, t>> \notin problem.whitelist /\ <<s, t>> \notin problem.blacklist

\* A whitelisted arc is valid in neither direction, a blacklisted one is not
\* valid in its own, and no slot has an interface node as its target.
ValidOp(s, t) ==
    /\ s # t /\ t \in OwnNodes
    /\ <<s, t>> \notin problem.whitelist /\ <<t, s>> \notin problem.whitelist
    /\ <<s, t>> \notin problem.blacklist

ValidSlots == {a \in Nodes \X Nodes : "arcs" \in problem.operators /\ ValidOp(a[1], a[2])}

-------------------------------------------------------------------------------
(* cache_scores and update_scores.  Each of these operators takes the      *)
(* network g and the local score cache c it reads.                         *)

\* cache_score_operation, and cache_score_interface for an interface node s, into
\* which there is no arc to flip
SlotDelta(g, c, s, t) ==
    LET With(n, parents) == ScoreWith(problem.score, g, n, parents)
    IN  IF s \in g.parents[t] THEN With(t, g.parents[t] \ {s}) - c[t]
        ELSE IF t \in g.parents[s]
             THEN With(s, g.parents[s] \ {t}) + With(t, g.parents[t] \cup {s})
                    - c[s] - c[t]
             ELSE With(t, g.parents[t] \cup {s}) - c[t]

\* A slot whose arc the types forbid is valid, but is never written.
CacheScores(g, c) ==
    [a \in ValidSlots |-> IF CanHaveArc(g, a[1], a[2]) THEN SlotDelta(g, c, a[1], a[2])
                                                       ELSE problem.memory[a]]

\* update_incoming_arcs_scores for each changed node t: the slots of the arcs
\* into t, an arc of the network also when the types forbid it, and, for each
\* parent x of t, the slot (t, x) of the flip of x -> t.
Refreshed(g, changed) ==
    {a \in ValidSlots :
        \/ a[2] \in changed /\ (a[1] \in g.parents[a[2]] \/ CanHaveArc(g, a[1], a[2]))
        \/ /\ a[1] \in changed /\ a[2] \in g.parents[a[1]]
           /\ ValidOp(a[2], a[1]) /\ CanHaveArc(g, a[1], a[2])}

\* Mutant: the local scores keep their old values.
UpdateNoScores(g, changed) == localScore

UpdateLocalScores(g, changed) ==
    [n \in OwnNodes |-> IF n \in changed THEN LocalScore(problem.score, g, n)
                                         ELSE localScore[n]]

\* Mutant: the deltas of the other slots are lost.
UpdateArcScoresDrop(g, c, changed) ==
    delta' = [a \in Refreshed(g, changed) |-> SlotDelta(g, c, a[1], a[2])]

UpdateArcScores(g, c, changed) ==
    delta' = [a \in ValidSlots |-> IF a \in Refreshed(g, changed)
                                   THEN SlotDelta(g, c, a[1], a[2])
                                   ELSE delta[a]]

-------------------------------------------------------------------------------
(* The operators.                                                          *)

\* No path leads to an interface node; find_max does not look for one.
CanAddArc(s, t) ==
    s # t /\ CanHaveArc(network, s, t) /\ ~HasPath(Nodes, Children(network), t, s)

\* can_flip_arc on an arc s -> t of the network
CanFlipArc(s, t) ==
    CanHaveArc(network, t, s) /\ ~HasPath(Nodes, [Children(network) EXCEPT ![s] = @ \ {t}], s, t)

ArcOperators ==
    [kind : {"AddArc", "RemoveArc", "FlipArc"}, source : Nodes, target : Nodes]

-------------------------------------------------------------------------------
(* find_max                                                                *)

BelowIndegree(t) ==
    problem.indegree = 0 \/ Cardinality(network.parents[t]) < problem.indegree

\* The operator of the slot (s, t).
SlotOperator(s, t) ==
    IF s \in network.parents[t] THEN [kind |-> "RemoveArc", source |-> s, target |-> t]
    ELSE IF t \in network.parents[s] THEN [kind |-> "FlipArc", source |-> t, target |-> s]
         ELSE [kind |-> "AddArc", source |-> s, target |-> t]

\* The slots that find_max, walking them in the order of their deltas, does not
\* pass over.  An arc that cannot be flipped cannot be added in reverse either.
Candidates(tabu) ==
    {a \in ValidSlots :
        LET s == a[1]
            t == a[2]
        IN  /\ \/ s \in network.parents[t]
               \/ t \in network.parents[s] /\ BelowIndegree(t) /\ CanFlipArc(t, s)
               \/ s \notin network.parents[t] /\ t \notin network.parents[s]
                  /\ BelowIndegree(t) /\ CanAddArc(s, t)
            /\ SlotOperator(s, t) \notin tabu}

===============================================================================
