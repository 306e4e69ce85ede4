-------------------------- MODULE ChangeNodeTypeSet ---------------------------
(***************************************************************************)
(* The ChangeNodeTypeSet of learning/operators: for every node the deltas  *)
(* of the types it may change to.  In a semiparametric network a linear    *)
(* Gaussian node may become CKDE and back, and a discrete node keeps its   *)
(* type, so that an entry of delta is one number, or empty.                *)
(*                                                                         *)
(* delta is a vector.  cache_scores appends an entry for each node that is *)
(* not whitelisted; find_max and update_scores look for a node's entry at  *)
(* its collapsed index.  The two places differ after a whitelisted node.   *)
(***************************************************************************)
EXTENDS ArcOperatorSet

CONSTANT CollapsedIndex  \* the collapsed index of each node; interface nodes last

ASSUME CollapsedIndexAssumption ==
    /\ CollapsedIndex \in [Nodes -> 0 .. Cardinality(Nodes) - 1]
    /\ \A m, n \in Nodes : CollapsedIndex[m] = CollapsedIndex[n] => m = n
    /\ \A q \in Problems : \A m \in q.interface, n \in Nodes \ q.interface :
          CollapsedIndex[n] < CollapsedIndex[m]

VARIABLE typeDelta  \* delta: its entries that are neither empty nor lowest()

\* alternative_node_type
OtherType == [T \in {"LinearGaussian", "CKDE"} |->
                 IF T = "CKDE" THEN "LinearGaussian" ELSE "CKDE"]

\* The nodes this set works on: none if it is not used, no whitelisted one.
TypeNodes ==
    {n \in OwnNodes : /\ "node_type" \in problem.operators
                      /\ \A w \in problem.typeWhitelist : w[1] # n}

\* m_type_blacklist.  A pool does not pass set_type_blacklist on, and
\* check_valid_operators constructs the set of the pool with the whitelist in
\* the place of its blacklist.
ForbiddenTypes ==
    IF "arcs" \in problem.operators THEN problem.typeWhitelist ELSE problem.typeBlacklist

\* The node n has an alternative, and it is not blacklisted.
Proposed(g, n) ==
    g.type[n] \in DOMAIN OtherType /\ <<n, OtherType[g.type[n]]>> \notin ForbiddenTypes

TypeGain(g, c, n) == problem.score[n][OtherType[g.type[n]]][g.parents[n]] - c[n]

\* The number of entries, and the place of the entry that cache_scores appends
\* for the node n.
Entries == Cardinality(TypeNodes)
Appended(n) ==
    Cardinality({m \in TypeNodes : CollapsedIndex[m] < CollapsedIndex[n]})

CacheTypeScores(g, c) ==
    [i \in {Appended(n) : n \in {m \in TypeNodes : Proposed(g, m)}} |->
        TypeGain(g, c, CHOOSE n \in TypeNodes : Proposed(g, n) /\ Appended(n) = i)]

\* Every entry that update_scores writes to exists.
InBounds(changed) == \A n \in changed \cap TypeNodes : CollapsedIndex[n] < Entries

\* Mutant: the entries keep their old values.
UpdateTypeScoresKeep(g, c, changed) == UNCHANGED typeDelta

UpdateTypeScores(g, c, changed) ==
    LET nodes == changed \cap TypeNodes
        written == {CollapsedIndex[n] : n \in nodes}
        filled == {CollapsedIndex[n] : n \in {m \in nodes : Proposed(g, m)}}
    IN  typeDelta' =
            [i \in (DOMAIN typeDelta \ written) \cup filled |->
                IF i \in filled
                THEN TypeGain(g, c, CHOOSE n \in nodes : CollapsedIndex[n] = i)
                ELSE typeDelta[i]]

TypeOperators == [kind : {"ChangeNodeType"}, node : Nodes, type : NodeTypes]

TypeOperator(n) ==
    [kind |-> "ChangeNodeType", node |-> n, type |-> OtherType[network.type[n]]]

\* The nodes for which find_max reads a delta.  If the entry there is another
\* node's it may read a type that the node has not got.
Readable == {n \in TypeNodes : CollapsedIndex[n] \in DOMAIN typeDelta}
ReadsPastTypes == \E n \in Readable : network.type[n] \notin DOMAIN OtherType

TypeCandidates(tabu) ==
    {n \in Readable : network.type[n] \in DOMAIN OtherType /\ TypeOperator(n) \notin tabu}

\* find_max: the first node with the greatest delta.
FindMaxType(tabu) ==
    LET nodes == TypeCandidates(tabu)
    IN  {n \in nodes : \A m \in nodes :
            LET d == typeDelta[CollapsedIndex[n]]
                e == typeDelta[CollapsedIndex[m]]
            IN  e < d \/ (e = d /\ CollapsedIndex[n] <= CollapsedIndex[m])}

===============================================================================
