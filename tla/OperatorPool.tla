----------------------------- MODULE OperatorPool -----------------------------
(***************************************************************************)
(* The operator sets of a search together: OperatorPool when there are     *)
(* two, the one set otherwise.  The sets share the cache of local scores.  *)
(***************************************************************************)
EXTENDS ChangeNodeTypeSet

Operators == ArcOperators \cup TypeOperators

\* apply, on the network g
Apply(op, g) ==
    CASE op.kind = "AddArc" -> [g EXCEPT !.parents[op.target] = @ \cup {op.source}]
      [] op.kind = "RemoveArc" -> [g EXCEPT !.parents[op.target] = @ \ {op.source}]
      [] op.kind = "FlipArc" -> [g EXCEPT !.parents[op.target] = @ \ {op.source},
                                          !.parents[op.source] = @ \cup {op.target}]
      [] op.kind = "ChangeNodeType" -> [g EXCEPT !.type[op.node] = op.type]

\* Mutant: a flip reports its target only.
NodesChangedTarget(op) ==
    IF op.kind = "ChangeNodeType" THEN {op.node} ELSE {op.target}

NodesChanged(op) ==
    CASE op.kind = "FlipArc" -> {op.source, op.target}
      [] op.kind = "ChangeNodeType" -> {op.node}
      [] OTHER -> {op.target}

\* opposite, of the network g that is passed to it
Opposite(op, g) ==
    CASE op.kind = "AddArc" -> [op EXCEPT !.kind = "RemoveArc"]
      [] op.kind = "RemoveArc" -> [op EXCEPT !.kind = "AddArc"]
      [] op.kind = "FlipArc" -> [op EXCEPT !.source = op.target, !.target = op.source]
      [] op.kind = "ChangeNodeType" -> [op EXCEPT !.type = g.type[op.node]]

-------------------------------------------------------------------------------
(* find_max.  An offer is an operator with its delta.                      *)

ArcOffers(tabu) ==
    {[op |-> SlotOperator(a[1], a[2]), delta |-> delta[a]] : a \in Candidates(tabu)}

TypeOffers(tabu) ==
    {[op |-> TypeOperator(n), delta |-> typeDelta[CollapsedIndex[n]]] : n \in FindMaxType(tabu)}

\* std::sort leaves slots of equal delta in any order.  Of two sets with equal
\* offers the first of the pool wins, and their order is the caller's.
FindMax(tabu) ==
    LET offers == ArcOffers(tabu) \cup TypeOffers(tabu)
    IN  {o \in offers : \A q \in offers : q.delta <= o.delta}

\* update_scores: the shared cache first, then each set.
UpdateScores(g, changed) ==
    /\ localScore' = UpdateLocalScores(g, changed)
    /\ UpdateArcScores(g, localScore', changed)
    /\ UpdateTypeScores(g, localScore', changed)

===============================================================================
