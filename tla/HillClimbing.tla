----------------------------- MODULE HillClimbing -----------------------------
(***************************************************************************)
(* estimate_hc of learning/algorithms/hillclimbing.hpp: the greedy search  *)
(* over the operators of an OperatorPool, with the validation score, the   *)
(* patience and the tabu set.  One action is one iteration of the loop.    *)
(*                                                                         *)
(* best_model is a shared pointer: it points to current_model, to          *)
(* prev_current_model or to a clone, and what it points to may be changed  *)
(* by later operators.  bestRef is the pointer, snapshot the clone.        *)
(***************************************************************************)
EXTENDS OperatorPool, Functions

VARIABLES
    prevNetwork,  \* prev_current_model
    bestRef,      \* what best_model points to
    snapshot,     \* the last clone of prev_current_model
    p,            \* iterations since the last improvement
    offset,       \* accumulated_offset
    tabu,         \* tabu_set
    vlocalScore,  \* local_validation
    status        \* "searching", "finished", "interrupted" by max_iters, or
                  \* "undefined" after an access outside a vector

searchVars == <<prevNetwork, bestRef, snapshot, p, offset, tabu, vlocalScore, status>>
vars == <<problem, network, delta, typeDelta, localScore, searchVars>>

Best == CASE bestRef = "current" -> network
          [] bestRef = "prev" -> prevNetwork
          [] bestRef = "snapshot" -> snapshot

Init ==
    /\ problem \in Problems
    /\ network = problem.start
    /\ prevNetwork = network
    /\ bestRef = "current"
    /\ snapshot = network
    /\ localScore = [n \in OwnNodes |-> LocalScore(problem.score, network, n)]
    /\ vlocalScore = [n \in OwnNodes |-> LocalScore(problem.val, network, n)]
    /\ delta = CacheScores(network, localScore)
    /\ typeDelta = CacheTypeScores(network, localScore)
    /\ p = 0
    /\ offset = 0
    /\ tabu = {}
    /\ status = "searching"

-------------------------------------------------------------------------------
(* One iteration.                                                          *)

UpdateVLocalScores(g, changed) ==
    [n \in OwnNodes |-> IF n \in changed THEN LocalScore(problem.val, g, n)
                                         ELSE vlocalScore[n]]

\* validation_delta_score; an operator changes one node or two.
ValidationDelta(offer) ==
    LET op == offer.op
        gain(n) == LocalScore(problem.val, Apply(op, network), n) - vlocalScore[n]
    IN  IF ~problem.validated THEN offer.delta
        ELSE CASE op.kind = "FlipArc" -> gain(op.source) + gain(op.target)
               [] op.kind = "ChangeNodeType" -> gain(op.node)
               [] OTHER -> gain(op.target)

ZeroPatience == problem.patience = 0

\* Mutant: what was lost since the last improvement is not counted.
GainWithoutOffset(offer) == ValidationDelta(offer)

Gain(offer) == ValidationDelta(offer) + offset

\* find_max is called with the tabu set unless patience is 0.
BestOffers == FindMax(IF ZeroPatience THEN {} ELSE tabu)

\* The operator is applied to current_model, and nodes_changed is computed.
ApplyToCurrent(op) ==
    /\ network' = Apply(op, network)
    /\ vlocalScore' = UpdateVLocalScores(network', NodesChanged(op))

\* The rest of an iteration that does not leave the loop.
GoOn(op) ==
    /\ InBounds(NodesChanged(op))
    /\ prevNetwork' = Apply(op, prevNetwork)
    /\ UpdateScores(network', NodesChanged(op))
    /\ UNCHANGED <<problem, status>>

\* No operator, or none with a delta above epsilon.
NoOperator ==
    /\ status = "searching"
    /\ \A offer \in BestOffers : offer.delta <= problem.epsilon
    /\ status' = "finished"
    /\ UNCHANGED <<problem, network, delta, typeDelta, localScore, prevNetwork,
                   bestRef, snapshot, p, offset, tabu, vlocalScore>>

\* The validation score is above that of best_model.
Improve(offer) ==
    LET op == offer.op
    IN  /\ status = "searching"
        /\ offer.delta > problem.epsilon
        /\ Gain(offer) > 0
        /\ ApplyToCurrent(op)
        /\ IF p > 0 THEN bestRef' = "current" /\ p' = 0 /\ offset' = 0
                    ELSE UNCHANGED <<bestRef, p, offset>>
        /\ tabu' = IF ZeroPatience THEN tabu ELSE {}
        /\ UNCHANGED snapshot
        /\ GoOn(op)

\* Mutant: best_model shares prev_current_model instead of cloning it.
KeepBestShared ==
    IF p = 0 THEN bestRef' = "prev" /\ UNCHANGED snapshot
             ELSE UNCHANGED <<bestRef, snapshot>>

\* The network before the operator is cloned when the search starts to lose.
KeepBest ==
    IF p = 0 THEN bestRef' = "snapshot" /\ snapshot' = prevNetwork
             ELSE UNCHANGED <<bestRef, snapshot>>

\* It is not, but patience is left: the opposite operator becomes tabu.
Tolerate(offer) ==
    LET op == offer.op
    IN  /\ status = "searching"
        /\ offer.delta > problem.epsilon
        /\ Gain(offer) <= 0
        /\ ~ZeroPatience
        /\ p + 1 <= problem.patience
        /\ ApplyToCurrent(op)
        /\ KeepBest
        /\ p' = p + 1
        /\ offset' = offset + ValidationDelta(offer)
        /\ tabu' = tabu \cup {Opposite(op, network')}
        /\ GoOn(op)

\* It is not, and no patience is left: the loop ends with the operator applied
\* to current_model only.
GiveUp(offer) ==
    LET op == offer.op
    IN  /\ status = "searching"
        /\ offer.delta > problem.epsilon
        /\ Gain(offer) <= 0
        /\ p + 1 > problem.patience
        /\ ApplyToCurrent(op)
        /\ IF ZeroPatience THEN bestRef' = "prev" /\ UNCHANGED <<snapshot, p>>
                           ELSE KeepBest /\ p' = p + 1
        /\ status' = "finished"
        /\ UNCHANGED <<problem, delta, typeDelta, localScore, prevNetwork, offset, tabu>>

\* max_iters, which may be any number, is reached.
OutOfIterations ==
    /\ status = "searching"
    /\ status' = "interrupted"
    /\ UNCHANGED <<problem, network, delta, typeDelta, localScore, prevNetwork,
                   bestRef, snapshot, p, offset, tabu, vlocalScore>>

\* find_max or update_scores of ChangeNodeTypeSet goes past the end of a vector.
\* What follows is not modelled.
Undefined ==
    /\ status' = "undefined"
    /\ UNCHANGED <<problem, network, delta, typeDelta, localScore, prevNetwork,
                   bestRef, snapshot, p, offset, tabu, vlocalScore>>

MissingType ==
    /\ status = "searching"
    /\ ReadsPastTypes
    /\ Undefined

MissingEntry(offer) ==
    /\ status = "searching"
    /\ offer.delta > problem.epsilon
    /\ Gain(offer) > 0 \/ (~ZeroPatience /\ p + 1 <= problem.patience)
    /\ ~InBounds(NodesChanged(offer.op))
    /\ Undefined

Iterate ==
    \/ \E offer \in BestOffers :
          \/ Improve(offer)
          \/ Tolerate(offer)
          \/ GiveUp(offer)
          \/ MissingEntry(offer)
    \/ NoOperator
    \/ MissingType

Next == Iterate \/ OutOfIterations

\* The loop goes on until one of its exits is taken.
Spec == Init /\ [][Next]_vars /\ WF_vars(Iterate)

-------------------------------------------------------------------------------
(* Properties.                                                             *)

\* The score, and the validation score, of a network.
Total(table, g) == SumFunction([n \in OwnNodes |-> LocalScore(table, g, n)])
Score(g) == Total(problem.score, g)
Validation(g) == Total(problem.val, g)

\* Every variable has its type.
TypeOK ==
    /\ problem \in Problems
    /\ network \in Networks /\ prevNetwork \in Networks /\ snapshot \in Networks
    /\ delta \in [ValidSlots -> Int]
    /\ DOMAIN typeDelta \subseteq 0 .. Entries - 1 /\ typeDelta \in [DOMAIN typeDelta -> Int]
    /\ localScore \in [OwnNodes -> Int] /\ vlocalScore \in [OwnNodes -> Int]
    /\ bestRef \in {"current", "prev", "snapshot"}
    /\ p \in Nat /\ offset \in Int
    /\ tabu \subseteq Operators
    /\ status \in {"searching", "finished", "interrupted", "undefined"}

\* No node whose type is whitelisted comes before one whose type is not.
Aligned == \A n \in TypeNodes : Appended(n) = CollapsedIndex[n]

\* Between two iterations the two caches hold the local scores of the current
\* network; the slot of each pair of nodes joined by an arc holds the score
\* difference of its removal or flip, whatever operators were applied; and, unless
\* whitelisted nodes have shifted the entries, so does the entry of each node
\* whose type may change, and there is no other.
CachesExact ==
    status = "searching" =>
        /\ \A n \in OwnNodes : /\ localScore[n] = LocalScore(problem.score, network, n)
                               /\ vlocalScore[n] = LocalScore(problem.val, network, n)
        /\ \A a \in ValidSlots :
              /\ a[1] \in network.parents[a[2]] \/ a[2] \in network.parents[a[1]]
              /\ CanHaveArc(network, a[1], a[2])
              => delta[a] = Score(Apply(SlotOperator(a[1], a[2]), network)) - Score(network)
        /\ Aligned =>
              /\ Readable = {n \in TypeNodes : Proposed(network, n)}
              /\ \A n \in Readable : typeDelta[CollapsedIndex[n]] =
                    Score(Apply(TypeOperator(n), network)) - Score(network)

\* The cached delta of a slot is the score difference its operator would make.
SlotExact(a, g, d) ==
    d[a] = SlotDelta(g, [n \in OwnNodes |-> LocalScore(problem.score, g, n)], a[1], a[2])

\* An iteration makes a delta wrong only in the slot opposite to a removed arc.
OnlyRemovalsGoStale ==
    [][status' = "searching" =>
         \A a \in ValidSlots :
            /\ CanHaveArc(network, a[1], a[2])
            /\ SlotExact(a, network, delta) /\ ~SlotExact(a, network', delta')
            => /\ a[2] \in network.parents[a[1]]
               /\ a[2] \notin network'.parents[a[1]] /\ a[1] \notin network'.parents[a[2]]]_vars

\* The current network and the one returned contain the whitelist, no arc of the
\* blacklist, no cycle and no new arc that the types forbid; no interface node has
\* a parent, and no node gets more parents than allowed.  Nodes with a whitelisted
\* type keep it, even when they have shifted the entries of other nodes; no node
\* gets a blacklisted type if the types are the only operators and no entry is
\* shifted.
RestrictionsKept ==
    \A g \in {network, Best} :
        /\ Acyclic(Nodes, Children(g))
        /\ \A a \in problem.whitelist : a[1] \in g.parents[a[2]]
        /\ \A a \in problem.blacklist : a[1] \notin g.parents[a[2]]
        /\ \A n \in Nodes : \A m \in g.parents[n] :
              CanHaveArc(g, m, n) \/ m \in problem.start.parents[n]
        /\ \A n \in problem.interface : g.parents[n] = {}
        /\ \A n \in Nodes : \/ problem.indegree = 0
                            \/ Cardinality(g.parents[n]) <= problem.indegree
                            \/ Cardinality(g.parents[n]) <= Cardinality(problem.start.parents[n])
        /\ \A w \in problem.typeWhitelist : g.type[w[1]] = w[2]
        /\ "arcs" \notin problem.operators /\ Aligned =>
              \A n \in Nodes : \/ g.type[n] = problem.start.type[n]
                              \/ <<n, g.type[n]>> \notin problem.typeBlacklist

\* best_model is the current model until the validation score gets worse; from
\* then on it lags the current model by exactly the accumulated losses.
BestAccounted ==
    status = "searching" =>
        /\ p <= problem.patience
        /\ p = 0 => Best = network /\ offset = 0 /\ tabu = {}
        /\ p > 0 => /\ problem.validated
                    /\ Validation(network) = Validation(Best) + offset
                    /\ offset <= 0

\* With a validated score the model to be returned never gets worse, and is at
\* least as good as every network the search has been through.
BestNeverWorse ==
    [][problem.validated =>
         /\ Validation(Best)' >= Validation(Best)
         /\ Validation(Best)' >= Validation(network)']_vars

\* The search ends without the help of max_iters: although a stale delta may
\* make it apply an operator that loses score, and the tabu set does not keep it
\* from undoing a change of type, it never goes round in circles.
Terminates == <>(status # "searching")

\* The delta of the operator applied is the score difference it makes.
AppliedDeltaTrue ==
    [][network' # network =>
         \E offer \in BestOffers : /\ network' = Apply(offer.op, network)
                                  /\ offer.delta = Score(network') - Score(network)]_vars

\* With a validated score, an operator that loses training score does not end
\* the search while patience is left.
PatienceHonoured ==
    [][status' = "finished" /\ problem.validated /\ p < problem.patience
         => BestOffers = {}]_vars

===============================================================================
