---------------------------- MODULE SkeletonSearch ----------------------------
(***************************************************************************)
(* The level-wise skeleton search of PC (find_skeleton in                  *)
(* learning/algorithms/pc.cpp).  In level 0 the threads take the pairs of  *)
(* nodes in row-major order and remove edges from the shared graph as they *)
(* go; in the levels above, the edges are tested in any order on a graph   *)
(* that changes only when all are done.                                    *)
(***************************************************************************)
EXTENDS Orientation

CONSTANTS
    Threads,
    Tasks       \* what callers may ask for

ASSUME TasksAssumption ==
    \A t \in Tasks : Checked(t) /\ t.separators \in [Edges -> SUBSET SUBSET Nodes]

VARIABLES
    sepset,     \* per pair, {} or {S}: the separating set that was recorded
    pending,    \* pairs <<lower, higher>> of level 0 that no thread has taken
    stage,      \* per thread, where it is in level 0 and its pair
    missed,     \* edges whose lookup a concurrent removal disturbed (history)
    level,      \* size of the separating sets that are tested
    tested,     \* edges the current level is done with
    toRemove    \* edges_to_remove

searchState == <<sepset, pending, stage, missed, level, tested, toRemove>>

Idle == [at |-> "idle", pair |-> <<>>]
AllIdle == \A t \in Threads : stage[t] = Idle

\* Edges the search may remove are left.
OpenEdges(g) == Cardinality(g.edges) > Cardinality(restrictions.edgeWhitelist)

\* max_cardinality looks at the nodes that are not interface nodes.
MaxCardinality(g, k) ==
    \A x \in task.nodes \ task.interface :
        Cardinality(Neighbors(g, x)) + Cardinality(Parents(g, x)) <= k

\* The separating sets of size k the search tests for the edge e: from the
\* neighbours and parents of one of its ends.
Candidates(g, e, k) ==
    {S \in UNION {SUBSET (Adjacent(g, x) \ e) : x \in e} : Cardinality(S) = k}

\* SepSet::insert keeps what is there.
Record(e, S) == [sepset EXCEPT ![e] = IF @ = {} THEN {S} ELSE @]

-------------------------------------------------------------------------------
SearchInit ==
    /\ task \in Tasks
    /\ restrictions = ValidateRestrictions(task)
    /\ pdag = StartGraph(task)
    /\ phase = "start"
    /\ sepset = [e \in Edges |-> {}]
    /\ pending = {}
    /\ stage = [t \in Threads |-> Idle]
    /\ missed = {}
    /\ level = 0
    /\ tested = {}
    /\ toRemove = {}

\* validate_restrictions, and the check that three or more whitelisted arcs leave
\* an acyclic graph.
Rejected ==
    \/ Contradiction(task)
    \/ Cardinality(restrictions.arcWhitelist) > 2 /\ Extensions(pdag) = {}

BeginSearch ==
    /\ phase = "start"
    /\ IF Rejected
       THEN phase' = "rejected" /\ UNCHANGED pending
       ELSE /\ phase' = IF OpenEdges(pdag) THEN "marginal" ELSE "found"
            /\ pending' = IF OpenEdges(pdag) THEN NodePairs(task) ELSE {}
    /\ UNCHANGED <<problem, pdag, evaluated, rulesState,
                   sepset, stage, missed, level, tested, toRemove>>

\* The next pair in row-major order goes to a thread that has none.
Take(t) ==
    \E a \in pending :
        /\ phase \in {"marginal", "marginal_interface"}
        /\ stage[t] = Idle
        /\ \A b \in pending : a[1] < b[1] \/ (a[1] = b[1] /\ a[2] <= b[2])
        /\ pending' = pending \ {a}
        /\ stage' = [stage EXCEPT ![t] = [at |-> "looking", pair |-> a]]
        /\ UNCHANGED <<problem, pdag, phase, evaluated, rulesState,
                       sepset, missed, level, tested, toRemove>>

\* Another thread is erasing entries of the neighbour set of x.
BeingErased(x) ==
    \E t \in Threads : stage[t].at = "removing" /\ x \in Ends(stage[t].pair)

\* has_edge_unsafe reads the neighbour set of the higher node without the lock.  An
\* erase in progress there may hide the entry.  The test follows.
Look(t) ==
    LET e == Ends(stage[t].pair)
        independent == e \notin restrictions.edgeWhitelist /\ {} \in task.separators[e]
    IN  /\ stage[t].at = "looking"
        /\ \/ /\ stage' = [stage EXCEPT ![t] = IF e \in pdag.edges /\ independent
                                               THEN [@ EXCEPT !.at = "waiting"] ELSE Idle]
              /\ UNCHANGED missed
           \/ /\ BeingErased(stage[t].pair[2])
              /\ e \in pdag.edges /\ independent
              /\ stage' = [stage EXCEPT ![t] = Idle]
              /\ missed' = missed \cup {e}
        /\ UNCHANGED <<problem, pdag, phase, evaluated, rulesState,
                       sepset, pending, level, tested, toRemove>>

\* The critical section: one thread at a time.
EnterCritical(t) ==
    /\ stage[t].at = "waiting"
    /\ \A u \in Threads : stage[u].at # "removing"
    /\ stage' = [stage EXCEPT ![t].at = "removing"]
    /\ UNCHANGED <<problem, pdag, phase, evaluated, rulesState,
                   sepset, pending, missed, level, tested, toRemove>>

\* Mutant: the separating set is not recorded.
RemoveSilently(t) ==
    /\ stage[t].at = "removing"
    /\ pdag' = [pdag EXCEPT !.edges = @ \ {Ends(stage[t].pair)}]
    /\ stage' = [stage EXCEPT ![t] = Idle]
    /\ UNCHANGED <<problem, phase, evaluated, rulesState,
                   sepset, pending, missed, level, tested, toRemove>>

Remove(t) ==
    LET e == Ends(stage[t].pair)
    IN  /\ stage[t].at = "removing"
        /\ pdag' = [pdag EXCEPT !.edges = @ \ {e}]
        /\ sepset' = Record(e, {})
        /\ stage' = [stage EXCEPT ![t] = Idle]
        /\ UNCHANGED <<problem, phase, evaluated, rulesState,
                       pending, missed, level, tested, toRemove>>

\* The loop condition of find_skeleton before level k.
StartLevel(k, g) ==
    /\ phase' = IF OpenEdges(g) /\ ~MaxCardinality(g, k) THEN "level" ELSE "found"
    /\ level' = k
    /\ tested' = {}
    /\ toRemove' = {}

\* Mutant: no barrier.
EndMarginalNoBarrier ==
    /\ phase = "marginal"
    /\ pending = {}
    /\ StartLevel(1, pdag)
    /\ UNCHANGED <<problem, pdag, evaluated, rulesState, sepset, stage, missed, pending>>

\* The barrier at the end of a parallel region of level 0.
EndMarginal ==
    /\ phase \in {"marginal", "marginal_interface"}
    /\ pending = {}
    /\ AllIdle
    /\ IF phase = "marginal" /\ task.interface # {}
       THEN /\ phase' = "marginal_interface"
            /\ pending' = InterfacePairs(task)
            /\ UNCHANGED <<level, tested, toRemove>>
       ELSE /\ StartLevel(1, pdag)
            /\ UNCHANGED pending
    /\ UNCHANGED <<problem, pdag, evaluated, rulesState, sepset, stage, missed>>

\* A thread finishes an edge of the level: it finds one of the sets that separate
\* the ends, or none.
TestEdge(e) ==
    LET found == Candidates(pdag, e, level) \cap task.separators[e]
    IN  /\ phase = "level"
        /\ e \in pdag.edges \ tested
        /\ tested' = tested \cup {e}
        /\ IF e \in restrictions.edgeWhitelist \/ found = {}
           THEN UNCHANGED <<sepset, toRemove>>
           ELSE \E S \in found : sepset' = Record(e, S) /\ toRemove' = toRemove \cup {e}
        /\ UNCHANGED <<problem, pdag, phase, evaluated, rulesState,
                       pending, stage, missed, level>>

\* All edges are tested: those found separable are removed together.
EndLevel ==
    LET g == [pdag EXCEPT !.edges = @ \ toRemove]
    IN  /\ phase = "level"
        /\ tested = pdag.edges
        /\ pdag' = g
        /\ StartLevel(level + 1, g)
        /\ UNCHANGED <<problem, evaluated, rulesState, sepset, pending, stage, missed>>

FindSkeleton ==
    \/ BeginSearch
    \/ \E t \in Threads : Take(t) \/ Look(t) \/ EnterCritical(t) \/ Remove(t)
    \/ EndMarginal
    \/ \E e \in Edges : TestEdge(e)
    \/ EndLevel

===============================================================================
