---------------------------------- MODULE PC ----------------------------------
(***************************************************************************)
(* PC::estimate and PC::estimate_conditional (learning/algorithms/pc.cpp): *)
(* the skeleton search, then the orientation with the separating sets it   *)
(* recorded.                                                               *)
(***************************************************************************)
EXTENDS SkeletonSearch

\* What dags says of a task is true.
ASSUME DagsAssumption == \A t \in Tasks : \A d \in t.dags : Faithful(t, d)

vars == <<problem, pdag, phase, evaluated, rulesState, searchState>>

Stopped == {"rejected", "crashed", "done"}

Init == SearchInit /\ OrientationInit

OrientSkeleton == Orient(sepset) /\ UNCHANGED searchState

\* The algorithm has returned or thrown.
Returned == phase \in Stopped /\ UNCHANGED vars

Next == FindSkeleton \/ OrientSkeleton \/ Returned

Spec == Init /\ [][Next]_vars /\ WF_vars(FindSkeleton \/ OrientSkeleton)

-------------------------------------------------------------------------------
Stages == {Idle} \cup [at : {"looking", "waiting", "removing"}, pair : Arcs]

\* The variables keep their types, and no pair has an edge and an arc.
TypeOK ==
    /\ task \in Tasks
    /\ restrictions = ValidateRestrictions(task)
    /\ pdag \in Graphs
    /\ \A a \in pdag.arcs : Ends(a) \notin pdag.edges
    /\ phase \in {"start", "marginal", "marginal_interface", "level"}
                   \cup OrientationPhases \cup Stopped
    /\ evaluated \in [Nodes -> SUBSET Edges]
    /\ toCheck \subseteq Arcs
    /\ nextNode \in Nat
    /\ changed \in BOOLEAN
    /\ sepset \in [Edges -> SUBSET SUBSET Nodes]
    /\ pending \subseteq Arcs
    /\ stage \in [Threads -> Stages]
    /\ missed \subseteq Edges
    /\ level \in Nat
    /\ tested \subseteq Edges
    /\ toRemove \subseteq Edges

\* Every pair of nodes that is not joined was not joined at the start, or has a
\* recorded separating set for which the test answered "independent"; joined
\* pairs outside of the removal in progress have none.
SepsetsSound ==
    \A e \in Skeleton(StartGraph(task)) :
        /\ sepset[e] \subseteq task.separators[e]
        /\ e \notin Skeleton(pdag) => sepset[e] # {}
        /\ e \in Skeleton(pdag) \ toRemove => sepset[e] = {}

\* With the answers of a faithful test, whatever the threads do short of
\* disturbing a lookup, PC returns the graph of the equivalence class.
ClassFound ==
    phase = "done" /\ missed = {} => \A d \in task.dags : pdag = ClassGraph(d)

\* The returned graph respects the four lists.
RestrictionsKept ==
    phase = "done" =>
        /\ restrictions.arcWhitelist \subseteq pdag.arcs
        /\ restrictions.edgeWhitelist \subseteq Skeleton(pdag)
        /\ restrictions.arcBlacklist \cap pdag.arcs = {}
        /\ restrictions.edgeBlacklist \cap Skeleton(pdag) = {}

\* The lookup of a separating set during the orientation fails only where the
\* caller combines use_sepsets with a blacklisted pair that has a common neighbour.
LookupsSucceed ==
    phase = "crashed" =>
        /\ task.useSepsets
        /\ \E e \in restrictions.edgeBlacklist, x \in task.nodes : e \subseteq Adjacent(pdag, x)

\* "Otherwise, it does not return bi-directed arcs" (allow_bidirected).
NoBidirected ==
    phase = "done" /\ ~task.bidirected => \A a \in pdag.arcs : Reverse(a) \notin pdag.arcs

\* The search and the orientation end.
Terminates == <>(phase \in Stopped)

-------------------------------------------------------------------------------
Searching == {"marginal", "marginal_interface", "level"}

Levels == INSTANCE LevelSearch WITH
    skeleton <- IF phase \in {"start", "marginal", "marginal_interface"}
                THEN Skeleton(StartGraph(task)) ELSE Skeleton(pdag),
    status <- IF phase \in {"start", "rejected"} THEN phase
              ELSE IF phase \in Searching THEN "searching" ELSE "found"

\* Threads and test orders do not matter: the search implements the levels, and
\* the orientation changes no adjacency.
LevelsRefined == Levels!Spec

===============================================================================
