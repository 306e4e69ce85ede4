--------------------------------- MODULE Mmpc ---------------------------------
(***************************************************************************)
(* MMPC (learning/algorithms/mmpc.cpp): the candidate parents and children *)
(* (CPC) of every node, by a forward phase that adds the candidate with    *)
(* the strongest least association and a backward phase that removes the   *)
(* members some set of the others separates from the node.  MMPC::estimate *)
(* makes a graph of them and directs it; MMHC::estimate (mmhc.cpp) makes   *)
(* the arc blacklist of a hill-climbing of them.                           *)
(*                                                                         *)
(* A task has, besides the fields Orientation reads, the p-value of each   *)
(* pair given each set (an integer compared with Alpha), and whether MMHC  *)
(* is asked.  MMPC directs v-structures without separating sets and        *)
(* ignores its ambiguous_threshold: useSepsets is FALSE, the threshold 0.  *)
(***************************************************************************)
EXTENDS Orientation

CONSTANTS Tasks, Alpha

\* A task has a node; its nodes are the indices of the graph.  MMPC has no separating
\* sets to look up.
ASSUME TasksAssumption ==
    /\ Alpha \in Nat
    /\ \A t \in Tasks :
          /\ Checked(t)
          /\ t.nodes # {} /\ t.nodes = 0 .. Cardinality(t.nodes) - 1
          /\ t.pvalue \in [Edges -> [SUBSET Nodes -> Nat]]
          /\ ~t.useSepsets

\* What dags says of a task is true, and no p-value of it is Alpha.
ASSUME DagsAssumption ==
    \A t \in Tasks : \A d \in t.dags :
        /\ Faithful(t, d)
        /\ \A e \in Edges : \A S \in SUBSET (Nodes \ e) :
              IF S \in t.separators[e] THEN t.pvalue[e][S] > Alpha ELSE t.pvalue[e][S] < Alpha

VARIABLES
    cpcs,
    toBeChecked,
    minAssoc,     \* per node and candidate; the greater, the weaker
    maxmin,       \* per node, the strongest candidate so far
    node,         \* the node whose turn it is, in the loops over the nodes
    lastAdded,
    remaining,    \* members of cpcs[node] the backward phase has not visited
    blacklist     \* MMHC: the arcs the hill-climbing may not add

cpcState == <<cpcs, toBeChecked, minAssoc, maxmin, node, lastAdded, remaining>>
searched == <<problem, blacklist, evaluated, rulesState>>
vars == <<pdag, phase, cpcState, searched>>

Stop == -1
None == [assoc |-> Alpha, index |-> Stop]

Pvalue(x, y, S) == task.pvalue[{x, y}][S]

Higher(m, n) == IF m < n THEN n ELSE m

\* The candidates of C that a loop in an unspecified order can leave in maxmin_index,
\* which keeps its value unless one is strictly less.
Strongest(assoc, C, old) ==
    LET best == {x \in C : assoc[x] < old.assoc /\ \A y \in C : assoc[x] <= assoc[y]}
    IN  IF best = {} THEN {old} ELSE {[assoc |-> assoc[x], index |-> x] : x \in best}

Joined(lists) == lists.edgeWhitelist \cup {Ends(a) : a \in lists.arcWhitelist}

\* is_whitelisted_pc
Whitelisted(x) == {y \in Nodes : {x, y} \in Joined(restrictions)}

\* The pairs that may be joined: blacklisted pairs and pairs of interface nodes may not.
AllowedPairs ==
    {Ends(a) : a \in NodePairs(task) \cup InterfacePairs(task)} \ restrictions.edgeBlacklist

-------------------------------------------------------------------------------
\* validate_restrictions; estimate adds the whitelisted arcs; generate_cpcs.
GenerateCpcs ==
    /\ phase = "start"
    /\ IF Contradiction(task)
       THEN phase' = "rejected" /\ UNCHANGED <<pdag, cpcs, toBeChecked>>
       ELSE /\ phase' = "marginal"
            /\ pdag' = [pdag EXCEPT !.arcs = restrictions.arcWhitelist]
            /\ cpcs' = [x \in Nodes |-> Whitelisted(x)]
            /\ toBeChecked' =
                   [x \in Nodes |-> {y \in Nodes : {x, y} \in AllowedPairs} \ Whitelisted(x)]
    /\ UNCHANGED <<minAssoc, maxmin, node, lastAdded, remaining, searched>>

\* Mutant: what is accepted stays to be checked.
LeftToCheckAll(x, accepted) == toBeChecked[x]

LeftToCheck(x, accepted) == toBeChecked[x] \ accepted

\* In the loops over the pairs the nodes come in order: the first of the strongest.
FirstPick(x, dependent) ==
    {y \in dependent : \A z \in dependent :
        LET p == Pvalue(x, y, {})
            q == Pvalue(x, z, {})
        IN  p < q \/ (p = q /\ y <= z)}

\* marginal_cpcs_all_variables, and the first member of each CPC that is still empty.
Marginal ==
    LET open == {e \in AllowedPairs : \E x \in e : cpcs[x] = {}}
        dependent(x) == {y \in Nodes : {x, y} \in open /\ Pvalue(x, y, {}) < Alpha}
        rejected(x) == {y \in Nodes : {x, y} \in open /\ Pvalue(x, y, {}) >= Alpha}
        first(x) == IF cpcs[x] = {} THEN FirstPick(x, dependent(x)) ELSE {}
    IN  /\ phase = "marginal"
        /\ minAssoc' = [x \in Nodes |-> [y \in Nodes |->
               IF cpcs[x] = {} /\ y \in dependent(x) THEN Pvalue(x, y, {}) ELSE 0]]
        /\ cpcs' = [x \in Nodes |-> cpcs[x] \cup first(x)]
        /\ toBeChecked' = [x \in Nodes |-> LeftToCheck(x, first(x)) \ rejected(x)]
        /\ phase' = IF \A x \in Nodes : first(x) = {} THEN "searched" ELSE "univariate"
        /\ UNCHANGED <<pdag, maxmin, node, lastAdded, remaining, searched>>

\* The turn passes to the next node, if there is one.
NextNode(during, after) ==
    LET more == node + 1 < Cardinality(task.nodes)
    IN  /\ node' = IF more THEN node + 1 ELSE 0
        /\ phase' = IF more THEN during ELSE after

\* univariate_cpcs_all_variables at the node x: a CPC of one member c.  A test that y
\* would repeat is used for both.
Univariate ==
    LET x == node
        single == Cardinality(cpcs[x]) = 1
        repeated(y) == cpcs[y] = cpcs[x] /\ x \in toBeChecked[y]
        tested == {y \in toBeChecked[x] : single /\ (repeated(y) => x < y)}
        p(y) == Pvalue(x, y, cpcs[x])
        assoc == [y \in Nodes |-> IF y \in tested THEN Higher(minAssoc[x][y], p(y)) ELSE minAssoc[x][y]]
        both == {y \in tested : repeated(y)}
        back(y) == Higher(minAssoc[y][x], p(y))
    IN  /\ phase = "univariate"
        /\ minAssoc' = [y \in Nodes |->
               IF y = x THEN assoc
               ELSE IF y \in both THEN [minAssoc[y] EXCEPT ![x] = back(y)] ELSE minAssoc[y]]
        /\ toBeChecked' = [y \in Nodes |->
               IF y = x THEN toBeChecked[x] \ {z \in tested : assoc[z] > Alpha}
               ELSE IF y \in both /\ back(y) > Alpha THEN toBeChecked[y] \ {x} ELSE toBeChecked[y]]
        /\ \E best \in Strongest(assoc, tested, maxmin[x]) :
              maxmin' = [y \in Nodes |->
                  IF y = x THEN best
                  ELSE IF y \in both /\ back(y) < maxmin[y].assoc
                       THEN [assoc |-> back(y), index |-> x] ELSE maxmin[y]]
        /\ NextNode("univariate", "forward_start")
        /\ UNCHANGED <<pdag, cpcs, lastAdded, remaining, searched>>

-------------------------------------------------------------------------------
(* The phases of one node.                                                 *)

StartBackward ==
    /\ phase' = "backward"
    /\ remaining' = IF Cardinality(cpcs'[node]) > 1 THEN cpcs'[node] ELSE {}

Add(x, y) ==
    /\ cpcs' = [cpcs EXCEPT ![x] = @ \cup {y}]
    /\ lastAdded' = y

StartForward ==
    /\ phase = "forward_start"
    /\ \/ /\ Cardinality(cpcs[node]) > 1
          /\ phase' = "recompute"
          /\ UNCHANGED <<cpcs, toBeChecked, lastAdded, remaining>>
       \/ /\ Cardinality(cpcs[node]) <= 1
          /\ maxmin[node].index # Stop
          /\ Add(node, maxmin[node].index)
          /\ toBeChecked' = [toBeChecked EXCEPT ![node] = LeftToCheck(node, {maxmin[node].index})]
          /\ phase' = "forward"
          /\ UNCHANGED remaining
       \/ /\ Cardinality(cpcs[node]) <= 1
          /\ maxmin[node].index = Stop
          /\ UNCHANGED <<cpcs, toBeChecked, lastAdded>>
          /\ StartBackward
    /\ UNCHANGED <<pdag, minAssoc, maxmin, node, searched>>

\* recompute_assoc: the loop over to_be_checked does not advance its iterator, so
\* that it tests the first candidate again and again, unless there is none.
RecomputeAssoc ==
    LET x == node
        first == CHOOSE y \in toBeChecked[x] : TRUE
        p == Pvalue(x, first, cpcs[x])
    IN  /\ phase = "recompute"
        /\ UNCHANGED cpcs
        /\ IF toBeChecked[x] = {}
           THEN maxmin' = [maxmin EXCEPT ![x] = None] /\ UNCHANGED minAssoc /\ StartBackward
           ELSE /\ minAssoc' = [minAssoc EXCEPT ![x][first] = p]
                /\ maxmin' = [maxmin EXCEPT
                       ![x] = IF p < Alpha THEN [assoc |-> p, index |-> first] ELSE None]
                /\ UNCHANGED <<phase, remaining>>
        /\ UNCHANGED <<pdag, toBeChecked, node, lastAdded, searched>>

\* Mutant: all subsets but the whole CPC.
NewSetsProper(cpc, last) == {S \in SUBSET cpc : last \in S /\ (S = cpc => S = {last})}

\* update_min_assoc tests the subsets of the CPC that the last addition makes new.
NewSets(cpc, last) == {S \in SUBSET cpc : last \in S}

\* A round of mmpc_forward_phase.  maxmin is updated after each test, so that a
\* candidate is picked by its first test of the round, given lastAdded alone.
Forward ==
    LET x == node
        open == toBeChecked[x]
        first == [y \in Nodes |->
            IF y \in open THEN Higher(minAssoc[x][y], Pvalue(x, y, {lastAdded})) ELSE 0]
        worst(y) == CHOOSE p \in {Pvalue(x, y, S) : S \in NewSets(cpcs[x], lastAdded)} :
                       \A S \in NewSets(cpcs[x], lastAdded) : Pvalue(x, y, S) <= p
        assoc == [y \in Nodes |->
            IF y \in open THEN Higher(minAssoc[x][y], worst(y)) ELSE minAssoc[x][y]]
    IN  /\ phase = "forward"
        /\ IF open = {}
           THEN UNCHANGED <<cpcs, toBeChecked, minAssoc, maxmin, lastAdded>> /\ StartBackward
           ELSE /\ minAssoc' = [minAssoc EXCEPT ![x] = assoc]
                /\ \E best \in Strongest(first, open, None) :
                      /\ maxmin' = [maxmin EXCEPT ![x] = best]
                      /\ IF best = None
                         THEN UNCHANGED <<cpcs, toBeChecked, lastAdded>> /\ StartBackward
                         ELSE /\ Add(x, best.index)
                              /\ toBeChecked' = [toBeChecked EXCEPT
                                     ![x] = {y \in LeftToCheck(x, {best.index}) : assoc[y] <= Alpha}]
                              /\ UNCHANGED <<phase, remaining>>
        /\ UNCHANGED <<pdag, node, searched>>

\* Mutant: only single members separate, and the empty set.
SeparatedBySingles(x, y) ==
    \E S \in SUBSET (cpcs[x] \ {y}) : Cardinality(S) <= 1 /\ Pvalue(x, y, S) > Alpha

SeparatedByOthers(x, y) == \E S \in SUBSET (cpcs[x] \ {y}) : Pvalue(x, y, S) > Alpha

\* Mutant: a whitelisted member is tested as well.
RemovableAny(x, y) == SeparatedByOthers(x, y)

Removable(x, y) == y \notin Whitelisted(x) /\ SeparatedByOthers(x, y)

\* mmpc_backward_phase visits the members in an unspecified order.
Backward(y) ==
    /\ phase = "backward"
    /\ y \in remaining
    /\ cpcs' = [cpcs EXCEPT ![node] = IF Removable(node, y) THEN @ \ {y} ELSE @]
    /\ remaining' = remaining \ {y}
    /\ UNCHANGED <<pdag, phase, toBeChecked, minAssoc, maxmin, node, lastAdded, searched>>

EndBackward ==
    /\ phase = "backward"
    /\ remaining = {}
    /\ NextNode("forward_start", "searched")
    /\ UNCHANGED <<pdag, cpcs, toBeChecked, minAssoc, maxmin, lastAdded, remaining,
                   searched>>

-------------------------------------------------------------------------------
(* What is made of the CPCs.                                               *)

\* The pairs that are in each other's CPC (remove_asymmetries).
SymmetricPairs == {e \in Edges : \A x, y \in e : x # y => y \in cpcs[x]}

\* MMPC: edges, but arcs from interface nodes, and the arcs that were whitelisted.
BuildSkeleton ==
    LET new == {e \in SymmetricPairs : e \notin Skeleton(pdag)}
    IN  /\ phase = "searched" /\ ~task.hybrid
        /\ pdag' = [arcs |-> pdag.arcs \cup {a \in Arcs : a[1] \in task.interface /\ Ends(a) \in new},
                    edges |-> {e \in new : e \cap task.interface = {}}]
        /\ phase' = "found"
        /\ UNCHANGED <<cpcState, searched>>

\* MMHC: create_hc_blacklist and create_conditional_hc_blacklist, then the caller's.
CreateBlacklist ==
    LET unjoined == {a \in Arcs : Ends(a) \subseteq task.nodes /\ Ends(a) \notin SymmetricPairs}
    IN  /\ phase = "searched" /\ task.hybrid
        /\ blacklist' = task.arcBlacklist \cup {a \in unjoined : a[2] \notin task.interface}
        /\ phase' = "done"
        /\ UNCHANGED <<problem, pdag, cpcState, evaluated, rulesState>>

-------------------------------------------------------------------------------
Init ==
    /\ task \in Tasks
    /\ restrictions = ValidateRestrictions(task)
    /\ pdag = [arcs |-> {}, edges |-> {}]
    /\ phase = "start"
    /\ cpcs = [x \in Nodes |-> {}]
    /\ toBeChecked = [x \in Nodes |-> {}]
    /\ minAssoc = [x \in Nodes |-> [y \in Nodes |-> 0]]
    /\ maxmin = [x \in Nodes |-> None]
    /\ node = 0
    /\ lastAdded = 0
    /\ remaining = {}
    /\ blacklist = {}
    /\ OrientationInit

FindCpcs ==
    \/ GenerateCpcs
    \/ Marginal
    \/ Univariate
    \/ StartForward
    \/ RecomputeAssoc
    \/ Forward
    \/ \E y \in Nodes : Backward(y)
    \/ EndBackward

NoSepsets == [e \in Edges |-> {}]

OrientSkeleton == Orient(NoSepsets) /\ UNCHANGED <<cpcState, blacklist>>

Stopped == {"rejected", "done"}

Returned == phase \in Stopped /\ UNCHANGED vars

Step == FindCpcs \/ BuildSkeleton \/ CreateBlacklist \/ OrientSkeleton

Next == Step \/ Returned

Spec == Init /\ [][Next]_vars /\ WF_vars(Step)

-------------------------------------------------------------------------------
(* Properties.                                                             *)

\* The variables keep their types, and no candidate is both accepted and open.
TypeOK ==
    /\ task \in Tasks
    /\ restrictions = ValidateRestrictions(task)
    /\ pdag \in Graphs
    /\ phase \in {"start", "marginal", "univariate", "forward_start", "recompute", "forward",
                  "backward", "searched"} \cup OrientationPhases \cup Stopped
    /\ cpcs \in [Nodes -> SUBSET Nodes]
    /\ toBeChecked \in [Nodes -> SUBSET Nodes]
    /\ \A x \in Nodes : x \notin cpcs[x] \cup toBeChecked[x] /\ cpcs[x] \cap toBeChecked[x] = {}
    /\ minAssoc \in [Nodes -> [Nodes -> Nat]]
    /\ maxmin \in [Nodes -> [assoc : 0 .. Alpha, index : Nodes \cup {Stop}]]
    /\ node \in Nat /\ lastAdded \in Nodes /\ remaining \subseteq cpcs[node]
    /\ blacklist \subseteq Arcs
    /\ evaluated \in [Nodes -> SUBSET Edges]
    /\ toCheck \subseteq Arcs /\ nextNode \in Nat /\ changed \in BOOLEAN

\* m is the weakest association of x and y given a subset of C.
Weakest(x, y, C, m) ==
    LET p == {Pvalue(x, y, S) : S \in SUBSET C}
    IN  m \in p /\ \A q \in p : q <= m

\* The recorded association of an open candidate, and of the member accepted last,
\* is the weakest over every subset of the other members: each round tests only the
\* sets that the last addition makes new, and skips none.
AssocExact ==
    phase = "forward" /\ Whitelisted(node) = {} =>
        \A y \in toBeChecked[node] \cup {lastAdded} :
            Weakest(node, y, cpcs[node] \ {lastAdded}, minAssoc[node][y])

\* With the answers of a faithful test, whatever the order in which candidates are
\* picked and removed, MMPC returns the graph of the equivalence class and MMHC
\* leaves exactly the adjacent pairs to the search.
ClassFound ==
    phase = "done" =>
        \A d \in task.dags :
            IF task.hybrid THEN {Ends(a) : a \in Arcs \ blacklist} = Skeleton(d)
                           ELSE pdag = ClassGraph(d)

\* The returned graph respects the four lists; the hill-climbing of MMHC is not
\* asked for a whitelisted arc it may not add (check_blacklist), and can join
\* every whitelisted pair.
RestrictionsKept ==
    phase = "done" =>
        IF task.hybrid
        THEN /\ restrictions.arcWhitelist \cap blacklist = {}
             /\ Joined(restrictions) \subseteq {Ends(a) : a \in Arcs \ blacklist}
        ELSE /\ restrictions.arcWhitelist \subseteq pdag.arcs
             /\ restrictions.edgeWhitelist \subseteq Skeleton(pdag)
             /\ restrictions.arcBlacklist \cap pdag.arcs = {}
             /\ restrictions.edgeBlacklist \cap Skeleton(pdag) = {}

\* "Estimates the skeleton ... returns: A PartiallyDirectedGraph" (MMPC.estimate).
Terminates == <>(phase \in Stopped)

\* MMPC ends if no node has two whitelisted neighbours.
TerminatesUnlessForced ==
    (\A x \in Nodes : Cardinality(Whitelisted(x)) <= 1) => Terminates

===============================================================================
