------------------------------ MODULE MmpcProofs ------------------------------
(***************************************************************************)
(* Theorems about MMPC and MMHC for every set of nodes, significance level *)
(* and task: the types, the associations the forward phase records, what   *)
(* the lists keep, and that a faithful test leads to the equivalence class.*)
(* IInv is inductive, and ClassInv is with it.                             *)
(***************************************************************************)
EXTENDS Mmpc, OrientationProofs

SearchPhases ==
    {"marginal", "univariate", "forward_start", "recompute", "forward", "backward", "searched"}

\* The loops stay in the nodes of the task.
LoopsInRange ==
    /\ node \in task.nodes
    /\ phase \in {"start", "marginal", "searched"} => node = 0
    /\ phase # "backward" => remaining = {}

\* Only pairs that may be joined are considered, and a whitelisted neighbour is a
\* member from the beginning to the end.
MembersAllowed ==
    /\ \A x, y \in Nodes :
          y \in cpcs[x] \cup toBeChecked[x] \/ y = maxmin[x].index => {x, y} \in AllowedPairs
    /\ phase \notin {"start", "rejected"} => \A x \in Nodes : Whitelisted(x) \subseteq cpcs[x]

Free(x) == Whitelisted(x) = {}

Single(C) == \A c, d \in C : c = d

\* What the phases before the forward phase leave for it.
Recorded(x, y) == Weakest(x, y, cpcs[x], minAssoc[x][y])

\* The turn of x or of y has come, with a test for both.
Tested(x, y) == x < node \/ (y < node /\ cpcs[y] = cpcs[x] /\ x \in toBeChecked[y])

PickRecorded(x) ==
    LET y == maxmin[x].index
    IN  y # Stop => y \in toBeChecked[x] /\ Recorded(x, y) /\ minAssoc[x][y] <= Alpha

UnivariateExact ==
    phase = "univariate" =>
        \A x \in Nodes : Free(x) =>
            /\ Single(cpcs[x]) /\ PickRecorded(x)
            /\ \A y \in toBeChecked[x] :
                  Recorded(x, y) \/ (~Tested(x, y) /\ Weakest(x, y, {}, minAssoc[x][y]))

\* The nodes whose forward phase has not begun.
Waiting ==
    {x \in Nodes : phase \in {"forward_start", "recompute", "forward", "backward"}
                     /\ (x > node \/ (x = node /\ phase = "forward_start"))}

WaitingExact ==
    \A x \in Waiting : Free(x) =>
        /\ Single(cpcs[x]) /\ PickRecorded(x)
        /\ \A y \in toBeChecked[x] : Recorded(x, y)

\* Before the tests nothing is recorded.
NothingRecorded ==
    /\ phase \in {"start", "marginal"} => maxmin = [x \in Nodes |-> None]
    /\ phase = "marginal" => cpcs = [x \in Nodes |-> Whitelisted(x)]

\* The member accepted last is one.
ForwardExact == AssocExact /\ (phase = "forward" => lastAdded \in cpcs[node])

\* The lists hold in the graph that MMPC directs, and in the blacklist of MMHC.
ListsKept ==
    /\ phase \notin {"start", "rejected"} => ~Contradiction(task)
    /\ phase = "start" => pdag = [arcs |-> {}, edges |-> {}]
    /\ phase \in SearchPhases => pdag = [arcs |-> restrictions.arcWhitelist, edges |-> {}]
    /\ task.hybrid => phase \notin OrientationPhases /\ RestrictionsKept
    /\ ~task.hybrid /\ phase \in {"found"} \cup Oriented =>
          OrientationInv /\ restrictions.edgeBlacklist \cap Skeleton(pdag) = {}

IInv ==
    /\ TypeOK
    /\ LoopsInRange
    /\ MembersAllowed
    /\ NothingRecorded
    /\ UnivariateExact
    /\ WaitingExact
    /\ ForwardExact
    /\ ListsKept
    /\ ChildApart

\* The facts about the task that every step uses.
LEMMA Basics ==
    ASSUME TypeOK
    PROVE  /\ Checked(task) /\ restrictions = ValidateRestrictions(task)
           /\ task.pvalue \in [Edges -> [SUBSET Nodes -> Nat]] /\ ~task.useSepsets
           /\ task.nodes \subseteq Nodes /\ task.interface \subseteq task.nodes
           /\ Alpha \in Nat /\ Nodes \subseteq Nat /\ IsFiniteSet(Nodes)
           /\ restrictions.arcBlacklist \in SUBSET Arcs
           /\ restrictions.arcWhitelist \in SUBSET Arcs
           /\ restrictions.edgeWhitelist \in SUBSET Edges
           /\ restrictions.edgeBlacklist \in SUBSET Edges
<1>1. Checked(task) /\ restrictions = ValidateRestrictions(task)
  BY TasksAssumption DEF TypeOK
<1>2. QED BY <1>1, DerivedLists, TasksAssumption, NodesAssumption DEF TypeOK, Checked

\* The nodes of the task are 0 .. n - 1.
LEMMA TaskNodes ==
    ASSUME TypeOK
    PROVE  /\ Cardinality(task.nodes) \in Nat \ {0}
           /\ task.nodes = 0 .. Cardinality(task.nodes) - 1
           /\ 0 \in task.nodes /\ 0 \in Nodes
<1>1. task.nodes # {} /\ task.nodes = 0 .. Cardinality(task.nodes) - 1
  BY TasksAssumption DEF TypeOK
<1>2. Cardinality(task.nodes) \in Nat
  BY Basics, FS_Subset, FS_CardinalityType
<1>3. 0 \in task.nodes /\ Cardinality(task.nodes) # 0
  BY <1>1, <1>2
<1>4. QED BY <1>1, <1>2, <1>3, Basics

\* What a pair that may be joined is.
LEMMA AllowedEnds ==
    ASSUME TypeOK
    PROVE  /\ AllowedPairs = Complete(task) \ restrictions.edgeBlacklist
           /\ AllowedPairs \subseteq Edges
           /\ \A x, y : {x, y} \in AllowedPairs =>
                 x \in task.nodes /\ y \in task.nodes /\ x # y
<1>1. AllowedPairs = Complete(task) \ restrictions.edgeBlacklist
  BY DEF AllowedPairs, Complete
<1>2. Complete(task) \subseteq Edges /\ \A e \in Complete(task) : e \subseteq task.nodes
  BY Basics, CompletePairs
<1>3. ASSUME NEW x, NEW y, {x, y} \in AllowedPairs
      PROVE  x \in task.nodes /\ y \in task.nodes /\ x # y
  <2>1. {x, y} \in Edges /\ {x, y} \subseteq task.nodes
    BY <1>1, <1>2, <1>3
  <2>2. {x, y} # {x}
    BY <2>1, EdgeEnds
  <2>3. QED BY <2>1, <2>2
<1>4. QED BY <1>1, <1>2, <1>3

\* Whitelisted pairs may be joined, if the lists are accepted.
LEMMA WhitelistedAllowed ==
    ASSUME TypeOK, ~Contradiction(task), NEW x, NEW y, {x, y} \in Joined(restrictions)
    PROVE  {x, y} \in AllowedPairs
<1>1. Checked(task) /\ restrictions = ValidateRestrictions(task)
  BY Basics
<1>2. \/ {x, y} \in restrictions.edgeWhitelist
      \/ \E a \in restrictions.arcWhitelist : {x, y} = Ends(a)
  BY DEF Joined
<1>3. {x, y} \in Complete(task)
  BY <1>1, <1>2, DerivedLists
<1>4. {x, y} \notin restrictions.edgeBlacklist
  BY <1>1, <1>2, ListsAgree
<1>5. QED BY <1>3, <1>4, AllowedEnds

-------------------------------------------------------------------------------
(* Associations.                                                           *)

LEMMA PvalueNat ==
    ASSUME TypeOK, NEW x, NEW y, {x, y} \in AllowedPairs, NEW S \in SUBSET Nodes
    PROVE  Pvalue(x, y, S) \in Nat
BY Basics, AllowedEnds DEF Pvalue

\* The weakest association given the subsets of C, and the weakest given the sets
\* of N, is the weakest given the subsets of D if they are all of them.
LEMMA WeakestGrows ==
    ASSUME TypeOK, NEW x, NEW y, {x, y} \in AllowedPairs,
           NEW C, NEW D \in SUBSET Nodes, NEW N, N \cup SUBSET C = SUBSET D,
           NEW m \in Nat, Weakest(x, y, C, m),
           NEW W \in N, \A S \in N : Pvalue(x, y, S) <= Pvalue(x, y, W)
    PROVE  Weakest(x, y, D, Higher(m, Pvalue(x, y, W)))
<1> DEFINE w == Pvalue(x, y, W)
           h == Higher(m, w)
           p == {Pvalue(x, y, S) : S \in SUBSET D}
<1>1. \A S \in SUBSET D : Pvalue(x, y, S) \in Nat
  BY PvalueNat
<1>2. w \in Nat /\ w \in p
  BY <1>1
<1>3. m \in {Pvalue(x, y, S) : S \in SUBSET C} /\ \A S \in SUBSET C : Pvalue(x, y, S) <= m
  BY DEF Weakest
<1>4. m \in p
  BY <1>3
<1>5. h \in {m, w} /\ m <= h /\ w <= h
  BY <1>2 DEF Higher
<1>6. h \in p
  BY <1>2, <1>4, <1>5
<1>7. ASSUME NEW S \in SUBSET D
      PROVE  Pvalue(x, y, S) <= h
  <2>1. Pvalue(x, y, S) <= m \/ Pvalue(x, y, S) <= w
    BY <1>3
  <2>2. Pvalue(x, y, S) \in Nat /\ h \in Nat
    BY <1>1, <1>2, <1>5
  <2> HIDE DEF h, w
  <2>3. QED BY <1>2, <1>5, <2>1, <2>2
<1>8. QED BY <1>6, <1>7 DEF Weakest

\* The weakest is no number but one.
LEMMA WeakestBound ==
    ASSUME NEW x, NEW y, NEW C, NEW m \in Nat, Weakest(x, y, C, m), Pvalue(x, y, C) \in Nat
    PROVE  Higher(m, Pvalue(x, y, C)) = m
<1>1. Pvalue(x, y, C) <= m
  BY DEF Weakest
<1>2. QED BY <1>1 DEF Higher

\* Of finitely many values one is the greatest.
LEMMA Greatest ==
    ASSUME NEW D, IsFiniteSet(D), D # {}, NEW f \in [D -> Nat]
    PROVE  \E m \in D : \A n \in D : f[n] <= f[m]
<1> DEFINE Above(m) == {n \in D : f[n] > f[m]}
           Sizes == {Cardinality(Above(m)) : m \in D}
<1>1. \A m \in D : IsFiniteSet(Above(m)) /\ Cardinality(Above(m)) \in Nat
  BY FS_Subset, FS_CardinalityType
<1>2. PICK m \in D : \A n \in D : Cardinality(Above(m)) <= Cardinality(Above(n))
  <2>1. Sizes \in SUBSET Nat /\ Sizes # {}
    BY <1>1
  <2>2. PICK s \in Sizes : \A k \in Sizes : s <= k
    <3> HIDE DEF Sizes
    <3>1. QED BY <2>1, LeastNatural
  <2>3. QED BY <2>2
<1>3. ASSUME NEW k \in D, f[k] > f[m]
      PROVE  FALSE
  <2>1. Above(k) \subseteq Above(m) /\ Above(k) # Above(m)
    <3>1. \A n \in D : f[n] > f[k] => f[n] > f[m]
      BY <1>3
    <3>2. k \in Above(m) /\ k \notin Above(k)
      BY <1>3
    <3>3. QED BY <3>1, <3>2
  <2>2. Cardinality(Above(k)) < Cardinality(Above(m))
    <3> HIDE DEF Above
    <3>1. QED BY <1>1, <2>1, FS_Subset
  <2>3. QED BY <1>1, <1>2, <2>2
<1>4. QED BY <1>3

-------------------------------------------------------------------------------
(* What the steps of the search have in common.                            *)

LEMMA InitIInv == Init => IInv
<1> SUFFICES ASSUME Init PROVE IInv
  OBVIOUS
<1>1. /\ task \in Tasks /\ restrictions = ValidateRestrictions(task)
      /\ pdag = [arcs |-> {}, edges |-> {}] /\ phase = "start"
      /\ cpcs = [x \in Nodes |-> {}] /\ toBeChecked = [x \in Nodes |-> {}]
      /\ minAssoc = [x \in Nodes |-> [y \in Nodes |-> 0]]
      /\ maxmin = [x \in Nodes |-> None] /\ node = 0 /\ lastAdded = 0
      /\ remaining = {} /\ blacklist = {} /\ evaluated = [x \in Nodes |-> {}]
      /\ toCheck = {} /\ nextNode = 0 /\ changed = FALSE
  BY DEF Init, OrientationInit
<1>2. 0 \in task.nodes /\ 0 \in Nodes
  <2>1. /\ task.nodes # {} /\ task.nodes = 0 .. Cardinality(task.nodes) - 1
        /\ task.nodes \subseteq Nodes
    BY <1>1, TasksAssumption DEF Checked
  <2>2. Cardinality(task.nodes) \in Nat
    BY <2>1, NodesAssumption, FS_Subset, FS_CardinalityType
  <2>3. QED BY <2>1, <2>2
<1>3. None \in [assoc : 0 .. Alpha, index : Nodes \cup {Stop}] /\ None.index = Stop /\ Stop \notin Nodes
  BY TasksAssumption, NodesAssumption DEF None, Stop
<1>4. TypeOK
  <2>1. pdag \in Graphs
    BY <1>1 DEF Graphs
  <2>2. minAssoc \in [Nodes -> [Nodes -> Nat]] /\ maxmin \in [Nodes -> [assoc : 0 .. Alpha, index : Nodes \cup {Stop}]]
    BY <1>1, <1>3
  <2>3. QED BY <1>1, <1>2, <2>1, <2>2 DEF TypeOK
<1>5. LoopsInRange /\ NothingRecorded /\ UnivariateExact /\ ForwardExact
  BY <1>1, <1>2 DEF LoopsInRange, NothingRecorded, UnivariateExact, ForwardExact, AssocExact
<1>6. MembersAllowed
  BY <1>1, <1>3 DEF MembersAllowed
<1>7. WaitingExact /\ ChildApart
  BY <1>1 DEF WaitingExact, Waiting, ChildApart
<1>8. ListsKept
  BY <1>1 DEF ListsKept, SearchPhases, OrientationPhases, RestrictionsKept, Oriented
<1>9. QED BY <1>4, <1>5, <1>6, <1>7, <1>8 DEF IInv

\* The variables of the search, as a step may leave them.
SearchTyped ==
    /\ cpcs \in [Nodes -> SUBSET Nodes] /\ toBeChecked \in [Nodes -> SUBSET Nodes]
    /\ \A x \in Nodes : cpcs[x] \cap toBeChecked[x] = {}
    /\ minAssoc \in [Nodes -> [Nodes -> Nat]]
    /\ maxmin \in [Nodes -> [assoc : 0 .. Alpha, index : Nodes \cup {Stop}]]
    /\ lastAdded \in Nodes /\ remaining \subseteq cpcs[node]

\* A step of the search tells nothing to the orientation.
Frame == UNCHANGED <<task, restrictions, pdag, blacklist, evaluated, toCheck, nextNode, changed>>

LEMMA FrameKeeps ==
    ASSUME Frame
    PROVE  /\ AllowedPairs' = AllowedPairs
           /\ \A x : Whitelisted(x)' = Whitelisted(x) /\ (Free(x)' <=> Free(x))
           /\ \A x, y, C, m : Weakest(x, y, C, m)' <=> Weakest(x, y, C, m)
           /\ Contradiction(task)' <=> Contradiction(task)
<1>1. task' = task /\ restrictions' = restrictions
  BY DEF Frame
<1>2. AllowedPairs' = AllowedPairs
  BY <1>1 DEF AllowedPairs
<1>3. \A x : Whitelisted(x)' = Whitelisted(x) /\ (Free(x)' <=> Free(x))
  BY <1>1 DEF Whitelisted, Free
<1>4. \A x, y, C, m : Weakest(x, y, C, m)' <=> Weakest(x, y, C, m)
  BY <1>1 DEF Weakest, Pvalue
<1>5. QED BY <1>1, <1>2, <1>3, <1>4

LEMMA SearchStep ==
    ASSUME IInv, phase \in SearchPhases, phase' \in SearchPhases \ {"marginal"}, Frame,
           SearchTyped', LoopsInRange', MembersAllowed',
           UnivariateExact', WaitingExact', ForwardExact'
    PROVE  IInv'
<1>1. /\ task' = task /\ restrictions' = restrictions /\ pdag' = pdag /\ blacklist' = blacklist
      /\ evaluated' = evaluated /\ toCheck' = toCheck /\ nextNode' = nextNode /\ changed' = changed
  BY DEF Frame
<1>2. TypeOK
  BY DEF IInv
<1>3. TypeOK'
  <2>1. \A x \in Nodes : x \notin cpcs'[x] \cup toBeChecked'[x]
    <3>1. \A x, y : {x, y} \in AllowedPairs' => x # y
      BY <1>2, AllowedEnds, FrameKeeps
    <3>2. QED BY <3>1 DEF MembersAllowed, SearchTyped
  <2>2. node' \in Nat
    BY <1>1, <1>2, Basics DEF LoopsInRange
  <2>3. phase' \in {"start", "marginal", "univariate", "forward_start", "recompute", "forward",
                  "backward", "searched"} \cup OrientationPhases \cup Stopped
    BY DEF SearchPhases
  <2>4. QED BY <1>1, <1>2, <2>1, <2>2, <2>3 DEF TypeOK, SearchTyped
<1>4. NothingRecorded'
  BY DEF NothingRecorded, SearchPhases
<1>5. ChildApart'
  BY <1>1 DEF IInv, ChildApart
<1>6. ListsKept'
  <2>1. /\ ~Contradiction(task)' /\ pdag' = [arcs |-> restrictions.arcWhitelist, edges |-> {}]
    BY <1>1, FrameKeeps DEF IInv, ListsKept, SearchPhases
  <2>2. phase' \notin {"start", "found", "done"} \cup Oriented \cup OrientationPhases
    BY DEF SearchPhases, Oriented, OrientationPhases
  <2>3. QED BY <1>1, <2>1, <2>2 DEF ListsKept, RestrictionsKept
<1>7. QED BY <1>3, <1>4, <1>5, <1>6 DEF IInv

-------------------------------------------------------------------------------
(* The steps over all nodes.                                               *)

LEMMA GenerateStep ==
    ASSUME IInv, GenerateCpcs
    PROVE  IInv'
<1>1. /\ phase = "start"
      /\ UNCHANGED <<task, restrictions, blacklist, evaluated, toCheck, nextNode, changed,
                     minAssoc, maxmin, node, lastAdded, remaining>>
  BY DEF GenerateCpcs, searched, problem, rulesState
<1>2. TypeOK /\ node = 0 /\ remaining = {} /\ maxmin = [x \in Nodes |-> None]
  BY <1>1 DEF IInv, LoopsInRange, NothingRecorded
<1>3. None.index = Stop /\ Stop \notin Nodes
  BY NodesAssumption DEF None, Stop
<1>4. /\ \A x : Whitelisted(x)' = Whitelisted(x)
      /\ AllowedPairs' = AllowedPairs /\ (Contradiction(task)' <=> Contradiction(task))
  BY <1>1 DEF Whitelisted, AllowedPairs
<1>5. node \in task.nodes
  BY DEF IInv, LoopsInRange
<1>6. CASE Contradiction(task)
  <2>1. phase' = "rejected" /\ UNCHANGED <<pdag, cpcs, toBeChecked>>
    BY <1>6 DEF GenerateCpcs
  <2>2. TypeOK'
    BY <1>1, <1>2, <2>1 DEF TypeOK, Stopped
  <2>3. LoopsInRange' /\ NothingRecorded' /\ UnivariateExact' /\ ForwardExact'
    BY <1>1, <1>2, <1>5, <2>1 DEF LoopsInRange, NothingRecorded, UnivariateExact, ForwardExact, AssocExact
  <2>4. MembersAllowed'
    BY <1>1, <1>4, <2>1 DEF IInv, MembersAllowed
  <2>5. WaitingExact'
    BY <2>1 DEF WaitingExact, Waiting
  <2>6. ListsKept' /\ ChildApart'
    BY <1>1, <2>1 DEF IInv, ListsKept, ChildApart, SearchPhases, OrientationPhases, Oriented,
                      RestrictionsKept
  <2>7. QED BY <2>2, <2>3, <2>4, <2>5, <2>6 DEF IInv
<1>7. CASE ~Contradiction(task)
  <2>1. /\ phase' = "marginal"
        /\ pdag' = [pdag EXCEPT !.arcs = restrictions.arcWhitelist]
        /\ cpcs' = [x \in Nodes |-> Whitelisted(x)]
        /\ toBeChecked' = [x \in Nodes |-> {y \in Nodes : {x, y} \in AllowedPairs} \ Whitelisted(x)]
    BY <1>7 DEF GenerateCpcs
  <2>2. \A x \in Nodes : \A y \in Whitelisted(x) : {x, y} \in AllowedPairs /\ y \in Nodes
    BY <1>2, <1>7, WhitelistedAllowed DEF Whitelisted
  <2>3. \A x, y : {x, y} \in AllowedPairs => x # y
    BY <1>2, AllowedEnds
  <2>4. pdag' = [arcs |-> restrictions.arcWhitelist, edges |-> {}] /\ pdag' \in Graphs
    <3>1. pdag = [arcs |-> {}, edges |-> {}]
      BY <1>1 DEF IInv, ListsKept
    <3>2. pdag' = [arcs |-> restrictions.arcWhitelist, edges |-> {}]
      BY <2>1, <3>1
    <3>3. restrictions.arcWhitelist \in SUBSET Arcs
      BY <1>2, Basics
    <3>4. QED BY <3>2, <3>3 DEF Graphs
  <2>5. TypeOK'
    <3>1. cpcs' \in [Nodes -> SUBSET Nodes] /\ toBeChecked' \in [Nodes -> SUBSET Nodes]
      BY <2>1 DEF Whitelisted
    <3>2. \A x \in Nodes : x \notin cpcs'[x] \cup toBeChecked'[x] /\ cpcs'[x] \cap toBeChecked'[x] = {}
      BY <2>1, <2>2, <2>3
    <3>3. QED BY <1>1, <1>2, <2>1, <2>4, <3>1, <3>2 DEF TypeOK
  <2>6. LoopsInRange' /\ UnivariateExact' /\ ForwardExact'
    BY <1>1, <1>2, <1>5, <2>1 DEF LoopsInRange, UnivariateExact, ForwardExact, AssocExact
  <2>7. NothingRecorded'
    BY <1>1, <1>2, <1>4, <2>1 DEF NothingRecorded
  <2>8. MembersAllowed'
    <3>1. \A y \in Nodes : y # Stop
      BY <1>3
    <3>2. QED BY <1>1, <1>2, <1>3, <1>4, <2>1, <2>2, <3>1 DEF MembersAllowed
  <2>9. WaitingExact'
    BY <2>1 DEF WaitingExact, Waiting
  <2>10. ListsKept' /\ ChildApart'
    BY <1>1, <1>7, <1>4, <2>1, <2>4 DEF IInv, ListsKept, ChildApart, SearchPhases, OrientationPhases,
                      Oriented, RestrictionsKept
  <2>11. QED BY <2>5, <2>6, <2>7, <2>8, <2>9, <2>10 DEF IInv
<1>8. QED BY <1>6, <1>7

LEMMA MarginalStep ==
    ASSUME IInv, Marginal
    PROVE  IInv'
<1> DEFINE open == {e \in AllowedPairs : \E x \in e : cpcs[x] = {}}
           dependent(x) == {y \in Nodes : {x, y} \in open /\ Pvalue(x, y, {}) < Alpha}
           rejected(x) == {y \in Nodes : {x, y} \in open /\ Pvalue(x, y, {}) >= Alpha}
           first(x) == IF cpcs[x] = {} THEN FirstPick(x, dependent(x)) ELSE {}
<1>1. /\ phase = "marginal"
      /\ minAssoc' = [x \in Nodes |-> [y \in Nodes |->
             IF cpcs[x] = {} /\ y \in dependent(x) THEN Pvalue(x, y, {}) ELSE 0]]
      /\ cpcs' = [x \in Nodes |-> cpcs[x] \cup first(x)]
      /\ toBeChecked' = [x \in Nodes |-> (toBeChecked[x] \ first(x)) \ rejected(x)]
      /\ phase' \in {"searched", "univariate"}
      /\ UNCHANGED <<task, restrictions, pdag, blacklist, evaluated, toCheck, nextNode, changed,
                     maxmin, node, lastAdded, remaining>>
  BY DEF Marginal, searched, problem, rulesState, LeftToCheck
<1>2. /\ TypeOK /\ node = 0 /\ node \in task.nodes /\ remaining = {}
      /\ cpcs = [x \in Nodes |-> Whitelisted(x)] /\ maxmin = [x \in Nodes |-> None]
      /\ \A x, y \in Nodes : y \in cpcs[x] \cup toBeChecked[x] => {x, y} \in AllowedPairs
      /\ \A x \in Nodes : Whitelisted(x) \subseteq cpcs[x]
  BY <1>1 DEF IInv, LoopsInRange, NothingRecorded, MembersAllowed
<1>3. None.index = Stop /\ \A y \in Nodes : y # Stop
  BY NodesAssumption DEF None, Stop
<1>4. Frame
  BY <1>1 DEF Frame
<1>5. \A x, y \in Nodes : {x, y} \in AllowedPairs => Pvalue(x, y, {}) \in Nat
  BY <1>2, PvalueNat
<1>6. \A x \in Nodes : first(x) \subseteq dependent(x) /\ dependent(x) \subseteq Nodes
  BY DEF FirstPick
<1>7. \A x, y \in Nodes : y \in dependent(x) => {x, y} \in AllowedPairs
  OBVIOUS
<1>8. ASSUME NEW x \in Nodes, cpcs[x] = {}
      PROVE  toBeChecked'[x] \subseteq dependent(x)
  <2>1. ASSUME NEW y \in toBeChecked'[x]
        PROVE  y \in dependent(x)
    <3>1. y \in Nodes /\ y \in toBeChecked[x] /\ y \notin rejected(x)
      BY <1>1, <1>2 DEF TypeOK
    <3>2. {x, y} \in open
      BY <1>2, <1>8, <3>1
    <3>3. Pvalue(x, y, {}) \in Nat /\ Alpha \in Nat
      BY <1>2, <1>5, <3>1, Basics
    <3>4. QED BY <3>1, <3>2, <3>3
  <2>2. QED BY <2>1
<1>9. ASSUME NEW x \in Nodes
      PROVE  Single(first(x))
  <2>1. ASSUME NEW c \in first(x), NEW d \in first(x)
        PROVE  c = d
    <3>1. /\ c \in dependent(x) /\ d \in dependent(x)
          /\ Pvalue(x, c, {}) < Pvalue(x, d, {}) \/ (Pvalue(x, c, {}) = Pvalue(x, d, {}) /\ c <= d)
          /\ Pvalue(x, d, {}) < Pvalue(x, c, {}) \/ (Pvalue(x, d, {}) = Pvalue(x, c, {}) /\ d <= c)
      BY <2>1 DEF FirstPick
    <3>2. Pvalue(x, c, {}) \in Nat /\ Pvalue(x, d, {}) \in Nat /\ c \in Nat /\ d \in Nat
      BY <1>5, <1>7, <3>1, NodesAssumption
    <3>3. QED BY <3>1, <3>2
  <2>2. QED BY <2>1 DEF Single
<1> HIDE DEF first, open
<1>10. SearchTyped'
  <2>1. cpcs' \in [Nodes -> SUBSET Nodes] /\ toBeChecked' \in [Nodes -> SUBSET Nodes]
    BY <1>1, <1>2, <1>6 DEF TypeOK
  <2>2. \A x \in Nodes : cpcs'[x] \cap toBeChecked'[x] = {}
    BY <1>1, <1>2 DEF TypeOK
  <2>3. minAssoc' \in [Nodes -> [Nodes -> Nat]]
    BY <1>1, <1>5, <1>7
  <2>4. QED BY <1>1, <1>2, <2>1, <2>2, <2>3 DEF TypeOK, SearchTyped
<1>11. LoopsInRange'
  BY <1>1, <1>2 DEF LoopsInRange
<1>12. MembersAllowed'
  <2>1. \A x, y \in Nodes : y \in cpcs'[x] \cup toBeChecked'[x] => {x, y} \in AllowedPairs
    BY <1>1, <1>2, <1>6, <1>7
  <2>2. \A x \in Nodes : Whitelisted(x) \subseteq cpcs'[x]
    BY <1>1, <1>2
  <2>3. \A x, y \in Nodes : y # maxmin'[x].index
    BY <1>1, <1>2, <1>3
  <2>4. QED BY <1>4, <2>1, <2>2, <2>3, FrameKeeps DEF MembersAllowed
<1>13. UnivariateExact'
  <2>1. ASSUME NEW x \in Nodes, Free(x)
        PROVE  /\ Single(cpcs'[x]) /\ maxmin'[x].index = Stop
               /\ \A y \in toBeChecked'[x] : ~Tested(x, y)' /\ Weakest(x, y, {}, minAssoc'[x][y])
    <3>1. cpcs[x] = {} /\ cpcs'[x] = first(x)
      BY <1>1, <1>2, <2>1 DEF Free
    <3>2. ASSUME NEW y \in toBeChecked'[x]
          PROVE  ~Tested(x, y)' /\ Weakest(x, y, {}, minAssoc'[x][y])
      <4>1. y \in dependent(x) /\ y \in Nodes
        BY <1>6, <1>8, <3>1
      <4>2. minAssoc'[x][y] = Pvalue(x, y, {})
        BY <1>1, <3>1, <4>1
      <4>3. Pvalue(x, y, {}) \in Nat
        BY <1>5, <1>7, <4>1
      <4>4. Weakest(x, y, {}, Pvalue(x, y, {}))
        BY <4>3 DEF Weakest
      <4>5. x \in Nat /\ y \in Nat /\ node' = 0
        BY <1>1, <1>2, <4>1, NodesAssumption
      <4>6. QED BY <4>2, <4>4, <4>5 DEF Tested
    <3>3. QED BY <1>1, <1>2, <1>3, <1>9, <3>1, <3>2
  <2>2. QED BY <1>4, <2>1, FrameKeeps DEF UnivariateExact, PickRecorded
<1>14. WaitingExact' /\ ForwardExact'
  BY <1>1 DEF WaitingExact, Waiting, ForwardExact, AssocExact
<1>15. phase \in SearchPhases /\ phase' \in SearchPhases \ {"marginal"}
  BY <1>1 DEF SearchPhases
<1>16. QED BY <1>4, <1>10, <1>11, <1>12, <1>13, <1>14, <1>15, SearchStep

\* What NextNode makes of a node of the task.
LEMMA TurnPasses ==
    ASSUME TypeOK, node \in task.nodes, NEW during, NEW after, NextNode(during, after)
    PROVE  /\ node' \in task.nodes /\ node' \in Nat
           /\ \/ node' = node + 1 /\ phase' = during
              \/ node' = 0 /\ phase' = after /\ \A x \in task.nodes : x <= node
<1>1. /\ Cardinality(task.nodes) \in Nat \ {0} /\ 0 \in task.nodes
      /\ task.nodes = 0 .. Cardinality(task.nodes) - 1
  BY TaskNodes
<1>2. node \in Nat
  BY <1>1
<1>3. CASE node + 1 < Cardinality(task.nodes)
  <2>1. node' = node + 1 /\ phase' = during
    BY <1>3 DEF NextNode
  <2>2. node + 1 \in 0 .. Cardinality(task.nodes) - 1
    BY <1>1, <1>2, <1>3
  <2>3. QED BY <1>1, <1>2, <2>1, <2>2
<1>4. CASE ~(node + 1 < Cardinality(task.nodes))
  <2>1. node' = 0 /\ phase' = after
    BY <1>4 DEF NextNode
  <2>2. \A x \in 0 .. Cardinality(task.nodes) - 1 : x <= node
    BY <1>1, <1>2, <1>4
  <2>3. QED BY <1>1, <2>1, <2>2
<1>5. QED BY <1>3, <1>4

\* The test given the one member c of a CPC makes the recorded association exact;
\* if it was exact, nothing changes.
LEMMA TestGivenOne ==
    ASSUME TypeOK, NEW x \in Nodes, NEW y \in Nodes, {x, y} \in AllowedPairs,
           NEW c \in Nodes, NEW m \in Nat,
           Weakest(x, y, {}, m) \/ Weakest(x, y, {c}, m)
    PROVE  LET h == Higher(m, Pvalue(x, y, {c}))
           IN  /\ h \in Nat /\ Weakest(x, y, {c}, h)
               /\ Weakest(x, y, {c}, m) => h = m
<1>1. Pvalue(x, y, {c}) \in Nat
  BY PvalueNat
<1>2. Higher(m, Pvalue(x, y, {c})) \in Nat
  BY <1>1 DEF Higher
<1>3. Weakest(x, y, {c}, m) => Higher(m, Pvalue(x, y, {c})) = m
  BY <1>1, WeakestBound
<1>4. CASE Weakest(x, y, {c}, m)
  BY <1>2, <1>3, <1>4
<1>5. CASE Weakest(x, y, {}, m)
  <2> DEFINE D == {c}
             N == {D}
  <2>1. N \cup SUBSET {} = SUBSET D /\ D \in SUBSET Nodes /\ D \in N
    OBVIOUS
  <2>2. \A S \in N : Pvalue(x, y, S) <= Pvalue(x, y, D)
    BY <1>1
  <2> HIDE DEF N, D
  <2>3. Weakest(x, y, D, Higher(m, Pvalue(x, y, D)))
    BY <1>5, <2>1, <2>2, WeakestGrows
  <2>4. QED BY <1>2, <1>3, <2>3 DEF D
<1>6. QED BY <1>4, <1>5

\* The turn of the node after a univariate round.
TurnOver(x, y) == x <= node \/ (y <= node /\ cpcs[y] = cpcs[x] /\ x \in toBeChecked'[y])

LEMMA UnivariateStep ==
    ASSUME IInv, Univariate
    PROVE  IInv'
<1> DEFINE x == node
           single == Cardinality(cpcs[x]) = 1
           repeated(y) == cpcs[y] = cpcs[x] /\ x \in toBeChecked[y]
           tested == {y \in toBeChecked[x] : single /\ (repeated(y) => x < y)}
           p(y) == Pvalue(x, y, cpcs[x])
           assoc == [y \in Nodes |-> IF y \in tested THEN Higher(minAssoc[x][y], p(y)) ELSE minAssoc[x][y]]
           both == {y \in tested : repeated(y)}
           back(y) == Higher(minAssoc[y][x], p(y))
<1>1. PICK best \in Strongest(assoc, tested, maxmin[x]) :
         /\ minAssoc' = [y \in Nodes |->
                IF y = x THEN assoc
                ELSE IF y \in both THEN [minAssoc[y] EXCEPT ![x] = back(y)] ELSE minAssoc[y]]
         /\ toBeChecked' = [y \in Nodes |->
                IF y = x THEN toBeChecked[x] \ {z \in tested : assoc[z] > Alpha}
                ELSE IF y \in both /\ back(y) > Alpha THEN toBeChecked[y] \ {x} ELSE toBeChecked[y]]
         /\ maxmin' = [y \in Nodes |->
                IF y = x THEN best
                ELSE IF y \in both /\ back(y) < maxmin[y].assoc
                     THEN [assoc |-> back(y), index |-> x] ELSE maxmin[y]]
  BY DEF Univariate
<1>2. /\ phase = "univariate" /\ NextNode("univariate", "forward_start")
      /\ cpcs' = cpcs /\ lastAdded' = lastAdded /\ remaining' = remaining /\ Frame
  BY DEF Univariate, searched, problem, rulesState, Frame
<1>3. /\ TypeOK /\ node \in task.nodes /\ remaining = {}
      /\ \A u, y \in Nodes : y \in cpcs[u] \cup toBeChecked[u] \/ y = maxmin[u].index => {u, y} \in AllowedPairs
      /\ \A u \in Nodes : Whitelisted(u) \subseteq cpcs[u]
  BY <1>2 DEF IInv, LoopsInRange, MembersAllowed
<1>4. /\ x \in Nodes /\ x \in Nat /\ Nodes \subseteq Nat /\ Alpha \in Nat /\ task.nodes \subseteq Nodes
      /\ Stop \notin Nodes
  BY <1>3, Basics DEF Stop
<1>5. /\ node' \in task.nodes /\ node' \in Nat
      /\ \/ node' = node + 1 /\ phase' = "univariate"
         \/ node' = 0 /\ phase' = "forward_start" /\ \A u \in task.nodes : u <= node
  BY <1>2, <1>3, TurnPasses
<1>6. /\ cpcs \in [Nodes -> SUBSET Nodes] /\ toBeChecked \in [Nodes -> SUBSET Nodes]
      /\ minAssoc \in [Nodes -> [Nodes -> Nat]]
      /\ maxmin \in [Nodes -> [assoc : 0 .. Alpha, index : Nodes \cup {Stop}]]
      /\ \A u \in Nodes : u \notin cpcs[u] \cup toBeChecked[u] /\ cpcs[u] \cap toBeChecked[u] = {}
  BY <1>3 DEF TypeOK
<1>7. \A y \in toBeChecked[x] : {x, y} \in AllowedPairs /\ y \in Nodes /\ y # x
  BY <1>3, <1>4, <1>6
<1>8. \A y \in toBeChecked[x] : p(y) \in Nat
  <2>1. cpcs[x] \in SUBSET Nodes
    BY <1>4, <1>6
  <2>2. QED BY <1>3, <1>7, <2>1, PvalueNat
<1>9. \A y \in toBeChecked[x] : /\ Higher(minAssoc[x][y], p(y)) \in Nat
                                /\ back(y) \in Nat
  <2>1. \A y \in toBeChecked[x] : minAssoc[x][y] \in Nat /\ minAssoc[y][x] \in Nat
    BY <1>4, <1>6, <1>7
  <2>2. QED BY <1>8, <2>1 DEF Higher
<1>10. tested \subseteq toBeChecked[x] /\ both \subseteq tested
  OBVIOUS
<1>11. /\ \A y \in tested : assoc[y] = Higher(minAssoc[x][y], p(y))
       /\ \A y \in Nodes : y \notin tested => assoc[y] = minAssoc[x][y]
       /\ assoc \in [Nodes -> Nat]
  BY <1>4, <1>6, <1>7, <1>9, <1>10
<1>12. single => \E c \in Nodes : cpcs[x] = {c}
  <2>1. IsFiniteSet(cpcs[x]) /\ cpcs[x] \subseteq Nodes
    BY <1>3, <1>4, <1>6, Basics, FS_Subset
  <2>2. QED BY <2>1, FS_Singleton
<1>13. ~single /\ Single(cpcs[x]) => cpcs[x] = {}
  <2>1. SUFFICES ASSUME Single(cpcs[x]), NEW c \in cpcs[x] PROVE single
    OBVIOUS
  <2>2. cpcs[x] = {c}
    BY <2>1 DEF Single
  <2>3. QED BY <2>2, FS_Singleton
<1>14. \A y : y \in both <=> y \in toBeChecked[x] /\ single /\ x < y /\ repeated(y)
  OBVIOUS
<1>15. \A y : y \in tested <=> y \in toBeChecked[x] /\ single /\ (repeated(y) => x < y)
  OBVIOUS
<1> HIDE DEF x, single, tested, p, assoc, both, back
<1>16. best = maxmin[x] \/ \E z \in tested : assoc[z] < maxmin[x].assoc /\ best = [assoc |-> assoc[z], index |-> z]
  BY <1>1 DEF Strongest
<1>17. \A u \in Nodes : toBeChecked'[u] \subseteq toBeChecked[u] /\ toBeChecked[u] \subseteq Nodes
  BY <1>1, <1>6
<1>18. /\ minAssoc'[x] = assoc /\ maxmin'[x] = best
       /\ \A z \in toBeChecked[x] : z \in toBeChecked'[x] \/ (z \in tested /\ assoc[z] > Alpha)
       /\ \A u \in Nodes : u # x /\ u \notin both =>
             minAssoc'[u] = minAssoc[u] /\ toBeChecked'[u] = toBeChecked[u] /\ maxmin'[u] = maxmin[u]
  BY <1>1, <1>4, <1>7, <1>10
<1>19. x \notin tested /\ x \notin both /\ both \subseteq Nodes
  BY <1>4, <1>6, <1>7, <1>10
<1>20. ASSUME NEW u \in both
       PROVE  /\ minAssoc'[u][x] = back(u)
              /\ \A y \in Nodes : y # x => minAssoc'[u][y] = minAssoc[u][y]
              /\ \A z \in toBeChecked[u] : z \in toBeChecked'[u] \/ (z = x /\ back(u) > Alpha)
              /\ \/ /\ back(u) < maxmin[u].assoc
                    /\ maxmin'[u] = [assoc |-> back(u), index |-> x] /\ maxmin'[u].index = x
                 \/ maxmin'[u] = maxmin[u]
  <2>1. u \in Nodes /\ u # x /\ minAssoc[u] \in [Nodes -> Nat]
    BY <1>6, <1>19
  <2>2. minAssoc'[u] = [minAssoc[u] EXCEPT ![x] = back(u)]
    BY <1>1, <2>1
  <2>3. minAssoc'[u][x] = back(u) /\ \A y \in Nodes : y # x => minAssoc'[u][y] = minAssoc[u][y]
    BY <1>4, <2>1, <2>2
  <2>4. toBeChecked'[u] = IF back(u) > Alpha THEN toBeChecked[u] \ {x} ELSE toBeChecked[u]
    BY <1>1, <2>1
  <2>5. maxmin'[u] = IF back(u) < maxmin[u].assoc THEN [assoc |-> back(u), index |-> x] ELSE maxmin[u]
    BY <1>1, <2>1
  <2>6. QED BY <2>3, <2>4, <2>5
<1>21. \A u \in Nodes : u = x \/ u \in both \/ (u # x /\ u \notin both)
  OBVIOUS
<1>22. SearchTyped'
  <2>1. \A u \in Nodes : toBeChecked'[u] \in SUBSET Nodes /\ cpcs'[u] \cap toBeChecked'[u] = {}
    BY <1>1, <1>2, <1>6, <1>17
  <2>2. toBeChecked' \in [Nodes -> SUBSET Nodes]
    BY <1>1, <2>1
  <2>3. \A u \in Nodes : minAssoc'[u] \in [Nodes -> Nat]
    <3>1. minAssoc'[x] \in [Nodes -> Nat]
      BY <1>11, <1>18
    <3>2. ASSUME NEW u \in both
          PROVE  minAssoc'[u] \in [Nodes -> Nat]
      <4>1. back(u) \in Nat /\ minAssoc[u] \in [Nodes -> Nat]
        BY <1>6, <1>9, <1>10, <1>19
      <4>2. u \in Nodes /\ u # x
        BY <1>19
      <4>3. QED BY <1>1, <4>1, <4>2
    <3>3. QED BY <1>6, <1>18, <1>21, <3>1, <3>2
  <2>4. minAssoc' \in [Nodes -> [Nodes -> Nat]]
    BY <1>1, <2>3
  <2>5. \A u \in Nodes : maxmin'[u] \in [assoc : 0 .. Alpha, index : Nodes \cup {Stop}]
    <3>1. best \in [assoc : 0 .. Alpha, index : Nodes \cup {Stop}]
      BY <1>4, <1>6, <1>7, <1>10, <1>11, <1>16
    <3>2. ASSUME NEW u \in both
          PROVE  maxmin'[u] \in [assoc : 0 .. Alpha, index : Nodes \cup {Stop}]
      <4>1. back(u) \in Nat /\ u \in Nodes
        BY <1>9, <1>10, <1>19
      <4>2. maxmin[u] \in [assoc : 0 .. Alpha, index : Nodes \cup {Stop}] /\ maxmin[u].assoc \in 0 .. Alpha
        BY <1>6, <4>1
      <4>3. CASE maxmin'[u] = maxmin[u]
        BY <4>2, <4>3
      <4>4. CASE back(u) < maxmin[u].assoc /\ maxmin'[u] = [assoc |-> back(u), index |-> x]
        <5>1. back(u) \in 0 .. Alpha
          BY <1>4, <4>1, <4>2, <4>4
        <5>2. QED BY <1>4, <4>4, <5>1
      <4>5. QED BY <1>20, <4>3, <4>4
    <3>3. QED BY <1>6, <1>18, <1>21, <3>1, <3>2
  <2>6. maxmin' \in [Nodes -> [assoc : 0 .. Alpha, index : Nodes \cup {Stop}]]
    BY <1>1, <2>5
  <2>7. lastAdded' \in Nodes /\ remaining' \subseteq cpcs'[node']
    BY <1>2, <1>3 DEF TypeOK
  <2>8. task' = task
    BY <1>2 DEF Frame
  <2>9. QED BY <1>2, <1>6, <2>1, <2>2, <2>4, <2>6, <2>7 DEF SearchTyped
<1>23. LoopsInRange'
  BY <1>2, <1>3, <1>5 DEF LoopsInRange, Frame
<1>24. MembersAllowed'
  <2>1. ASSUME NEW u \in Nodes, NEW y \in Nodes, y = maxmin'[u].index
        PROVE  {u, y} \in AllowedPairs
    <3>1. CASE maxmin'[u] = maxmin[u]
      BY <1>3, <2>1, <3>1
    <3>2. CASE u = x /\ \E z \in tested : maxmin'[u].index = z
      BY <1>7, <1>10, <2>1, <3>2
    <3>3. CASE u \in both /\ maxmin'[u].index = x
      <4>1. {x, u} \in AllowedPairs /\ {x, u} = {u, x}
        BY <1>7, <1>10, <3>3
      <4>2. QED BY <2>1, <3>3, <4>1
    <3>4. CASE u = x
      <4>1. maxmin'[u] = maxmin[u] \/ \E z \in tested : maxmin'[u].index = z
        BY <1>16, <1>18, <3>4
      <4>2. QED BY <3>1, <3>2, <3>4, <4>1
    <3>5. CASE u \in both
      <4>1. maxmin'[u] = maxmin[u] \/ maxmin'[u].index = x
        BY <1>20, <3>5
      <4>2. QED BY <3>1, <3>3, <3>5, <4>1
    <3>6. CASE u # x /\ u \notin both
      BY <1>18, <3>1, <3>6
    <3>7. QED BY <1>21, <3>4, <3>5, <3>6
  <2>2. QED BY <1>2, <1>3, <1>17, <2>1, FrameKeeps DEF MembersAllowed
<1>25. ASSUME NEW u \in Nodes, Free(u)
       PROVE  /\ Single(cpcs[u])
              /\ LET y == maxmin'[u].index
                 IN  y # Stop => /\ y \in toBeChecked'[u] /\ minAssoc'[u][y] <= Alpha
                                 /\ Weakest(u, y, cpcs[u], minAssoc'[u][y])
              /\ \A y \in toBeChecked'[u] :
                    \/ Weakest(u, y, cpcs[u], minAssoc'[u][y])
                    \/ ~TurnOver(u, y) /\ Weakest(u, y, {}, minAssoc'[u][y])
  <2>1. /\ Single(cpcs[u])
        /\ \A y \in toBeChecked[u] :
              \/ Weakest(u, y, cpcs[u], minAssoc[u][y])
              \/ ~Tested(u, y) /\ Weakest(u, y, {}, minAssoc[u][y])
    BY <1>2, <1>25 DEF IInv, UnivariateExact, Recorded
  <2> DEFINE j == maxmin[u].index
  <2>2. j # Stop => /\ j \in toBeChecked[u] /\ minAssoc[u][j] <= Alpha
                    /\ Weakest(u, j, cpcs[u], minAssoc[u][j])
    BY <1>2, <1>25 DEF IInv, UnivariateExact, PickRecorded, Recorded
  <2>3. j \in Nodes \cup {Stop} /\ maxmin[u].assoc \in 0 .. Alpha
    BY <1>6
  <2>4. CASE u = x
    <3>1. ASSUME NEW y \in toBeChecked[x]
          PROVE  /\ Weakest(x, y, cpcs[x], assoc[y])
                 /\ Weakest(x, y, cpcs[x], minAssoc[x][y]) => assoc[y] = minAssoc[x][y]
      <4>1. y \in Nodes /\ {x, y} \in AllowedPairs /\ minAssoc[x][y] \in Nat
        <5>1. y \in Nodes /\ {x, y} \in AllowedPairs
          BY <1>7
        <5>2. minAssoc[x] \in [Nodes -> Nat]
          BY <1>4, <1>6
        <5>3. QED BY <5>1, <5>2
      <4>2. Weakest(x, y, cpcs[x], minAssoc[x][y]) \/ (~Tested(x, y) /\ Weakest(x, y, {}, minAssoc[x][y]))
        BY <2>1, <2>4
      <4>3. CASE y \in tested
        <5>1. PICK c \in Nodes : cpcs[x] = {c}
          BY <1>12, <1>15, <4>3
        <5>2. assoc[y] = Higher(minAssoc[x][y], Pvalue(x, y, {c}))
          BY <1>11, <4>3, <5>1 DEF p
        <5>3. Weakest(x, y, {}, minAssoc[x][y]) \/ Weakest(x, y, {c}, minAssoc[x][y])
          BY <4>2, <5>1
        <5>4. QED BY <1>3, <1>4, <4>1, <5>1, <5>2, <5>3, TestGivenOne
      <4>4. CASE y \notin tested
        <5>1. assoc[y] = minAssoc[x][y]
          BY <1>11, <4>1, <4>4
        <5>2. CASE single
          <6>1. ~(x < y) /\ cpcs[y] = cpcs[x] /\ x \in toBeChecked[y]
            BY <1>15, <4>4, <5>2
          <6>2. y < x
            <7>1. x \in Nat /\ y \in Nat /\ y # x
              BY <1>4, <1>7
            <7>2. QED BY <6>1, <7>1
          <6>3. Tested(x, y)
            BY <6>1, <6>2 DEF Tested, x
          <6>4. QED BY <4>2, <5>1, <6>3
        <5>3. CASE ~single
          <6>1. cpcs[x] = {}
            BY <1>13, <2>1, <2>4, <5>3
          <6>2. QED BY <4>2, <5>1, <6>1
        <5>4. QED BY <5>2, <5>3
      <4>5. QED BY <4>3, <4>4
    <3>2. \A y \in toBeChecked'[u] : Weakest(u, y, cpcs[u], minAssoc'[u][y])
      BY <1>17, <1>18, <2>4, <3>1
    <3>3. CASE maxmin'[x] = maxmin[x]
      <4>1. ASSUME j # Stop
            PROVE  j \in toBeChecked'[x] /\ minAssoc'[x][j] <= Alpha
        <5>1. j \in toBeChecked[x] /\ minAssoc[x][j] <= Alpha /\ Weakest(x, j, cpcs[x], minAssoc[x][j])
          BY <2>2, <2>4, <4>1
        <5>2. assoc[j] = minAssoc[x][j] /\ minAssoc[x][j] \in Nat
          BY <1>4, <1>6, <1>7, <3>1, <5>1
        <5>3. QED BY <1>4, <1>18, <5>1, <5>2
      <4>2. QED BY <2>1, <2>4, <3>2, <3>3, <4>1
    <3>4. ASSUME NEW z \in tested, assoc[z] < maxmin[x].assoc, maxmin'[x].index = z
          PROVE  z \in toBeChecked'[x] /\ minAssoc'[x][z] <= Alpha
      <4>1. z \in toBeChecked[x] /\ z \in Nodes /\ assoc[z] \in Nat
        BY <1>7, <1>10, <1>11
      <4>2. assoc[z] <= Alpha
        BY <1>4, <2>3, <2>4, <3>4, <4>1
      <4>3. ~(assoc[z] > Alpha)
        BY <1>4, <4>1, <4>2
      <4>4. QED BY <1>18, <4>1, <4>2, <4>3
    <3>5. CASE maxmin'[x] # maxmin[x]
      <4>1. PICK z \in tested : assoc[z] < maxmin[x].assoc /\ maxmin'[x].index = z
        BY <1>16, <1>18, <3>5
      <4>2. QED BY <2>1, <2>4, <3>2, <3>4, <4>1
    <3>6. QED BY <3>3, <3>5
  <2>5. CASE u \in both
    <3>1. /\ u \in toBeChecked[x] /\ single /\ x < u /\ cpcs[u] = cpcs[x] /\ x \in toBeChecked[u]
      BY <1>14, <2>5
    <3>2. PICK c \in Nodes : cpcs[x] = {c}
      BY <1>12, <3>1
    <3>3. {u, x} = {x, u} /\ {u, x} \in AllowedPairs /\ minAssoc[u][x] \in Nat
      BY <1>4, <1>6, <1>7, <3>1
    <3>4. Pvalue(x, u, cpcs[x]) = Pvalue(u, x, {c})
      BY <3>2, <3>3 DEF Pvalue
    <3>5. back(u) = Higher(minAssoc[u][x], Pvalue(u, x, {c}))
      BY <3>4 DEF back, p
    <3>6. /\ back(u) \in Nat /\ Weakest(u, x, cpcs[u], back(u))
          /\ Weakest(u, x, cpcs[u], minAssoc[u][x]) => back(u) = minAssoc[u][x]
      <4>1. Weakest(u, x, {}, minAssoc[u][x]) \/ Weakest(u, x, {c}, minAssoc[u][x])
        BY <2>1, <3>1, <3>2
      <4>2. QED BY <1>3, <1>4, <3>1, <3>2, <3>3, <3>5, <4>1, TestGivenOne
    <3>7. minAssoc'[u][x] = back(u) /\ \A y \in Nodes : y # x => minAssoc'[u][y] = minAssoc[u][y]
      BY <1>20, <2>5
    <3>8. ASSUME NEW y \in toBeChecked'[u]
          PROVE  \/ Weakest(u, y, cpcs[u], minAssoc'[u][y])
                 \/ ~TurnOver(u, y) /\ Weakest(u, y, {}, minAssoc'[u][y])
      <4>1. y \in toBeChecked[u] /\ y \in Nodes
        BY <1>17
      <4>2. CASE y = x
        BY <3>6, <3>7, <4>2
      <4>3. CASE y # x
        <5>1. minAssoc'[u][y] = minAssoc[u][y]
          BY <3>7, <4>1, <4>3
        <5>2. TurnOver(u, y) => Tested(u, y)
          <6>1. ~(u <= x) /\ (y <= x => y < x)
            BY <1>4, <3>1, <4>1, <4>3
          <6>2. u \in toBeChecked'[y] => u \in toBeChecked[y]
            BY <1>17, <4>1
          <6>3. QED BY <6>1, <6>2 DEF TurnOver, Tested, x
        <5>3. QED BY <2>1, <4>1, <5>1, <5>2
      <4>4. QED BY <4>2, <4>3
    <3>9. CASE back(u) < maxmin[u].assoc /\ maxmin'[u].index = x
      <4>1. back(u) <= Alpha
        BY <1>4, <2>3, <3>6, <3>9
      <4>2. x \in toBeChecked'[u]
        <5>1. ~(back(u) > Alpha)
          BY <1>4, <3>6, <4>1
        <5>2. QED BY <1>20, <2>5, <3>1, <5>1
      <4>3. QED BY <2>1, <3>6, <3>7, <3>8, <3>9, <4>1, <4>2
    <3>10. CASE maxmin'[u] = maxmin[u]
      <4>1. ASSUME j # Stop
            PROVE  /\ j \in toBeChecked'[u] /\ minAssoc'[u][j] <= Alpha
                   /\ Weakest(u, j, cpcs[u], minAssoc'[u][j])
        <5>1. /\ j \in toBeChecked[u] /\ minAssoc[u][j] <= Alpha
              /\ Weakest(u, j, cpcs[u], minAssoc[u][j]) /\ j \in Nodes
          BY <1>6, <2>2, <4>1
        <5>2. minAssoc'[u][j] = minAssoc[u][j]
          BY <3>6, <3>7, <5>1
        <5>3. j = x => ~(back(u) > Alpha)
          BY <1>4, <3>3, <3>6, <5>1
        <5>4. j \in toBeChecked'[u]
          BY <1>20, <2>5, <5>1, <5>3
        <5>5. QED BY <5>1, <5>2, <5>4
      <4>2. QED BY <2>1, <3>8, <3>10, <4>1
    <3>11. QED BY <1>20, <2>5, <3>9, <3>10
  <2>6. CASE u # x /\ u \notin both
    <3>1. minAssoc'[u] = minAssoc[u] /\ toBeChecked'[u] = toBeChecked[u] /\ maxmin'[u] = maxmin[u]
      BY <1>18, <2>6
    <3>2. ASSUME NEW y \in toBeChecked[u], ~Tested(u, y), TurnOver(u, y),
                 Weakest(u, y, {}, minAssoc[u][y])
          PROVE  Weakest(u, y, cpcs[u], minAssoc[u][y])
      <4>1. y \in Nodes /\ (u <= x => u < x) /\ (y <= x => y < x \/ y = x)
        BY <1>4, <1>6, <2>6
      <4>2. u \in toBeChecked'[y] => u \in toBeChecked[y]
        BY <1>17, <4>1
      <4>3. y = x /\ cpcs[u] = cpcs[x] /\ u \in toBeChecked[x] /\ x \in toBeChecked[u] /\ ~(u < x)
        BY <3>2, <4>1, <4>2 DEF TurnOver, Tested, x
      <4>4. x < u
        BY <1>4, <2>6, <4>3
      <4>5. ~single
        BY <1>14, <2>6, <4>3, <4>4
      <4>6. cpcs[u] = {}
        BY <1>13, <2>1, <4>3, <4>5
      <4>7. QED BY <3>2, <4>6
    <3>3. QED BY <2>1, <2>2, <3>1, <3>2
  <2>7. QED BY <1>21, <2>4, <2>5, <2>6
<1>26. CASE node' = node + 1 /\ phase' = "univariate"
  <2>1. \A u, y \in Nodes : Tested(u, y)' => TurnOver(u, y)
    <3>1. \A u \in Nodes : u \in Nat
      BY <1>4
    <3>2. node \in Nat
      BY <1>4 DEF x
    <3>3. \A u \in Nodes : u < node + 1 => u <= node
      BY <3>1, <3>2
    <3>4. QED BY <1>2, <1>26, <3>3 DEF Tested, TurnOver
  <2>2. \A u, y \in Nodes : y \in toBeChecked'[u] => y \in Nodes
    OBVIOUS
  <2>3. UnivariateExact'
    <3>1. ASSUME NEW u \in Nodes, Free(u)'
          PROVE  /\ Single(cpcs[u])' /\ PickRecorded(u)'
                 /\ \A y \in toBeChecked'[u] :
                       Recorded(u, y)' \/ (~Tested(u, y)' /\ Weakest(u, y, {}, minAssoc[u][y])')
      <4>1. Free(u)
        BY <1>2, <3>1, FrameKeeps
      <4>2. \A y, C, m : Weakest(u, y, C, m)' <=> Weakest(u, y, C, m)
        BY <1>2, FrameKeeps
      <4>3. \A y \in toBeChecked'[u] : y \in Nodes
        BY <1>17
      <4>4. Single(cpcs[u])' /\ PickRecorded(u)'
        BY <1>2, <1>25, <4>1, <4>2 DEF PickRecorded, Recorded, Frame
      <4>5. QED BY <1>2, <1>25, <2>1, <4>1, <4>2, <4>3, <4>4 DEF Recorded
    <3>2. QED BY <3>1 DEF UnivariateExact
  <2>4. WaitingExact' /\ ForwardExact'
    BY <1>26 DEF WaitingExact, Waiting, ForwardExact, AssocExact
  <2>5. phase \in SearchPhases /\ phase' \in SearchPhases \ {"marginal"}
    BY <1>2, <1>26 DEF SearchPhases
  <2>6. QED BY <1>2, <1>22, <1>23, <1>24, <2>3, <2>4, <2>5, SearchStep
<1>27. CASE node' = 0 /\ phase' = "forward_start" /\ \A u \in task.nodes : u <= node
  <2>1. WaitingExact'
    <3>1. ASSUME NEW u \in Nodes, Free(u)'
          PROVE  /\ Single(cpcs[u])' /\ PickRecorded(u)'
                 /\ \A y \in toBeChecked'[u] : Recorded(u, y)'
      <4>1. Free(u)
        BY <1>2, <3>1, FrameKeeps
      <4>2. \A y, C, m : Weakest(u, y, C, m)' <=> Weakest(u, y, C, m)
        BY <1>2, FrameKeeps
      <4>3. Single(cpcs[u])' /\ PickRecorded(u)'
        BY <1>2, <1>25, <4>1, <4>2 DEF PickRecorded, Recorded, Frame
      <4>4. ASSUME NEW y \in toBeChecked'[u]
            PROVE  Weakest(u, y, cpcs[u], minAssoc'[u][y])
        <5>1. y \in Nodes /\ y \in toBeChecked[u]
          BY <1>17
        <5>2. u \in task.nodes
          BY <1>3, <5>1, AllowedEnds
        <5>3. TurnOver(u, y)
          BY <1>27, <5>2 DEF TurnOver
        <5>4. QED BY <1>25, <4>1, <5>3
      <4>5. QED BY <1>2, <4>2, <4>3, <4>4 DEF Recorded
    <3>2. QED BY <3>1 DEF WaitingExact, Waiting
  <2>2. UnivariateExact' /\ ForwardExact'
    BY <1>27 DEF UnivariateExact, ForwardExact, AssocExact
  <2>3. phase \in SearchPhases /\ phase' \in SearchPhases \ {"marginal"}
    BY <1>2, <1>27 DEF SearchPhases
  <2>4. QED BY <1>2, <1>22, <1>23, <1>24, <2>1, <2>2, <2>3, SearchStep
<1>28. QED BY <1>5, <1>26, <1>27

-------------------------------------------------------------------------------
(* The steps at one node.                                                  *)

\* What is known of the node whose turn it is, and of the others.
LEMMA AtNode ==
    ASSUME IInv
    PROVE  /\ TypeOK /\ node \in task.nodes /\ node \in Nodes
           /\ cpcs \in [Nodes -> SUBSET Nodes] /\ toBeChecked \in [Nodes -> SUBSET Nodes]
           /\ minAssoc \in [Nodes -> [Nodes -> Nat]]
           /\ maxmin \in [Nodes -> [assoc : 0 .. Alpha, index : Nodes \cup {Stop}]]
           /\ \A x \in Nodes : cpcs[x] \cap toBeChecked[x] = {}
           /\ \A x, y \in Nodes :
                 y \in cpcs[x] \cup toBeChecked[x] \/ y = maxmin[x].index => {x, y} \in AllowedPairs
           /\ \A x \in Nodes : phase \notin {"start", "rejected"} => Whitelisted(x) \subseteq cpcs[x]
           /\ lastAdded \in Nodes /\ remaining \subseteq cpcs[node]
           /\ phase # "backward" => remaining = {}
BY Basics DEF IInv, TypeOK, LoopsInRange, MembersAllowed

\* A step that changes only what is recorded of the node whose turn it is.
NodePhases == {"forward_start", "recompute", "forward", "backward"}

LocalChange(C, T, A, b) ==
    /\ phase \in NodePhases /\ phase' \in NodePhases \ {"forward_start"}
    /\ node' = node /\ Frame
    /\ C \in SUBSET Nodes /\ T \in SUBSET Nodes /\ C \cap T = {} /\ Whitelisted(node) \subseteq C
    /\ A \in [Nodes -> Nat] /\ b \in [assoc : 0 .. Alpha, index : Nodes \cup {Stop}]
    /\ cpcs' = [cpcs EXCEPT ![node] = C] /\ toBeChecked' = [toBeChecked EXCEPT ![node] = T]
    /\ minAssoc' = [minAssoc EXCEPT ![node] = A] /\ maxmin' = [maxmin EXCEPT ![node] = b]
    /\ \A y \in Nodes : y \in C \cup T \/ y = b.index => {node, y} \in AllowedPairs
    /\ lastAdded' \in Nodes /\ remaining' \subseteq C /\ (phase' # "backward" => remaining' = {})

LEMMA LocalStep ==
    ASSUME IInv, NEW C, NEW T, NEW A, NEW b, LocalChange(C, T, A, b), ForwardExact'
    PROVE  IInv'
<1>0. /\ phase \in NodePhases /\ phase' \in NodePhases \ {"forward_start"}
      /\ node' = node /\ Frame
      /\ C \in SUBSET Nodes /\ T \in SUBSET Nodes /\ C \cap T = {} /\ Whitelisted(node) \subseteq C
      /\ A \in [Nodes -> Nat] /\ b \in [assoc : 0 .. Alpha, index : Nodes \cup {Stop}]
      /\ cpcs' = [cpcs EXCEPT ![node] = C] /\ toBeChecked' = [toBeChecked EXCEPT ![node] = T]
      /\ minAssoc' = [minAssoc EXCEPT ![node] = A] /\ maxmin' = [maxmin EXCEPT ![node] = b]
      /\ \A y \in Nodes : y \in C \cup T \/ y = b.index => {node, y} \in AllowedPairs
      /\ lastAdded' \in Nodes /\ remaining' \subseteq C /\ (phase' # "backward" => remaining' = {})
  BY DEF LocalChange
<1>1. /\ TypeOK /\ node \in task.nodes /\ node \in Nodes
      /\ cpcs \in [Nodes -> SUBSET Nodes] /\ toBeChecked \in [Nodes -> SUBSET Nodes]
      /\ minAssoc \in [Nodes -> [Nodes -> Nat]]
      /\ maxmin \in [Nodes -> [assoc : 0 .. Alpha, index : Nodes \cup {Stop}]]
      /\ \A x \in Nodes : cpcs[x] \cap toBeChecked[x] = {}
      /\ \A x, y \in Nodes : y \in cpcs[x] \cup toBeChecked[x] \/ y = maxmin[x].index => {x, y} \in AllowedPairs
      /\ \A x \in Nodes : Whitelisted(x) \subseteq cpcs[x]
  BY <1>0, AtNode DEF NodePhases
<1>2. /\ cpcs'[node] = C /\ toBeChecked'[node] = T /\ minAssoc'[node] = A /\ maxmin'[node] = b
      /\ \A x \in Nodes : x # node =>
            /\ cpcs'[x] = cpcs[x] /\ toBeChecked'[x] = toBeChecked[x]
            /\ minAssoc'[x] = minAssoc[x] /\ maxmin'[x] = maxmin[x]
  BY <1>0, <1>1
<1>3. task' = task
  BY <1>0 DEF Frame
<1>4. SearchTyped'
  BY <1>0, <1>1, <1>2 DEF SearchTyped
<1>5. LoopsInRange'
  BY <1>0, <1>1, <1>3 DEF LoopsInRange, NodePhases
<1>6. MembersAllowed'
  <2>1. \A x, y \in Nodes : y \in cpcs'[x] \cup toBeChecked'[x] \/ y = maxmin'[x].index => {x, y} \in AllowedPairs
    <3>1. ASSUME NEW x \in Nodes, NEW y \in Nodes,
                 y \in cpcs'[x] \cup toBeChecked'[x] \/ y = maxmin'[x].index
          PROVE  {x, y} \in AllowedPairs
      <4>1. CASE x = node
        BY <1>0, <1>2, <3>1, <4>1
      <4>2. CASE x # node
        BY <1>1, <1>2, <3>1, <4>2
      <4>3. QED BY <4>1, <4>2
    <3>2. QED BY <3>1
  <2>2. \A x \in Nodes : Whitelisted(x) \subseteq cpcs'[x]
    BY <1>0, <1>1, <1>2
  <2>3. QED BY <1>0, <2>1, <2>2, FrameKeeps DEF MembersAllowed
<1>7. WaitingExact'
  <2>1. ASSUME NEW x \in Waiting', Free(x)'
        PROVE  /\ Single(cpcs[x])' /\ PickRecorded(x)'
               /\ \A y \in toBeChecked'[x] : Recorded(x, y)'
    <3>1. x \in Nodes /\ x > node
      BY <1>0, <2>1 DEF Waiting
    <3>2. x \in Waiting /\ x # node /\ Free(x)
      <4>1. x \in Nat /\ node \in Nat
        BY <1>1, <3>1, NodesAssumption
      <4>2. QED BY <1>0, <2>1, <3>1, <4>1, FrameKeeps DEF Waiting, NodePhases
    <3>3. /\ Single(cpcs[x]) /\ PickRecorded(x)
          /\ \A y \in toBeChecked[x] : Recorded(x, y)
      BY <3>2 DEF IInv, WaitingExact
    <3>4. /\ cpcs'[x] = cpcs[x] /\ toBeChecked'[x] = toBeChecked[x]
          /\ minAssoc'[x] = minAssoc[x] /\ maxmin'[x] = maxmin[x]
      BY <1>2, <3>1, <3>2
    <3>5. \A y : Recorded(x, y)' <=> Recorded(x, y)
      BY <1>0, <3>4, FrameKeeps DEF Recorded
    <3>7. PickRecorded(x)'
      BY <3>3, <3>4, <3>5 DEF PickRecorded
    <3>8. QED BY <3>3, <3>4, <3>5, <3>7
  <2>2. QED BY <2>1 DEF WaitingExact
<1>8. UnivariateExact'
  BY <1>0 DEF UnivariateExact, NodePhases
<1>9. phase \in SearchPhases /\ phase' \in SearchPhases \ {"marginal"}
  BY <1>0 DEF SearchPhases, NodePhases
<1>10. QED BY <1>0, <1>4, <1>5, <1>6, <1>7, <1>8, <1>9, SearchStep

\* A value of a function is what it is replaced with: nothing changes.
LEMMA SameValue ==
    ASSUME NEW f, NEW X, NEW Y, f \in [X -> Y], NEW x
    PROVE  [f EXCEPT ![x] = f[x]] = f
OBVIOUS

LEMMA StartForwardStep ==
    ASSUME IInv, StartForward
    PROVE  IInv'
<1>1. /\ phase = "forward_start" /\ minAssoc' = minAssoc /\ maxmin' = maxmin /\ node' = node /\ Frame
      /\ \/ /\ phase' = "recompute"
            /\ UNCHANGED <<cpcs, toBeChecked, lastAdded, remaining>>
         \/ /\ maxmin[node].index # Stop
            /\ cpcs' = [cpcs EXCEPT ![node] = cpcs[node] \cup {maxmin[node].index}]
            /\ toBeChecked' = [toBeChecked EXCEPT ![node] = toBeChecked[node] \ {maxmin[node].index}]
            /\ lastAdded' = maxmin[node].index /\ phase' = "forward" /\ remaining' = remaining
         \/ /\ UNCHANGED <<cpcs, toBeChecked, lastAdded>>
            /\ phase' = "backward" /\ remaining' \subseteq cpcs[node]
  BY DEF StartForward, StartBackward, Add, LeftToCheck, searched, problem, rulesState, Frame
<1>2. /\ TypeOK /\ node \in Nodes
      /\ cpcs \in [Nodes -> SUBSET Nodes] /\ toBeChecked \in [Nodes -> SUBSET Nodes]
      /\ minAssoc \in [Nodes -> [Nodes -> Nat]]
      /\ maxmin \in [Nodes -> [assoc : 0 .. Alpha, index : Nodes \cup {Stop}]]
      /\ cpcs[node] \cap toBeChecked[node] = {}
      /\ \A y \in Nodes : y \in cpcs[node] \cup toBeChecked[node] \/ y = maxmin[node].index =>
                             {node, y} \in AllowedPairs
      /\ Whitelisted(node) \subseteq cpcs[node]
      /\ lastAdded \in Nodes /\ remaining = {}
  BY <1>1, AtNode
<1>3. minAssoc' = [minAssoc EXCEPT ![node] = minAssoc[node]] /\ minAssoc[node] \in [Nodes -> Nat]
  BY <1>1, <1>2, SameValue
<1>4. /\ maxmin' = [maxmin EXCEPT ![node] = maxmin[node]]
      /\ maxmin[node] \in [assoc : 0 .. Alpha, index : Nodes \cup {Stop}]
  BY <1>1, <1>2, SameValue
<1> DEFINE A == minAssoc[node]
           b == maxmin[node]
<1>8. /\ A \in [Nodes -> Nat] /\ b \in [assoc : 0 .. Alpha, index : Nodes \cup {Stop}]
      /\ minAssoc' = [minAssoc EXCEPT ![node] = A] /\ maxmin' = [maxmin EXCEPT ![node] = b]
  BY <1>3, <1>4
<1>5. CASE UNCHANGED <<cpcs, toBeChecked, lastAdded>> /\ phase' \in {"recompute", "backward"} /\
           remaining' \subseteq cpcs[node] /\ (phase' # "backward" => remaining' = {})
  <2>1. cpcs' = [cpcs EXCEPT ![node] = cpcs[node]] /\ cpcs[node] \in SUBSET Nodes
    BY <1>2, <1>5, SameValue
  <2>2. toBeChecked' = [toBeChecked EXCEPT ![node] = toBeChecked[node]] /\ toBeChecked[node] \in SUBSET Nodes
    BY <1>2, <1>5, SameValue
  <2>3. ForwardExact'
    BY <1>5 DEF ForwardExact, AssocExact
  <2> DEFINE C == cpcs[node]
             T == toBeChecked[node]
  <2>4. /\ C \in SUBSET Nodes /\ T \in SUBSET Nodes /\ C \cap T = {} /\ Whitelisted(node) \subseteq C
        /\ cpcs' = [cpcs EXCEPT ![node] = C] /\ toBeChecked' = [toBeChecked EXCEPT ![node] = T]
        /\ \A y \in Nodes : y \in C \cup T \/ y = b.index => {node, y} \in AllowedPairs
        /\ remaining' \subseteq C
    BY <1>2, <1>5, <2>1, <2>2
  <2>5. lastAdded' \in Nodes /\ phase' \in NodePhases \ {"forward_start"} /\ phase \in NodePhases
    BY <1>1, <1>2, <1>5 DEF NodePhases
  <2> HIDE DEF A, b, C, T
  <2>6. LocalChange(C, T, A, b)
    BY <1>1, <1>5, <1>8, <2>4, <2>5 DEF LocalChange
  <2>7. QED BY <2>3, <2>6, LocalStep
<1>6. CASE /\ maxmin[node].index # Stop
           /\ cpcs' = [cpcs EXCEPT ![node] = cpcs[node] \cup {maxmin[node].index}]
           /\ toBeChecked' = [toBeChecked EXCEPT ![node] = toBeChecked[node] \ {maxmin[node].index}]
           /\ lastAdded' = maxmin[node].index /\ phase' = "forward" /\ remaining' = remaining
  <2> DEFINE j == maxmin[node].index
             C == cpcs[node] \cup {j}
             T == toBeChecked[node] \ {j}
  <2>1. j \in Nodes /\ {node, j} \in AllowedPairs
    BY <1>2, <1>4, <1>6
  <2>2. C \in SUBSET Nodes /\ T \in SUBSET Nodes /\ C \cap T = {} /\ Whitelisted(node) \subseteq C
    BY <1>2, <2>1
  <2>3. \A y \in Nodes : y \in C \cup T \/ y = j => {node, y} \in AllowedPairs
    BY <1>2, <2>1
  <2>4. cpcs'[node] = C /\ toBeChecked'[node] = T
    BY <1>2, <1>6
  <2>5. ForwardExact'
    <3>1. lastAdded' \in cpcs'[node']
      BY <1>1, <1>6, <2>4
    <3>2. ASSUME Free(node)', NEW y \in toBeChecked'[node] \cup {lastAdded'}
          PROVE  Weakest(node, y, cpcs'[node] \ {lastAdded'}, minAssoc'[node][y])
      <4>1. node \in Waiting /\ Free(node)
        BY <1>1, <1>2, <3>2, FrameKeeps DEF Waiting
      <4>2. PickRecorded(node) /\ \A z \in toBeChecked[node] : Recorded(node, z)
        BY <4>1 DEF IInv, WaitingExact
      <4>3. j \in toBeChecked[node]
        BY <1>6, <4>2 DEF PickRecorded
      <4>4. y \in toBeChecked[node]
        BY <1>6, <2>4, <3>2, <4>3
      <4>5. cpcs'[node] \ {lastAdded'} = cpcs[node]
        BY <1>2, <1>6, <2>4, <4>3
      <4>6. QED BY <1>1, <4>2, <4>4, <4>5 DEF Recorded
    <3>3. ASSUME Free(node)', NEW y \in toBeChecked'[node] \cup {lastAdded'}
          PROVE  Weakest(node, y, cpcs[node] \ {lastAdded}, minAssoc[node][y])'
      BY <1>1, <3>2, <3>3, FrameKeeps
    <3>4. QED BY <1>1, <3>1, <3>3 DEF ForwardExact, AssocExact, Free
  <2>6. /\ cpcs' = [cpcs EXCEPT ![node] = C] /\ toBeChecked' = [toBeChecked EXCEPT ![node] = T]
        /\ \A y \in Nodes : y \in C \cup T \/ y = b.index => {node, y} \in AllowedPairs
    BY <1>6, <2>3
  <2>7. /\ lastAdded' \in Nodes /\ phase' \in NodePhases \ {"forward_start"} /\ phase \in NodePhases
        /\ remaining' = {}
    BY <1>1, <1>2, <1>6, <2>1 DEF NodePhases
  <2> HIDE DEF A, b, C, T
  <2>8. LocalChange(C, T, A, b)
    BY <1>1, <1>8, <2>2, <2>6, <2>7 DEF LocalChange
  <2>9. QED BY <2>5, <2>8, LocalStep
<1>7. QED BY <1>1, <1>2, <1>5, <1>6

LEMMA RecomputeStep ==
    ASSUME IInv, RecomputeAssoc
    PROVE  IInv'
<1> DEFINE first == CHOOSE y \in toBeChecked[node] : TRUE
           p == Pvalue(node, first, cpcs[node])
           C == cpcs[node]
           T == toBeChecked[node]
<1>1. /\ phase = "recompute" /\ cpcs' = cpcs /\ toBeChecked' = toBeChecked
      /\ lastAdded' = lastAdded /\ node' = node /\ Frame
      /\ \/ /\ maxmin' = [maxmin EXCEPT ![node] = None] /\ minAssoc' = minAssoc
            /\ phase' = "backward" /\ remaining' \subseteq cpcs[node]
         \/ /\ first \in T /\ minAssoc' = [minAssoc EXCEPT ![node][first] = p]
            /\ \/ /\ p < Alpha
                  /\ maxmin' = [maxmin EXCEPT ![node] = [assoc |-> p, index |-> first]]
               \/ maxmin' = [maxmin EXCEPT ![node] = None]
            /\ phase' = "recompute" /\ remaining' = remaining
  BY DEF RecomputeAssoc, StartBackward, searched, problem, rulesState, Frame
<1>2. /\ TypeOK /\ node \in Nodes
      /\ cpcs \in [Nodes -> SUBSET Nodes] /\ toBeChecked \in [Nodes -> SUBSET Nodes]
      /\ minAssoc \in [Nodes -> [Nodes -> Nat]]
      /\ C \cap T = {}
      /\ \A y \in Nodes : y \in C \cup T => {node, y} \in AllowedPairs
      /\ Whitelisted(node) \subseteq C
      /\ lastAdded \in Nodes /\ remaining = {}
  BY <1>1, AtNode
<1>3. None \in [assoc : 0 .. Alpha, index : Nodes \cup {Stop}] /\ None.index \notin Nodes /\ Alpha \in Nat
  BY <1>2, Basics DEF None, Stop
<1>4. /\ C \in SUBSET Nodes /\ cpcs' = [cpcs EXCEPT ![node] = C]
      /\ T \in SUBSET Nodes /\ toBeChecked' = [toBeChecked EXCEPT ![node] = T]
  BY <1>1, <1>2, SameValue
<1> HIDE DEF first, p, C, T
<1>5. phase \in NodePhases /\ lastAdded' \in Nodes
  BY <1>1, <1>2 DEF NodePhases
<1>6. ForwardExact'
  BY <1>1 DEF ForwardExact, AssocExact
<1>7. CASE /\ maxmin' = [maxmin EXCEPT ![node] = None] /\ minAssoc' = minAssoc
           /\ phase' = "backward" /\ remaining' \subseteq C
  <2> DEFINE A == minAssoc[node]
             b == None
  <2>1. /\ A \in [Nodes -> Nat] /\ minAssoc' = [minAssoc EXCEPT ![node] = A]
        /\ b \in [assoc : 0 .. Alpha, index : Nodes \cup {Stop}]
        /\ maxmin' = [maxmin EXCEPT ![node] = b]
        /\ \A y \in Nodes : y \in C \cup T \/ y = b.index => {node, y} \in AllowedPairs
    BY <1>2, <1>3, <1>7, SameValue
  <2>2. phase' \in NodePhases \ {"forward_start"}
    BY <1>7 DEF NodePhases
  <2> HIDE DEF A, b
  <2>3. LocalChange(C, T, A, b)
    BY <1>1, <1>2, <1>4, <1>5, <1>7, <2>1, <2>2 DEF LocalChange
  <2>4. QED BY <1>6, <2>3, LocalStep
<1>8. CASE /\ first \in T /\ minAssoc' = [minAssoc EXCEPT ![node][first] = p]
           /\ \/ p < Alpha /\ maxmin' = [maxmin EXCEPT ![node] = [assoc |-> p, index |-> first]]
              \/ maxmin' = [maxmin EXCEPT ![node] = None]
           /\ phase' = "recompute" /\ remaining' = remaining
  <2>1. first \in Nodes /\ {node, first} \in AllowedPairs
    BY <1>2, <1>4, <1>8
  <2>2. p \in Nat
    BY <1>2, <1>4, <2>1, PvalueNat DEF p, C
  <2> DEFINE A == [minAssoc[node] EXCEPT ![first] = p]
  <2>3. A \in [Nodes -> Nat] /\ minAssoc' = [minAssoc EXCEPT ![node] = A]
    BY <1>2, <1>8, <2>1, <2>2
  <2>4. phase' \in NodePhases \ {"forward_start"}
    BY <1>8 DEF NodePhases
  <2>5. PICK b : /\ b \in [assoc : 0 .. Alpha, index : Nodes \cup {Stop}]
                 /\ b.index = first \/ b.index \notin Nodes
                 /\ maxmin' = [maxmin EXCEPT ![node] = b]
    <3>1. CASE p < Alpha /\ maxmin' = [maxmin EXCEPT ![node] = [assoc |-> p, index |-> first]]
      <4> WITNESS [assoc |-> p, index |-> first]
      <4>1. p \in 0 .. Alpha
        BY <1>3, <2>2, <3>1
      <4>2. QED BY <2>1, <3>1, <4>1
    <3>2. CASE maxmin' = [maxmin EXCEPT ![node] = None]
      BY <1>3, <3>2
    <3>3. QED BY <1>8, <3>1, <3>2
  <2>6. \A y \in Nodes : y \in C \cup T \/ y = b.index => {node, y} \in AllowedPairs
    BY <1>2, <2>1, <2>5 DEF C, T
  <2> HIDE DEF A
  <2>7. LocalChange(C, T, A, b)
    BY <1>1, <1>2, <1>4, <1>5, <1>8, <2>3, <2>4, <2>5, <2>6 DEF LocalChange
  <2>8. QED BY <1>6, <2>7, LocalStep
<1>9. QED BY <1>1, <1>7, <1>8 DEF C

LEMMA BackwardStep ==
    ASSUME IInv, NEW z \in Nodes, Backward(z)
    PROVE  IInv'
<1> DEFINE C == IF Removable(node, z) THEN cpcs[node] \ {z} ELSE cpcs[node]
           T == toBeChecked[node]
           A == minAssoc[node]
           b == maxmin[node]
<1>1. /\ phase = "backward" /\ phase' = "backward" /\ z \in remaining
      /\ cpcs' = [cpcs EXCEPT ![node] = C] /\ remaining' = remaining \ {z}
      /\ toBeChecked' = toBeChecked /\ minAssoc' = minAssoc /\ maxmin' = maxmin
      /\ lastAdded' = lastAdded /\ node' = node /\ Frame
  BY DEF Backward, searched, problem, rulesState, Frame
<1>2. /\ TypeOK /\ node \in Nodes
      /\ cpcs \in [Nodes -> SUBSET Nodes] /\ toBeChecked \in [Nodes -> SUBSET Nodes]
      /\ minAssoc \in [Nodes -> [Nodes -> Nat]]
      /\ maxmin \in [Nodes -> [assoc : 0 .. Alpha, index : Nodes \cup {Stop}]]
      /\ cpcs[node] \cap T = {}
      /\ \A y \in Nodes : y \in cpcs[node] \cup T \/ y = b.index => {node, y} \in AllowedPairs
      /\ Whitelisted(node) \subseteq cpcs[node]
      /\ lastAdded \in Nodes /\ remaining \subseteq cpcs[node]
  BY <1>1, AtNode
<1>3. /\ C \in SUBSET Nodes /\ C \cap T = {} /\ C \subseteq cpcs[node]
      /\ Whitelisted(node) \subseteq C /\ remaining \ {z} \subseteq C
  BY <1>2 DEF Removable
<1>4. /\ T \in SUBSET Nodes /\ toBeChecked' = [toBeChecked EXCEPT ![node] = T]
      /\ A \in [Nodes -> Nat] /\ minAssoc' = [minAssoc EXCEPT ![node] = A]
      /\ b \in [assoc : 0 .. Alpha, index : Nodes \cup {Stop}]
      /\ maxmin' = [maxmin EXCEPT ![node] = b]
  BY <1>1, <1>2, SameValue
<1>5. /\ phase \in NodePhases /\ phase' \in NodePhases \ {"forward_start"}
      /\ lastAdded' \in Nodes /\ remaining' \subseteq C
  BY <1>1, <1>2, <1>3 DEF NodePhases
<1>6. ForwardExact'
  BY <1>1 DEF ForwardExact, AssocExact
<1>7. \A y \in Nodes : y \in C \cup T \/ y = b.index => {node, y} \in AllowedPairs
  BY <1>2, <1>3
<1> HIDE DEF C, T, A, b
<1>8. LocalChange(C, T, A, b)
  BY <1>1, <1>3, <1>4, <1>5, <1>7 DEF LocalChange
<1>9. QED BY <1>6, <1>8, LocalStep

\* The tests of a round make the recorded association the weakest over all members.
LEMMA RoundExact ==
    ASSUME TypeOK, NEW x, NEW y, {x, y} \in AllowedPairs, NEW D \in SUBSET Nodes, NEW last \in D,
           NEW m \in Nat
    PROVE  LET worst == CHOOSE p \in {Pvalue(x, y, S) : S \in NewSets(D, last)} :
                           \A S \in NewSets(D, last) : Pvalue(x, y, S) <= p
           IN  /\ Higher(m, worst) \in Nat
               /\ Weakest(x, y, D \ {last}, m) => Weakest(x, y, D, Higher(m, worst))
<1> DEFINE N == NewSets(D, last)
           f == [S \in N |-> Pvalue(x, y, S)]
           worst == CHOOSE p \in {Pvalue(x, y, S) : S \in N} : \A S \in N : Pvalue(x, y, S) <= p
           C == D \ {last}
<1>1. N \subseteq SUBSET D /\ D \in N
  BY DEF NewSets
<1>2. N \cup SUBSET C = SUBSET D
  <2>1. ASSUME NEW S \in SUBSET D
        PROVE  S \in N \/ S \in SUBSET C
    BY DEF NewSets
  <2>2. SUBSET C \subseteq SUBSET D
    OBVIOUS
  <2>3. QED BY <1>1, <2>1, <2>2
<1>3. IsFiniteSet(N)
  <2>1. IsFiniteSet(D)
    BY Basics, FS_Subset
  <2>2. IsFiniteSet(SUBSET D)
    BY <2>1, FS_SUBSET
  <2>3. QED BY <1>1, <2>2, FS_Subset
<1> HIDE DEF N, C
<1>4. \A S \in N : Pvalue(x, y, S) \in Nat
  BY <1>1, PvalueNat
<1>5. f \in [N -> Nat] /\ \A S \in N : f[S] = Pvalue(x, y, S)
  BY <1>4
<1>6. PICK V \in N : \A S \in N : f[S] <= f[V]
  <2> HIDE DEF f
  <2>1. QED BY <1>1, <1>3, <1>5, Greatest
<1>7. \A S \in N : Pvalue(x, y, S) <= Pvalue(x, y, V)
  BY <1>5, <1>6
<1>8. worst \in {Pvalue(x, y, S) : S \in N} /\ \A S \in N : Pvalue(x, y, S) <= worst
  BY <1>7
<1>9. PICK W \in N : worst = Pvalue(x, y, W)
  BY <1>8
<1> HIDE DEF worst
<1>10. Higher(m, worst) \in Nat
  BY <1>4, <1>9 DEF Higher
<1>11. ASSUME Weakest(x, y, C, m)
       PROVE  Weakest(x, y, D, Higher(m, worst))
  <2>1. \A S \in N : Pvalue(x, y, S) <= Pvalue(x, y, W)
    BY <1>8, <1>9
  <2>2. Weakest(x, y, D, Higher(m, Pvalue(x, y, W)))
    BY <1>2, <1>11, <2>1, WeakestGrows
  <2>3. QED BY <1>9, <2>2
<1>12. QED BY <1>10, <1>11 DEF worst, N, C

LEMMA ForwardStep ==
    ASSUME IInv, Forward
    PROVE  IInv'
<1> DEFINE D == cpcs[node]
           open == toBeChecked[node]
           old == minAssoc[node]
           first == [y \in Nodes |->
               IF y \in open THEN Higher(old[y], Pvalue(node, y, {lastAdded})) ELSE 0]
           worst(y) == CHOOSE p \in {Pvalue(node, y, S) : S \in NewSets(D, lastAdded)} :
                          \A S \in NewSets(D, lastAdded) : Pvalue(node, y, S) <= p
           assoc == [y \in Nodes |-> IF y \in open THEN Higher(old[y], worst(y)) ELSE old[y]]
           Left(z) == {y \in open \ {z} : assoc[y] <= Alpha}
<1>1. /\ phase = "forward" /\ node' = node /\ Frame
      /\ \/ /\ UNCHANGED <<cpcs, toBeChecked, minAssoc, maxmin, lastAdded>>
            /\ phase' = "backward" /\ remaining' \subseteq cpcs'[node]
         \/ /\ minAssoc' = [minAssoc EXCEPT ![node] = assoc]
            /\ \E best \in Strongest(first, open, None) :
                  /\ maxmin' = [maxmin EXCEPT ![node] = best]
                  /\ \/ /\ best = None /\ UNCHANGED <<cpcs, toBeChecked, lastAdded>>
                        /\ phase' = "backward" /\ remaining' \subseteq cpcs'[node]
                     \/ /\ best # None /\ cpcs' = [cpcs EXCEPT ![node] = D \cup {best.index}]
                        /\ lastAdded' = best.index
                        /\ toBeChecked' = [toBeChecked EXCEPT ![node] = Left(best.index)]
                        /\ phase' = "forward" /\ remaining' = remaining
  BY DEF Forward, StartBackward, Add, LeftToCheck, searched, problem, rulesState, Frame
<1>2. /\ TypeOK /\ node \in Nodes
      /\ cpcs \in [Nodes -> SUBSET Nodes] /\ toBeChecked \in [Nodes -> SUBSET Nodes]
      /\ minAssoc \in [Nodes -> [Nodes -> Nat]]
      /\ maxmin \in [Nodes -> [assoc : 0 .. Alpha, index : Nodes \cup {Stop}]]
      /\ D \cap open = {}
      /\ \A y \in Nodes : y \in D \cup open \/ y = maxmin[node].index => {node, y} \in AllowedPairs
      /\ Whitelisted(node) \subseteq D
      /\ lastAdded \in Nodes /\ remaining = {}
  BY <1>1, AtNode
<1>3. None \in [assoc : 0 .. Alpha, index : Nodes \cup {Stop}] /\ None.index \notin Nodes /\ Alpha \in Nat
      /\ None.assoc = Alpha
  BY <1>2, Basics DEF None, Stop
<1>4. D \in SUBSET Nodes /\ open \in SUBSET Nodes /\ old \in [Nodes -> Nat] /\ lastAdded \in D
  BY <1>1, <1>2 DEF IInv, ForwardExact
<1> HIDE DEF D, open, old
<1>5. ASSUME NEW y \in open
      PROVE  /\ first[y] \in Nat /\ assoc[y] \in Nat
             /\ Free(node) => Weakest(node, y, D, assoc[y])
  <2>1. y \in Nodes /\ {node, y} \in AllowedPairs /\ old[y] \in Nat
    BY <1>2, <1>4
  <2>2. /\ Higher(old[y], worst(y)) \in Nat
        /\ Weakest(node, y, D \ {lastAdded}, old[y]) => Weakest(node, y, D, Higher(old[y], worst(y)))
    BY <1>2, <1>4, <2>1, RoundExact
  <2>3. Pvalue(node, y, {lastAdded}) \in Nat
    BY <1>2, <2>1, PvalueNat
  <2>4. first[y] = Higher(old[y], Pvalue(node, y, {lastAdded}))
    BY <2>1
  <2>5. assoc[y] = Higher(old[y], worst(y))
    BY <2>1
  <2>6. Free(node) => Weakest(node, y, D \ {lastAdded}, old[y])
    BY <1>1 DEF IInv, ForwardExact, AssocExact, Free, D, open, old
  <2> HIDE DEF first, assoc, worst
  <2>7. QED BY <2>1, <2>2, <2>3, <2>4, <2>5, <2>6 DEF Higher
<1>6. assoc \in [Nodes -> Nat]
  <2>1. \A y \in Nodes : y \notin open => assoc[y] = old[y]
    OBVIOUS
  <2>2. \A y \in Nodes : assoc[y] \in Nat
    BY <1>4, <1>5, <2>1
  <2>3. QED BY <2>2
<1> HIDE DEF first, assoc, worst
<1>7. phase \in NodePhases
  BY <1>1 DEF NodePhases
<1>8. ASSUME UNCHANGED <<cpcs, toBeChecked, lastAdded>>, phase' = "backward", remaining' \subseteq cpcs'[node],
             NEW A \in [Nodes -> Nat], minAssoc' = [minAssoc EXCEPT ![node] = A],
             NEW b \in [assoc : 0 .. Alpha, index : Nodes \cup {Stop}],
             maxmin' = [maxmin EXCEPT ![node] = b],
             \A y \in Nodes : y = b.index => {node, y} \in AllowedPairs
      PROVE  IInv'
  <2>1. /\ cpcs' = [cpcs EXCEPT ![node] = D] /\ toBeChecked' = [toBeChecked EXCEPT ![node] = open]
    BY <1>2, <1>8, SameValue DEF D, open
  <2>2. phase' \in NodePhases \ {"forward_start"} /\ remaining' \subseteq D /\ lastAdded' \in Nodes
    BY <1>2, <1>8 DEF NodePhases, D
  <2>3. \A y \in Nodes : y \in D \cup open \/ y = b.index => {node, y} \in AllowedPairs
    BY <1>2, <1>8
  <2>4. LocalChange(D, open, A, b)
    BY <1>1, <1>2, <1>4, <1>7, <1>8, <2>1, <2>2, <2>3 DEF LocalChange
  <2>5. ForwardExact'
    BY <1>8 DEF ForwardExact, AssocExact
  <2>6. QED BY <2>4, <2>5, LocalStep
<1>9. CASE /\ UNCHANGED <<cpcs, toBeChecked, minAssoc, maxmin, lastAdded>>
           /\ phase' = "backward" /\ remaining' \subseteq cpcs'[node]
  <2> DEFINE b == maxmin[node]
  <2>1. minAssoc' = [minAssoc EXCEPT ![node] = old] /\ maxmin' = [maxmin EXCEPT ![node] = b]
    BY <1>2, <1>9, SameValue DEF old
  <2>2. /\ b \in [assoc : 0 .. Alpha, index : Nodes \cup {Stop}]
        /\ \A y \in Nodes : y = b.index => {node, y} \in AllowedPairs
    BY <1>2
  <2> HIDE DEF b
  <2>3. QED BY <1>4, <1>8, <1>9, <2>1, <2>2
<1>10. ASSUME NEW best \in Strongest(first, open, None),
              minAssoc' = [minAssoc EXCEPT ![node] = assoc], maxmin' = [maxmin EXCEPT ![node] = best],
              best = None, UNCHANGED <<cpcs, toBeChecked, lastAdded>>,
              phase' = "backward", remaining' \subseteq cpcs'[node]
       PROVE  IInv'
  <2>1. best \in [assoc : 0 .. Alpha, index : Nodes \cup {Stop}] /\ \A y \in Nodes : y # best.index
    BY <1>3, <1>10
  <2>2. QED BY <1>6, <1>8, <1>10, <2>1
<1>11. ASSUME NEW best \in Strongest(first, open, None),
              minAssoc' = [minAssoc EXCEPT ![node] = assoc], maxmin' = [maxmin EXCEPT ![node] = best],
              best # None, cpcs' = [cpcs EXCEPT ![node] = D \cup {best.index}], lastAdded' = best.index,
              toBeChecked' = [toBeChecked EXCEPT ![node] = Left(best.index)],
              phase' = "forward", remaining' = remaining
       PROVE  IInv'
  <2>1. PICK z \in open : first[z] < Alpha /\ best = [assoc |-> first[z], index |-> z]
    BY <1>3, <1>11 DEF Strongest
  <2>2. /\ best.index = z /\ z \in Nodes /\ {node, z} \in AllowedPairs
        /\ best \in [assoc : 0 .. Alpha, index : Nodes \cup {Stop}]
    <3>1. z \in Nodes /\ first[z] \in 0 .. Alpha
      BY <1>3, <1>4, <1>5, <2>1
    <3>2. QED BY <1>2, <2>1, <3>1
  <2> DEFINE C == D \cup {z}
             T == Left(z)
  <2>3. /\ C \in SUBSET Nodes /\ T \in SUBSET Nodes /\ C \cap T = {} /\ Whitelisted(node) \subseteq C
        /\ T \subseteq open /\ z \notin D
    BY <1>2, <1>4, <2>2
  <2>4. cpcs' = [cpcs EXCEPT ![node] = C] /\ toBeChecked' = [toBeChecked EXCEPT ![node] = T]
    BY <1>11, <2>2
  <2>5. \A y \in Nodes : y \in C \cup T \/ y = best.index => {node, y} \in AllowedPairs
    BY <1>2, <2>2, <2>3
  <2>6. phase' \in NodePhases \ {"forward_start"} /\ lastAdded' \in Nodes /\ remaining' = {}
    BY <1>2, <1>11, <2>2 DEF NodePhases
  <2>7. C \ {z} = D
    BY <2>3
  <2> HIDE DEF C, T
  <2>8. LocalChange(C, T, assoc, best)
    BY <1>1, <1>6, <1>7, <1>11, <2>2, <2>3, <2>4, <2>5, <2>6 DEF LocalChange
  <2>9. ForwardExact'
    <3>1. cpcs'[node'] = C /\ toBeChecked'[node'] = T /\ minAssoc'[node'] = assoc /\ lastAdded' = z
      BY <1>1, <1>2, <1>11, <2>2, <2>4
    <3>2. ASSUME Free(node)', NEW y \in toBeChecked'[node'] \cup {lastAdded'}
          PROVE  Weakest(node, y, cpcs[node] \ {lastAdded}, minAssoc[node][y])'
      <4>1. Free(node) /\ y \in open
        BY <1>1, <2>3, <3>1, <3>2, FrameKeeps
      <4>2. Weakest(node, y, D, assoc[y])
        BY <1>5, <4>1
      <4>3. Weakest(node', y, cpcs'[node'] \ {lastAdded'}, minAssoc'[node'][y])
        BY <1>1, <2>7, <3>1, <4>2
      <4>4. QED BY <1>1, <4>3, FrameKeeps
    <3>3. lastAdded' \in cpcs'[node']
      BY <3>1 DEF C
    <3>4. QED BY <3>2, <3>3 DEF ForwardExact, AssocExact, Free
  <2>10. QED BY <2>8, <2>9, LocalStep
<1>12. QED BY <1>1, <1>9, <1>10, <1>11

\* The turn passes to the next node, or the search ends.
LEMMA EndBackwardStep ==
    ASSUME IInv, EndBackward
    PROVE  IInv'
<1>1. /\ phase = "backward" /\ remaining = {} /\ NextNode("forward_start", "searched")
      /\ cpcs' = cpcs /\ toBeChecked' = toBeChecked /\ minAssoc' = minAssoc /\ maxmin' = maxmin
      /\ lastAdded' = lastAdded /\ remaining' = remaining /\ Frame
  BY DEF EndBackward, searched, problem, rulesState, Frame
<1>2. TypeOK /\ node \in task.nodes
  BY DEF IInv, LoopsInRange
<1>3. /\ node' \in task.nodes /\ node' \in Nat
      /\ \/ node' = node + 1 /\ phase' = "forward_start"
         \/ node' = 0 /\ phase' = "searched" /\ \A x \in task.nodes : x <= node
  BY <1>1, <1>2, TurnPasses
<1>4. phase \in SearchPhases /\ phase' \in SearchPhases \ {"marginal"}
  BY <1>1, <1>3 DEF SearchPhases
<1>5. SearchTyped'
  BY <1>1, <1>2 DEF TypeOK, SearchTyped, Frame
<1>6. LoopsInRange'
  BY <1>1, <1>3 DEF LoopsInRange, Frame
<1>7. MembersAllowed'
  BY <1>1, <1>4, FrameKeeps DEF IInv, MembersAllowed, SearchPhases
<1>8. UnivariateExact' /\ ForwardExact'
  BY <1>3 DEF UnivariateExact, ForwardExact, AssocExact
<1>9. WaitingExact'
  <2>1. ASSUME NEW x \in Waiting', Free(x)'
        PROVE  /\ Single(cpcs[x])' /\ PickRecorded(x)'
               /\ \A y \in toBeChecked'[x] : Recorded(x, y)'
    <3>1. x \in Nodes /\ phase' = "forward_start" /\ (x > node' \/ x = node')
      BY <1>3, <2>1 DEF Waiting
    <3>2. x > node
      <4>1. node' = node + 1 /\ x \in Nat /\ node \in Nat
        BY <1>2, <1>3, <3>1, Basics
      <4>2. QED BY <3>1, <4>1
    <3>3. x \in Waiting /\ Free(x)
      BY <1>1, <2>1, <3>1, <3>2, FrameKeeps DEF Waiting
    <3>4. /\ Single(cpcs[x]) /\ PickRecorded(x)
          /\ \A y \in toBeChecked[x] : Recorded(x, y)
      BY <3>3 DEF IInv, WaitingExact
    <3>5. \A y : Recorded(x, y)' <=> Recorded(x, y)
      BY <1>1, FrameKeeps DEF Recorded
    <3>6. PickRecorded(x)'
      BY <1>1, <3>4, <3>5 DEF PickRecorded
    <3>7. QED BY <1>1, <3>4, <3>5, <3>6
  <2>2. QED BY <2>1 DEF WaitingExact
<1>10. QED BY <1>1, <1>4, <1>5, <1>6, <1>7, <1>8, <1>9, SearchStep

-------------------------------------------------------------------------------
(* What is made of the CPCs.                                               *)

\* The pairs in each other's CPC may be joined, and the whitelisted ones are among them.
LEMMA SymmetricAllowed ==
    ASSUME IInv, phase = "searched"
    PROVE  /\ SymmetricPairs \subseteq AllowedPairs /\ SymmetricPairs \subseteq Edges
           /\ Joined(restrictions) \subseteq SymmetricPairs
<1>1. /\ TypeOK /\ MembersAllowed /\ \A x \in Nodes : Whitelisted(x) \subseteq cpcs[x]
  BY DEF IInv, MembersAllowed
<1>2. ASSUME NEW e \in SymmetricPairs
      PROVE  e \in AllowedPairs
  <2>1. e \in Edges
    BY DEF SymmetricPairs
  <2>2. PICK x \in Nodes, y \in Nodes : x # y /\ e = {x, y}
    BY <2>1 DEF Edges, Arcs, Ends
  <2>3. y \in cpcs[x]
    BY <2>2 DEF SymmetricPairs
  <2>4. QED BY <1>1, <2>2, <2>3 DEF MembersAllowed
<1>3. ASSUME NEW e \in Joined(restrictions)
      PROVE  e \in SymmetricPairs
  <2>1. e \in Edges
    BY <1>1, Basics, ReverseArc DEF Joined
  <2>2. ASSUME NEW x \in e, NEW y \in e, x # y
        PROVE  y \in cpcs[x]
    <3>1. x \in Nodes /\ y \in Nodes /\ e = {x, y}
      BY <2>1, <2>2, EdgeEnds
    <3>2. y \in Whitelisted(x)
      BY <3>1 DEF Whitelisted
    <3>3. QED BY <1>1, <3>1, <3>2
  <2>3. QED BY <2>1, <2>2 DEF SymmetricPairs
<1>4. QED BY <1>2, <1>3 DEF SymmetricPairs

LEMMA AfterSearch ==
    ASSUME IInv, phase \in {"searched", "found"} \cup Oriented,
           phase' \in ({"found"} \cup Oriented) \ {"crashed"},
           UNCHANGED <<task, restrictions, cpcState>>,
           pdag' \in Graphs, blacklist' \subseteq Arcs, evaluated' \in [Nodes -> SUBSET Edges],
           toCheck' \subseteq Arcs, nextNode' \in Nat, changed' \in BOOLEAN,
           ChildApart', ListsKept'
    PROVE  IInv'
<1>1. /\ task' = task /\ restrictions' = restrictions /\ cpcs' = cpcs /\ toBeChecked' = toBeChecked
      /\ minAssoc' = minAssoc /\ maxmin' = maxmin /\ node' = node
      /\ lastAdded' = lastAdded /\ remaining' = remaining
  BY DEF cpcState
<1>2. phase' \in {"found", "evaluate", "vstructures", "rule1", "rule2", "rule3", "done"}
  BY DEF Oriented
<1>3. phase' \in OrientationPhases \cup Stopped
  BY <1>2 DEF OrientationPhases, Stopped
<1>4. TypeOK'
  BY <1>1, <1>3 DEF IInv, TypeOK
<1>5. phase \notin {"start", "rejected", "marginal", "backward"}
  BY DEF Oriented
<1>6. LoopsInRange'
  BY <1>1, <1>2, <1>5 DEF IInv, LoopsInRange
<1>7. MembersAllowed'
  <2>1. AllowedPairs' = AllowedPairs /\ \A x : Whitelisted(x)' = Whitelisted(x)
    BY <1>1 DEF AllowedPairs, Whitelisted
  <2>2. QED BY <1>1, <1>5, <2>1 DEF IInv, MembersAllowed
<1>8. NothingRecorded' /\ UnivariateExact' /\ ForwardExact'
  BY <1>2 DEF NothingRecorded, UnivariateExact, ForwardExact, AssocExact
<1>9. WaitingExact'
  BY <1>2 DEF WaitingExact, Waiting
<1>10. QED BY <1>4, <1>6, <1>7, <1>8, <1>9 DEF IInv

LEMMA BuildSkeletonStep ==
    ASSUME IInv, BuildSkeleton
    PROVE  IInv'
<1> DEFINE new == {e \in SymmetricPairs : e \notin Skeleton(pdag)}
           W == restrictions.arcWhitelist
           I == {a \in Arcs : a[1] \in task.interface /\ Ends(a) \in new}
           E == {e \in new : e \cap task.interface = {}}
<1>1. /\ phase = "searched" /\ ~task.hybrid /\ phase' = "found"
      /\ pdag' = [arcs |-> pdag.arcs \cup I, edges |-> E]
      /\ UNCHANGED <<task, restrictions, cpcState>>
      /\ blacklist' = blacklist /\ evaluated' = evaluated /\ toCheck' = toCheck
      /\ nextNode' = nextNode /\ changed' = changed
  BY DEF BuildSkeleton, searched, problem, rulesState
<1>2. TypeOK /\ ~Contradiction(task) /\ pdag = [arcs |-> W, edges |-> {}]
  BY <1>1 DEF IInv, ListsKept, SearchPhases
<1>3. /\ Checked(task) /\ restrictions = ValidateRestrictions(task) /\ W \in SUBSET Arcs
      /\ task.interface \subseteq task.nodes
  BY <1>2, Basics
<1>4. pdag' = [arcs |-> W \cup I, edges |-> E] /\ Skeleton(pdag) = {Ends(a) : a \in W}
  BY <1>1, <1>2 DEF Skeleton
<1>5. /\ SymmetricPairs \subseteq AllowedPairs /\ SymmetricPairs \subseteq Edges
      /\ Joined(restrictions) \subseteq SymmetricPairs
  BY <1>1, SymmetricAllowed
<1>6. pdag'.arcs = W \cup I /\ pdag'.edges = E /\ E \subseteq new /\ new \subseteq SymmetricPairs
  BY <1>4
<1>7. pdag' \in Graphs
  BY <1>3, <1>4, <1>5 DEF Graphs
<1>8. NoOverlap(pdag')
  <2>1. ASSUME NEW a \in W
        PROVE  Ends(a) \notin E
    BY <1>4
  <2>2. ASSUME NEW a \in I
        PROVE  Ends(a) \notin E
    <3>1. a[1] \in Ends(a) /\ a[1] \in task.interface
      BY DEF Ends
    <3>2. QED BY <3>1
  <2>3. QED BY <1>6, <2>1, <2>2 DEF NoOverlap
<1>9. Skeleton(pdag') \subseteq {Ends(a) : a \in W} \cup SymmetricPairs
  BY <1>6 DEF Skeleton
<1>10. new \subseteq Skeleton(pdag')
  <2>1. ASSUME NEW e \in new, e \cap task.interface # {}
        PROVE  \E a \in I : Ends(a) = e
    <3>1. PICK x \in e : x \in task.interface
      BY <2>1
    <3>2. PICK y \in Nodes : y # x /\ e = {x, y}
      BY <1>5, <1>6, EdgeEnds
    <3>3. x \in Nodes
      BY <1>5, <1>6, EdgeEnds
    <3>4. <<x, y>> \in Arcs /\ Ends(<<x, y>>) = e /\ <<x, y>>[1] = x
      BY <3>2, <3>3 DEF Arcs, Ends
    <3>5. QED BY <3>1, <3>4
  <2>2. QED BY <1>6, <2>1 DEF Skeleton
<1>11. ListsHold(pdag')
  <2>1. ASSUME NEW e \in restrictions.edgeWhitelist
        PROVE  e \in Skeleton(pdag')
    <3>1. e \in SymmetricPairs
      BY <1>5 DEF Joined
    <3>2. e \notin Skeleton(pdag)
      BY <1>3, <1>4, DerivedLists
    <3>3. QED BY <1>10, <3>1, <3>2
  <2>2. ASSUME NEW a \in restrictions.arcBlacklist
        PROVE  a \notin pdag'.arcs
    <3>1. a \notin W
      BY <1>2, <1>3, ListsAgree
    <3>2. Ends(a) \cap task.interface = {}
      BY <1>3, DerivedLists
    <3>3. a[1] \notin task.interface
      BY <3>2 DEF Ends
    <3>4. QED BY <1>6, <3>1, <3>3
  <2>3. QED BY <1>1, <1>6, <2>1, <2>2 DEF ListsHold
<1>12. restrictions.edgeBlacklist \cap Skeleton(pdag') = {}
  <2>1. \A a \in W : Ends(a) \notin restrictions.edgeBlacklist
    BY <1>2, <1>3, ListsAgree
  <2>2. \A e \in SymmetricPairs : e \notin restrictions.edgeBlacklist
    BY <1>2, <1>5, AllowedEnds
  <2>3. QED BY <1>9, <2>1, <2>2
<1>13. ChildApart' /\ ChildApart
  BY <1>1 DEF IInv, ChildApart
<1> HIDE DEF new, I, E, W
<1>14. /\ task' = task /\ restrictions' = restrictions
       /\ evaluated' \in [Nodes -> SUBSET Edges] /\ toCheck' \subseteq Arcs /\ nextNode' \in Nat
       /\ changed' \in BOOLEAN /\ blacklist' \subseteq Arcs
  BY <1>1, <1>2 DEF TypeOK
<1>15. ListsHold(pdag)'
  BY <1>11, <1>14 DEF ListsHold
<1>16. OrientationInv'
  <2>1. phase' \notin Oriented
    BY <1>1 DEF Oriented
  <2>2. Checked(task)' /\ (restrictions = ValidateRestrictions(task))'
    BY <1>3, <1>14
  <2>3. NoOverlap(pdag)'
    BY <1>8
  <2>4. QED BY <1>7, <1>13, <1>14, <1>15, <2>1, <2>2, <2>3 DEF OrientationInv
<1>17. ListsKept'
  <2>1. ~Contradiction(task)' /\ ~task'.hybrid
    BY <1>1, <1>2, <1>14
  <2>2. (restrictions.edgeBlacklist \cap Skeleton(pdag) = {})'
    BY <1>12, <1>14
  <2>3. phase' = "found"
    BY <1>1
  <2>4. QED BY <1>16, <2>1, <2>2, <2>3 DEF ListsKept, SearchPhases
<1>18. phase' \in ({"found"} \cup Oriented) \ {"crashed"}
  BY <1>1
<1>19. QED BY <1>1, <1>7, <1>13, <1>14, <1>17, <1>18, AfterSearch

LEMMA CreateBlacklistStep ==
    ASSUME IInv, CreateBlacklist
    PROVE  IInv'
<1> DEFINE unjoined == {a \in Arcs : Ends(a) \subseteq task.nodes /\ Ends(a) \notin SymmetricPairs}
           B == task.arcBlacklist \cup {a \in unjoined : a[2] \notin task.interface}
           W == restrictions.arcWhitelist
<1>1. /\ phase = "searched" /\ task.hybrid /\ phase' = "done" /\ blacklist' = B
      /\ UNCHANGED <<task, restrictions, cpcState>>
      /\ pdag' = pdag /\ evaluated' = evaluated /\ toCheck' = toCheck
      /\ nextNode' = nextNode /\ changed' = changed
  BY DEF CreateBlacklist, problem, rulesState
<1>2. TypeOK /\ ~Contradiction(task)
  BY <1>1 DEF IInv, ListsKept
<1>3. /\ Checked(task) /\ restrictions = ValidateRestrictions(task)
      /\ task.arcBlacklist \subseteq Arcs /\ W \in SUBSET Arcs
  BY <1>2, Basics DEF Checked
<1>4. /\ W = task.arcWhitelist \cup DerivedWhitelist(task)
      /\ restrictions.edgeWhitelist \subseteq task.edgeWhitelist
      /\ \A a \in W : Ends(a) \notin restrictions.edgeWhitelist
  BY <1>3, DerivedLists DEF ValidateRestrictions
<1>5. Joined(restrictions) \subseteq SymmetricPairs
  BY <1>1, SymmetricAllowed
<1>6. ASSUME NEW a \in W
      PROVE  a \notin B
  <2>1. a \notin unjoined
    BY <1>5 DEF Joined
  <2>2. a \notin task.arcBlacklist
    <3>1. CASE a \in task.arcWhitelist
      BY <1>2, <3>1 DEF Contradiction
    <3>2. CASE a \in DerivedWhitelist(task)
      <4>1. PICK b \in task.arcBlacklist : Ends(b) \in task.edgeWhitelist /\ a = Reverse(b)
        BY <3>2 DEF DerivedWhitelist
      <4>2. QED BY <1>2, <4>1 DEF Contradiction
    <3>3. QED BY <1>4, <3>1, <3>2
  <2>3. QED BY <2>1, <2>2
<1>7. ASSUME NEW e \in Joined(restrictions)
      PROVE  \E a \in Arcs \ B : Ends(a) = e
  <2>1. CASE \E a \in W : e = Ends(a)
    BY <1>3, <1>6, <2>1
  <2>2. CASE e \in restrictions.edgeWhitelist
    <3>1. PICK a \in Arcs : Ends(a) = e
      BY <1>2, <2>2, Basics DEF Edges
    <3>2. a \notin unjoined
      BY <1>5, <3>1
    <3>3. a \notin task.arcBlacklist
      <4>1. SUFFICES ASSUME a \in task.arcBlacklist PROVE FALSE
        OBVIOUS
      <4>2. Reverse(a) \in W
        BY <1>4, <2>2, <3>1, <4>1 DEF DerivedWhitelist
      <4>3. Ends(Reverse(a)) = e
        BY <3>1, ReverseArc
      <4>4. QED BY <1>4, <2>2, <4>2, <4>3
    <3>4. QED BY <3>1, <3>2, <3>3
  <2>3. QED BY <2>1, <2>2 DEF Joined
<1>8. B \subseteq Arcs
  BY <1>3
<1> HIDE DEF unjoined, B, W
<1>9. RestrictionsKept'
  <2>1. restrictions' = restrictions /\ task' = task
    BY <1>1
  <2>2. restrictions'.arcWhitelist \cap blacklist' = {}
    BY <1>1, <1>6, <2>1 DEF W
  <2>3. Joined(restrictions') \subseteq {Ends(a) : a \in Arcs \ blacklist'}
    BY <1>1, <1>7, <2>1
  <2>4. QED BY <1>1, <2>1, <2>2, <2>3 DEF RestrictionsKept
<1>10. ListsKept'
  BY <1>1, <1>2, <1>9 DEF ListsKept, SearchPhases, OrientationPhases
<1>11. ChildApart'
  BY <1>1 DEF IInv, ChildApart
<1>12. /\ evaluated' \in [Nodes -> SUBSET Edges] /\ toCheck' \subseteq Arcs /\ nextNode' \in Nat
       /\ changed' \in BOOLEAN /\ blacklist' \subseteq Arcs /\ pdag' \in Graphs
  BY <1>1, <1>2, <1>8 DEF TypeOK
<1>13. phase' \in ({"found"} \cup Oriented) \ {"crashed"}
  BY <1>1 DEF Oriented
<1>14. QED BY <1>1, <1>10, <1>11, <1>12, <1>13, AfterSearch

LEMMA OrientSkeletonStep ==
    ASSUME IInv, OrientSkeleton
    PROVE  IInv'
<1>1. Orient(NoSepsets) /\ UNCHANGED <<cpcState, blacklist>>
  BY DEF OrientSkeleton
<1>2. phase \in OrientationPhases
  BY <1>1 DEF Orient, DirectRestricted, EvaluateVStructures, ApplyAtChild, AllApplied, Rule1,
              Rule2, Rule3, EndRound, OrientationPhases
<1>3. ~task.hybrid /\ phase \in {"found"} \cup Oriented
  BY <1>2 DEF IInv, ListsKept, OrientationPhases, Oriented
<1>4. /\ TypeOK /\ ~Contradiction(task) /\ OrientationInv
      /\ restrictions.edgeBlacklist \cap Skeleton(pdag) = {}
  BY <1>2, <1>3 DEF IInv, ListsKept, OrientationPhases
<1>5. OrientationInv' /\ Steady /\ phase' # "crashed"
  BY <1>1, <1>4, OrientStep, Basics
<1>6. /\ phase' \in Oriented /\ task' = task /\ restrictions' = restrictions
      /\ Skeleton(pdag') = Skeleton(pdag)
  BY <1>5 DEF Steady
<1>7. /\ pdag' \in Graphs /\ evaluated' \in [Nodes -> SUBSET Edges] /\ ChildApart'
      /\ toCheck' \subseteq Arcs /\ nextNode' \in Nat /\ changed' \in BOOLEAN
  BY <1>5 DEF OrientationInv
<1>8. (restrictions.edgeBlacklist \cap Skeleton(pdag) = {})'
  BY <1>4, <1>6
<1>9. ListsKept'
  <2>1. phase' \notin {"start", "rejected"} \cup SearchPhases
    BY <1>6 DEF Oriented, SearchPhases
  <2>2. QED BY <1>3, <1>4, <1>5, <1>6, <1>8, <2>1 DEF ListsKept
<1>10. blacklist' \subseteq Arcs
  BY <1>1, <1>4 DEF TypeOK
<1>11. QED BY <1>1, <1>3, <1>5, <1>6, <1>7, <1>9, <1>10, AfterSearch

-------------------------------------------------------------------------------
LEMMA NextIInv == IInv /\ [Next]_vars => IInv'
<1> SUFFICES ASSUME IInv, [Next]_vars PROVE IInv'
  OBVIOUS
<1>1. CASE FindCpcs
  BY <1>1, GenerateStep, MarginalStep, UnivariateStep, StartForwardStep, RecomputeStep, ForwardStep,
     BackwardStep, EndBackwardStep DEF FindCpcs
<1>2. CASE BuildSkeleton
  BY <1>2, BuildSkeletonStep
<1>3. CASE CreateBlacklist
  BY <1>3, CreateBlacklistStep
<1>4. CASE OrientSkeleton
  BY <1>4, OrientSkeletonStep
<1>5. CASE UNCHANGED vars
  <2>1. /\ task' = task /\ restrictions' = restrictions /\ pdag' = pdag /\ phase' = phase
        /\ cpcs' = cpcs /\ toBeChecked' = toBeChecked /\ minAssoc' = minAssoc /\ maxmin' = maxmin
        /\ node' = node /\ lastAdded' = lastAdded /\ remaining' = remaining
        /\ blacklist' = blacklist /\ evaluated' = evaluated
        /\ toCheck' = toCheck /\ nextNode' = nextNode /\ changed' = changed
    BY <1>5 DEF vars, cpcState, searched, problem, rulesState
  <2>2. TypeOK' /\ LoopsInRange' /\ NothingRecorded' /\ ChildApart'
    BY <2>1 DEF IInv, TypeOK, LoopsInRange, NothingRecorded, ChildApart, Whitelisted
  <2>3. MembersAllowed'
    BY <2>1 DEF IInv, MembersAllowed, AllowedPairs, Whitelisted
  <2>4. Frame
    BY <2>1 DEF Frame
  <2>5. \A x, y : (Recorded(x, y)' <=> Recorded(x, y)) /\ (Tested(x, y)' <=> Tested(x, y))
    BY <2>1, <2>4, FrameKeeps DEF Recorded, Tested
  <2>6. \A x : PickRecorded(x)' <=> PickRecorded(x)
    BY <2>1, <2>5 DEF PickRecorded
  <2>7. UnivariateExact' /\ WaitingExact'
    BY <2>1, <2>4, <2>5, <2>6, FrameKeeps DEF IInv, UnivariateExact, WaitingExact, Waiting
  <2>8. ForwardExact'
    BY <2>1, <2>4, FrameKeeps DEF IInv, ForwardExact, AssocExact, Whitelisted
  <2>9. ListsKept'
    BY <2>1 DEF IInv, ListsKept, RestrictionsKept, OrientationInv, ListsHold, NoneForced, NoOverlap,
                ChildApart
  <2>10. QED BY <2>2, <2>3, <2>7, <2>8, <2>9 DEF IInv
<1>6. QED BY <1>1, <1>2, <1>3, <1>4, <1>5 DEF Next, Step, Returned

LEMMA Invariance == Spec => []IInv
<1>1. QED BY InitIInv, NextIInv, PTL DEF Spec

\* The variables of MMPC and MMHC keep their types in every task, and no candidate is
\* both accepted and open (TypeOK).
THEOREM Typing == Spec => []TypeOK
<1>1. IInv => TypeOK
  BY DEF IInv
<1>2. QED BY <1>1, Invariance, PTL

\* The associations of the forward phase at a node without whitelisted neighbours are
\* the weakest over every subset of the other members (AssocExact; update_min_assoc,
\* univariate_cpcs_all_variables).
THEOREM Associations == Spec => []AssocExact
<1>1. IInv => AssocExact
  BY DEF IInv, ForwardExact
<1>2. QED BY <1>1, Invariance, PTL

\* The graph of MMPC keeps the four lists, and the blacklist of MMHC leaves every
\* whitelisted arc and every whitelisted pair to the search (RestrictionsKept).
THEOREM Restricted == Spec => []RestrictionsKept
<1>1. ASSUME IInv, phase = "done", ~task.hybrid
      PROVE  RestrictionsKept
  <2>1. OrientationInv /\ restrictions.edgeBlacklist \cap Skeleton(pdag) = {}
    BY <1>1 DEF IInv, ListsKept, Oriented
  <2>2. QED BY <1>1, <2>1 DEF OrientationInv, ListsHold, RestrictionsKept
<1>2. IInv => RestrictionsKept
  BY <1>1 DEF IInv, ListsKept, RestrictionsKept
<1>3. QED BY <1>2, Invariance, PTL

-------------------------------------------------------------------------------
(* What a faithful test finds.                                             *)

\* The test is faithful to d, and no p-value is Alpha.
Told(d) ==
    /\ Faithful(task, d)
    /\ \A e \in Edges : \A S \in SUBSET (Nodes \ e) :
          IF S \in task.separators[e] THEN task.pvalue[e][S] > Alpha ELSE task.pvalue[e][S] < Alpha

\* The nodes that are joined to x in d.
Near(d, x) == {y \in Nodes : {x, y} \in Skeleton(d)}

\* After the marginal tests: the nodes joined to x are members or open, with a strong
\* association, and all members and open candidates depend on x.
Considered(d, x) ==
    /\ Near(d, x) \subseteq cpcs[x] \cup toBeChecked[x]
    /\ \A y \in Near(d, x) : minAssoc[x][y] < Alpha
    /\ \A y \in cpcs[x] \cup toBeChecked[x] : {} \notin task.separators[{x, y}]
    /\ cpcs[x] = {} => Near(d, x) = {}

\* The forward phase of x has a candidate to begin with while a node joined to x is open.
PickedSoFar(d, x) ==
    /\ maxmin[x].index = Stop => maxmin[x].assoc = Alpha
    /\ \A y \in Near(d, x) \ cpcs[x] :
          x < node \/ (y < node /\ cpcs[y] = cpcs[x]) => maxmin[x].index # Stop

Picked(d, x) == maxmin[x].index # Stop \/ Near(d, x) \subseteq cpcs[x]

\* All nodes joined to x are members, and no other member that the parents of x separate
\* from it.
Complements(d, x, C) ==
    /\ Near(d, x) \subseteq cpcs[x]
    /\ \A y \in C : Parents(d, x) \notin task.separators[{x, y}]

\* The nodes whose turn is over.
Served == {x \in Nodes : phase = "searched" \/ (phase \in NodePhases /\ x < node)}

CpcsExact(d) ==
    /\ phase # "recompute"
    /\ phase = "marginal" => \A x \in Nodes : Near(d, x) \subseteq toBeChecked[x]
    /\ phase \in SearchPhases \ {"marginal"} => \A x \in Nodes : Considered(d, x)
    /\ phase = "univariate" => \A x \in Nodes : PickedSoFar(d, x)
    /\ \A x \in Waiting : Picked(d, x)
    /\ phase = "backward" => Complements(d, node, cpcs[node] \ remaining)
    /\ \A x \in Served : Complements(d, x, cpcs[x])
    /\ ~task.hybrid /\ phase \in {"found"} \cup Oriented => Directed(d)
    /\ task.hybrid /\ phase = "done" => {Ends(a) : a \in Arcs \ blacklist} = Skeleton(d)

ClassInv == \A d \in task.dags : CpcsExact(d)

LEMMA NearFacts ==
    ASSUME TypeOK, NEW d, Told(d)
    PROVE  /\ d \in Graphs /\ IsDag(d) /\ task.separators = Answers(d)
           /\ task.nodes = Nodes /\ task.interface = {} /\ task.arcBlacklist = {}
           /\ restrictions.arcWhitelist = {}
           /\ \A x : Whitelisted(x) = {} /\ Free(x)
           /\ \A x, y \in Nodes : x # y => {x, y} \in Edges /\ {x, y} \in AllowedPairs
           /\ \A x, y \in Nodes : y \in Near(d, x) <=> x \in Near(d, y)
           /\ \A x \in Nodes : /\ x \notin Near(d, x) /\ Near(d, x) \in SUBSET Nodes
                               /\ Parents(d, x) \subseteq Near(d, x)
<1>1. /\ d \in Graphs /\ IsDag(d) /\ task.separators = Answers(d)
      /\ task.nodes = Nodes /\ task.interface = {}
      /\ task.arcBlacklist = {} /\ task.arcWhitelist = {}
      /\ task.edgeBlacklist = {} /\ task.edgeWhitelist = {}
  BY DEF Told, Faithful
<1>2. DerivedWhitelist(task) = {}
  BY <1>1 DEF DerivedWhitelist
<1>3. ValidateRestrictions(task) =
         [arcWhitelist |-> {}, edgeWhitelist |-> {}, arcBlacklist |-> {}, edgeBlacklist |-> {}]
  BY <1>1, <1>2 DEF ValidateRestrictions
<1>4. /\ Checked(task) /\ restrictions.arcWhitelist = {} /\ restrictions.edgeWhitelist = {}
      /\ restrictions.edgeBlacklist = {}
  BY <1>3, Basics
<1>5. \A x : Whitelisted(x) = {} /\ Free(x)
  BY <1>4 DEF Whitelisted, Joined, Free
<1>6. \A x, y \in Nodes : x # y => {x, y} \in Edges /\ {x, y} \in AllowedPairs
  <2>1. \A x, y \in Nodes : x # y => {x, y} \in Complete(task)
    BY <1>1, <1>4, CompletePairs
  <2>2. AllowedPairs = Complete(task) /\ Complete(task) \subseteq Edges
    BY <1>4, AllowedEnds, CompletePairs
  <2>3. QED BY <2>1, <2>2
<1>7. \A x, y \in Nodes : y \in Near(d, x) <=> x \in Near(d, y)
  <2>1. \A x, y : {x, y} = {y, x}
    OBVIOUS
  <2>2. QED BY <2>1 DEF Near
<1>8. ASSUME NEW x \in Nodes
      PROVE  /\ x \notin Near(d, x) /\ Near(d, x) \in SUBSET Nodes
             /\ Parents(d, x) \subseteq Near(d, x)
  <2>1. {x, x} \notin Skeleton(d)
    <3>1. Skeleton(d) \subseteq Edges
      BY <1>1, ReverseArc DEF Skeleton, Graphs
    <3>2. {x, x} = {x}
      OBVIOUS
    <3>3. QED BY <3>1, <3>2, EdgeEnds
  <2>2. ASSUME NEW y \in Parents(d, x)
        PROVE  y \in Near(d, x)
    BY <1>1, <2>2, AdjacentEnds DEF Parents, Near
  <2>3. QED BY <2>1, <2>2 DEF Near
<1>9. QED BY <1>1, <1>4, <1>5, <1>6, <1>7, <1>8

\* The p-values of a faithful test.
LEMMA FaithfulPvalues ==
    ASSUME TypeOK, NEW d, Told(d), NEW x \in Nodes, NEW y \in Nodes, x # y,
           NEW S \in SUBSET (Nodes \ {x, y})
    PROVE  /\ Pvalue(x, y, S) \in Nat
           /\ S \in task.separators[{x, y}] => Pvalue(x, y, S) > Alpha
           /\ S \notin task.separators[{x, y}] => Pvalue(x, y, S) < Alpha
           /\ y \in Near(d, x) => Pvalue(x, y, S) < Alpha /\ task.separators[{x, y}] = {}
<1>1. {x, y} \in Edges /\ {x, y} \in AllowedPairs /\ d \in Graphs /\ IsDag(d) /\ task.separators = Answers(d)
  BY NearFacts
<1>2. S \in SUBSET Nodes
  OBVIOUS
<1>3. Pvalue(x, y, S) \in Nat
  BY <1>1, <1>2, PvalueNat
<1>4. IF S \in task.separators[{x, y}] THEN Pvalue(x, y, S) > Alpha ELSE Pvalue(x, y, S) < Alpha
  BY <1>1 DEF Told, Pvalue
<1>5. y \in Near(d, x) => task.separators[{x, y}] = {}
  BY <1>1, FaithfulAnswers DEF Near
<1>6. QED BY <1>3, <1>4, <1>5

\* A strong association stays strong.
LEMMA StaysStrong ==
    ASSUME NEW m \in Nat, NEW p \in Nat, m < Alpha, p < Alpha
    PROVE  Higher(m, p) \in Nat /\ Higher(m, p) < Alpha
BY DEF Higher

\* If the backward phase has less than two members to look at, it has nothing to remove.
LEMMA NothingToRemove ==
    ASSUME TypeOK, NEW d, Told(d), NEW x \in Nodes, NEW C \in SUBSET (Nodes \ {x}),
           \A y \in C : {} \notin task.separators[{x, y}], Near(d, x) \subseteq C,
           ~(Cardinality(C) > 1), NEW y \in C
    PROVE  Parents(d, x) \notin task.separators[{x, y}]
<1>1. Parents(d, x) \subseteq Near(d, x) /\ y \in Nodes /\ x # y
  BY NearFacts
<1>2. C = {y}
  <2>1. IsFiniteSet(C)
    BY NodesAssumption, FS_Subset
  <2>2. ASSUME NEW z \in C, z # y
        PROVE  FALSE
    <3> DEFINE T == {y, z}
    <3>1. T \in SUBSET C
      BY <2>2
    <3>2. Cardinality(T) = 2
      <4> DEFINE W == {z}
      <4>1. IsFiniteSet(W) /\ Cardinality(W) = 1
        BY FS_Singleton
      <4>2. y \notin W /\ T = W \cup {y}
        BY <2>2
      <4> HIDE DEF T, W
      <4>3. Cardinality(W \cup {y}) = 1 + 1
        BY <4>1, <4>2, FS_AddElement
      <4>4. QED BY <4>2, <4>3
    <3> HIDE DEF T
    <3>3. Cardinality(T) <= Cardinality(C) /\ Cardinality(C) \in Nat
      BY <2>1, <3>1, FS_Subset, FS_CardinalityType
    <3>4. QED BY <3>2, <3>3
  <2>3. QED BY <2>2
<1>3. CASE Parents(d, x) = {}
  BY <1>3
<1>4. CASE Parents(d, x) # {}
  <2>1. y \in Near(d, x)
    BY <1>1, <1>2, <1>4
  <2>2. {} \in SUBSET (Nodes \ {x, y})
    OBVIOUS
  <2>3. QED BY <1>1, <2>1, <2>2, FaithfulPvalues
<1>5. QED BY <1>3, <1>4

\* With all CPCs complete, the pairs in each other's CPC are those d joins: the parents of
\* one of two other nodes separate them.
LEMMA PairsFound ==
    ASSUME TypeOK, NEW d, Told(d), \A x \in Nodes : Complements(d, x, cpcs[x])
    PROVE  SymmetricPairs = Skeleton(d)
<1>1. d \in Graphs /\ IsDag(d) /\ task.separators = Answers(d)
  BY NearFacts
<1>2. ASSUME NEW e \in Skeleton(d)
      PROVE  e \in SymmetricPairs
  <2>1. e \in Edges
    BY <1>1, ReverseArc DEF Skeleton, Graphs
  <2>2. ASSUME NEW x \in e, NEW y \in e, x # y
        PROVE  y \in cpcs[x]
    <3>1. x \in Nodes /\ y \in Nodes /\ e = {x, y}
      BY <2>1, <2>2, EdgeEnds
    <3>2. y \in Near(d, x)
      BY <3>1 DEF Near
    <3>3. QED BY <3>1, <3>2 DEF Complements
  <2>3. QED BY <2>1, <2>2 DEF SymmetricPairs
<1>3. ASSUME NEW e \in SymmetricPairs, e \notin Skeleton(d)
      PROVE  FALSE
  <2>1. e \in Edges
    BY DEF SymmetricPairs
  <2>2. PICK z \in e : Parents(d, z) \in task.separators[e]
    BY <1>1, <1>3, <2>1, FaithfulAnswers
  <2>3. PICK y \in Nodes : y # z /\ e = {z, y} /\ z \in Nodes
    BY <2>1, EdgeEnds
  <2>4. y \in cpcs[z]
    BY <2>3 DEF SymmetricPairs
  <2>5. QED BY <2>2, <2>3, <2>4 DEF Complements
<1>4. QED BY <1>2, <1>3

LEMMA BuildFinds ==
    ASSUME IInv, NEW d, Told(d), CpcsExact(d), BuildSkeleton \/ CreateBlacklist
    PROVE  CpcsExact(d)'
<1>1. /\ phase = "searched" /\ UNCHANGED task /\ phase' \in {"found", "done"}
      /\ phase' = "found" <=> ~task.hybrid
  BY DEF BuildSkeleton, CreateBlacklist, searched, problem
<1>2. TypeOK /\ SymmetricPairs = Skeleton(d)
  <2>1. \A x \in Nodes : Complements(d, x, cpcs[x])
    BY <1>1 DEF CpcsExact, Served
  <2>2. QED BY <2>1, PairsFound DEF IInv
<1>3. /\ d \in Graphs /\ IsDag(d) /\ task.nodes = Nodes /\ task.interface = {} /\ task.arcBlacklist = {}
      /\ restrictions.arcWhitelist = {}
  BY <1>2, NearFacts
<1>4. pdag = [arcs |-> {}, edges |-> {}] /\ Skeleton(pdag) = {}
  <2>1. pdag = [arcs |-> {}, edges |-> {}]
    BY <1>1, <1>3 DEF IInv, ListsKept, SearchPhases
  <2>2. QED BY <2>1 DEF Skeleton
<1>5. CASE BuildSkeleton
  <2>1. phase' = "found" /\ ~task.hybrid
    BY <1>5 DEF BuildSkeleton
  <2>2. pdag'.arcs = {} /\ pdag'.edges = Skeleton(d)
    BY <1>2, <1>3, <1>4, <1>5 DEF BuildSkeleton
  <2>3. Skeleton(pdag') = Skeleton(d)
    BY <2>2 DEF Skeleton
  <2>4. Directed(d)'
    BY <2>1, <2>2, <2>3 DEF Directed, Ruling, RoundInv
  <2>5. QED BY <1>1, <2>1, <2>4 DEF CpcsExact, Waiting, Served, NodePhases, SearchPhases
<1>6. CASE CreateBlacklist
  <2>1. phase' = "done" /\ task.hybrid
    BY <1>6 DEF CreateBlacklist
  <2>2. \A a \in Arcs : Ends(a) \subseteq Nodes
    BY ReverseArc, EdgeEnds
  <2>3. Arcs \ blacklist' = {a \in Arcs : Ends(a) \in Skeleton(d)}
    BY <1>2, <1>3, <1>6, <2>2 DEF CreateBlacklist
  <2>4. Skeleton(d) \subseteq Edges
    BY <1>3, ReverseArc DEF Skeleton, Graphs
  <2>5. {Ends(a) : a \in Arcs \ blacklist'} = Skeleton(d)
    BY <2>3, <2>4 DEF Edges
  <2>6. QED BY <1>1, <2>1, <2>5 DEF CpcsExact, Waiting, Served, NodePhases, SearchPhases
<1>7. QED BY <1>5, <1>6

LEMMA OrientFinds ==
    ASSUME IInv, NEW d, Told(d), CpcsExact(d), OrientSkeleton
    PROVE  CpcsExact(d)'
<1>1. Orient(NoSepsets)
  BY DEF OrientSkeleton
<1>2. phase \in OrientationPhases
  BY <1>1 DEF Orient, DirectRestricted, EvaluateVStructures, ApplyAtChild, AllApplied, Rule1,
              Rule2, Rule3, EndRound, OrientationPhases
<1>3. /\ ~task.hybrid /\ phase \in {"found"} \cup Oriented /\ OrientationInv /\ TypeOK
      /\ Faithful(task, d)
  BY <1>2 DEF IInv, ListsKept, OrientationPhases, Oriented, Told
<1>4. phase' \in Oriented /\ task' = task
  BY <1>1, <1>3, OrientStep, Basics DEF Steady
<1>5. Directed(d) /\ ~task.useSepsets
  BY <1>3, Basics DEF CpcsExact
<1>6. phase = "evaluate" => Evaluates(NoSepsets, d)
  <2>1. SUFFICES ASSUME phase = "evaluate" PROVE Evaluates(NoSepsets, d)
    OBVIOUS
  <2>2. Skeleton(pdag) = Skeleton(d) /\ pdag.arcs = {}
    BY <1>5, <2>1 DEF Directed
  <2>3. QED BY <1>3, <1>5, <2>2, EvaluatesFaithfully
<1>7. Directed(d)'
  BY <1>1, <1>3, <1>5, <1>6, OrientDirects
<1>8. QED BY <1>3, <1>4, <1>7 DEF CpcsExact, Oriented, Waiting, Served, NodePhases, SearchPhases

\* Of finitely many strongest candidates there is one; a candidate that is stronger than
\* what was picked before is not passed over.
LEMMA StrongestFinds ==
    ASSUME NEW C \in SUBSET Nodes, NEW assoc, \A y \in C : assoc[y] \in Nat,
           NEW old, old.assoc \in Nat, NEW y \in C, assoc[y] < old.assoc,
           NEW best \in Strongest(assoc, C, old)
    PROVE  \E z \in C : best = [assoc |-> assoc[z], index |-> z]
<1> DEFINE A == {assoc[z] : z \in C}
           strongest == {x \in C : assoc[x] < old.assoc /\ \A z \in C : assoc[x] <= assoc[z]}
<1>1. A \in SUBSET Nat /\ A # {}
  OBVIOUS
<1>2. PICK a \in A : \A b \in A : a <= b
  <2> HIDE DEF A
  <2>1. QED BY <1>1, LeastNatural
<1>3. PICK x \in C : assoc[x] = a
  BY <1>2
<1>4. \A z \in C : assoc[x] <= assoc[z]
  BY <1>2, <1>3
<1>5. assoc[x] < old.assoc
  BY <1>4
<1>6. strongest # {}
  BY <1>4, <1>5
<1>7. best \in {[assoc |-> assoc[z], index |-> z] : z \in strongest}
  BY <1>6 DEF Strongest
<1>8. QED BY <1>7

\* Among the dependent nodes there is a first.
LEMMA FirstPickFinds ==
    ASSUME NEW x, NEW D \in SUBSET Nodes, NEW y \in D, \A z \in D : Pvalue(x, z, {}) \in Nat
    PROVE  FirstPick(x, D) # {}
<1> DEFINE A == {Pvalue(x, z, {}) : z \in D}
<1>1. A \in SUBSET Nat /\ A # {}
  OBVIOUS
<1>2. PICK p \in A : \A q \in A : p <= q
  <2> HIDE DEF A
  <2>1. QED BY <1>1, LeastNatural
<1> DEFINE E == {z \in D : Pvalue(x, z, {}) = p}
<1>3. E \in SUBSET Nat /\ E # {}
  BY <1>2, NodesAssumption
<1>4. PICK m \in E : \A z \in E : m <= z
  <2> HIDE DEF E
  <2>1. QED BY <1>3, LeastNatural
<1>5. ASSUME NEW z \in D
      PROVE  Pvalue(x, m, {}) < Pvalue(x, z, {}) \/ (Pvalue(x, m, {}) = Pvalue(x, z, {}) /\ m <= z)
  <2>1. p <= Pvalue(x, z, {}) /\ p \in Nat /\ Pvalue(x, z, {}) \in Nat /\ Pvalue(x, m, {}) = p
    BY <1>1, <1>2, <1>4
  <2>2. Pvalue(x, z, {}) = p => m <= z
    BY <1>4
  <2>3. QED BY <2>1, <2>2
<1>6. m \in FirstPick(x, D)
  BY <1>4, <1>5 DEF FirstPick
<1>7. QED BY <1>6

-------------------------------------------------------------------------------
(* The steps over all nodes.                                               *)

LEMMA GenerateFinds ==
    ASSUME IInv, NEW d, Told(d), CpcsExact(d), GenerateCpcs
    PROVE  CpcsExact(d)'
<1>1. /\ phase = "start" /\ UNCHANGED task /\ phase' \in {"rejected", "marginal"}
      /\ phase' = "marginal" =>
            toBeChecked' = [x \in Nodes |-> {y \in Nodes : {x, y} \in AllowedPairs} \ Whitelisted(x)]
  BY DEF GenerateCpcs, searched, problem
<1>2. ASSUME phase' = "marginal", NEW x \in Nodes
      PROVE  Near(d, x) \subseteq toBeChecked'[x]
  <2>1. /\ \A y \in Nodes : x # y => {x, y} \in AllowedPairs
        /\ Whitelisted(x) = {} /\ x \notin Near(d, x) /\ Near(d, x) \in SUBSET Nodes
    BY NearFacts DEF IInv
  <2>2. toBeChecked'[x] = {y \in Nodes : {x, y} \in AllowedPairs} \ Whitelisted(x)
    BY <1>1, <1>2
  <2>3. QED BY <2>1, <2>2
<1>3. QED BY <1>1, <1>2 DEF CpcsExact, Oriented, Waiting, Served, NodePhases, SearchPhases

LEMMA MarginalFinds ==
    ASSUME IInv, NEW d, Told(d), CpcsExact(d), Marginal
    PROVE  CpcsExact(d)'
<1> DEFINE open == {e \in AllowedPairs : \E x \in e : cpcs[x] = {}}
           dependent(x) == {y \in Nodes : {x, y} \in open /\ Pvalue(x, y, {}) < Alpha}
           rejected(x) == {y \in Nodes : {x, y} \in open /\ Pvalue(x, y, {}) >= Alpha}
           first(x) == IF cpcs[x] = {} THEN FirstPick(x, dependent(x)) ELSE {}
<1>1. /\ phase = "marginal" /\ UNCHANGED <<task, maxmin, node>>
      /\ minAssoc' = [x \in Nodes |-> [y \in Nodes |->
             IF cpcs[x] = {} /\ y \in dependent(x) THEN Pvalue(x, y, {}) ELSE 0]]
      /\ cpcs' = [x \in Nodes |-> cpcs[x] \cup first(x)]
      /\ toBeChecked' = [x \in Nodes |-> (toBeChecked[x] \ first(x)) \ rejected(x)]
      /\ phase' = IF \A x \in Nodes : first(x) = {} THEN "searched" ELSE "univariate"
  BY DEF Marginal, searched, problem, LeftToCheck
<1>2. /\ TypeOK /\ node = 0 /\ maxmin = [x \in Nodes |-> None] /\ cpcs = [x \in Nodes |-> Whitelisted(x)]
      /\ \A x, y \in Nodes : y \in toBeChecked[x] => {x, y} \in AllowedPairs
      /\ toBeChecked \in [Nodes -> SUBSET Nodes]
      /\ \A x \in Nodes : x \notin toBeChecked[x]
  BY <1>1 DEF IInv, LoopsInRange, NothingRecorded, MembersAllowed, TypeOK
<1>3. /\ \A x \in Nodes : cpcs[x] = {}
      /\ \A x, y \in Nodes : x # y => {x, y} \in AllowedPairs
      /\ \A x \in Nodes : x \notin Near(d, x) /\ Near(d, x) \in SUBSET Nodes /\ Near(d, x) \subseteq toBeChecked[x]
  BY <1>1, <1>2, NearFacts DEF CpcsExact
<1>4. \A x, y \in Nodes : x # y => {x, y} \in open
  BY <1>3
<1>5. ASSUME NEW x \in Nodes, NEW y \in Nodes, x # y
      PROVE  /\ Pvalue(x, y, {}) \in Nat
             /\ y \in dependent(x) <=> {} \notin task.separators[{x, y}]
             /\ y \in rejected(x) <=> {} \in task.separators[{x, y}]
             /\ y \in Near(d, x) => y \in dependent(x)
  <2>1. {} \in SUBSET (Nodes \ {x, y}) /\ Alpha \in Nat
    BY <1>2, Basics
  <2>2. /\ Pvalue(x, y, {}) \in Nat
        /\ {} \in task.separators[{x, y}] => Pvalue(x, y, {}) > Alpha
        /\ {} \notin task.separators[{x, y}] => Pvalue(x, y, {}) < Alpha
        /\ y \in Near(d, x) => Pvalue(x, y, {}) < Alpha
    BY <1>2, <1>5, <2>1, FaithfulPvalues
  <2>3. /\ y \in dependent(x) <=> Pvalue(x, y, {}) < Alpha
        /\ y \in rejected(x) <=> Pvalue(x, y, {}) >= Alpha
    BY <1>4, <1>5
  <2> HIDE DEF dependent, rejected
  <2>4. QED BY <2>1, <2>2, <2>3
<1>6. ASSUME NEW x \in Nodes
      PROVE  /\ dependent(x) \in SUBSET (Nodes \ {x}) /\ first(x) \subseteq dependent(x)
             /\ first(x) = {} => dependent(x) = {}
  <2>1. dependent(x) \in SUBSET (Nodes \ {x})
    <3>1. {x} \notin AllowedPairs
      <4>1. AllowedPairs \subseteq Edges /\ x \in {x}
        BY <1>2, AllowedEnds
      <4>2. QED BY <4>1, EdgeEnds
    <3>2. \A y : y = x => {x, y} = {x}
      OBVIOUS
    <3>3. QED BY <3>1, <3>2
  <2>2. first(x) = FirstPick(x, dependent(x))
    BY <1>3
  <2> HIDE DEF dependent, first
  <2>3. first(x) \subseteq dependent(x)
    BY <2>2 DEF FirstPick
  <2>4. ASSUME NEW y \in dependent(x)
        PROVE  FirstPick(x, dependent(x)) # {}
    <3> DEFINE D == dependent(x)
    <3>1. D \in SUBSET Nodes /\ y \in D /\ \A z \in D : Pvalue(x, z, {}) \in Nat
      BY <1>5, <2>1, <2>4
    <3> HIDE DEF D
    <3>2. FirstPick(x, D) # {}
      BY <3>1, FirstPickFinds
    <3>3. QED BY <3>2 DEF D
  <2>5. QED BY <2>1, <2>2, <2>3, <2>4
<1>7. ASSUME NEW x \in Nodes
      PROVE  /\ cpcs'[x] = first(x) /\ toBeChecked'[x] = (toBeChecked[x] \ first(x)) \ rejected(x)
             /\ \A y \in dependent(x) : minAssoc'[x][y] = Pvalue(x, y, {})
  BY <1>1, <1>3
<1> HIDE DEF open, dependent, rejected, first
<1>8. ASSUME NEW x \in Nodes
      PROVE  Considered(d, x)' /\ (cpcs'[x] = {} => Complements(d, x, cpcs[x])')
  <2>1. Near(d, x) \subseteq cpcs'[x] \cup toBeChecked'[x]
    <3>1. ASSUME NEW y \in Near(d, x)
          PROVE  y \in toBeChecked[x] /\ y \notin rejected(x)
      <4>1. y \in Nodes /\ x # y /\ y \in toBeChecked[x]
        BY <1>3
      <4>2. QED BY <1>5, <4>1
    <3>2. QED BY <1>7, <3>1
  <2>2. ASSUME NEW y \in Near(d, x)
        PROVE  minAssoc'[x][y] < Alpha
    <3>1. y \in Nodes /\ x # y
      BY <1>3
    <3>2. y \in dependent(x) /\ {} \in SUBSET (Nodes \ {x, y})
      BY <1>5, <3>1
    <3>3. Pvalue(x, y, {}) < Alpha
      BY <1>2, <3>1, <3>2, FaithfulPvalues
    <3>4. QED BY <1>7, <3>2, <3>3
  <2>3. ASSUME NEW y \in cpcs'[x] \cup toBeChecked'[x]
        PROVE  {} \notin task.separators[{x, y}]
    <3>1. CASE y \in cpcs'[x]
      BY <1>5, <1>6, <1>7, <3>1
    <3>2. CASE y \in toBeChecked'[x]
      <4>1. y \in toBeChecked[x] /\ y \notin rejected(x)
        BY <1>7, <3>2
      <4>2. y \in Nodes /\ x # y
        BY <1>2, <4>1
      <4>3. QED BY <1>5, <4>1, <4>2
    <3>3. QED BY <2>3, <3>1, <3>2
  <2>4. cpcs'[x] = {} => Near(d, x) = {}
    <3>1. \A y \in Near(d, x) : y \in dependent(x)
      BY <1>3, <1>5
    <3>2. QED BY <1>6, <1>7, <3>1
  <2>5. Considered(d, x)'
    BY <1>1, <2>1, <2>2, <2>3, <2>4 DEF Considered
  <2>6. cpcs'[x] = {} => Complements(d, x, cpcs[x])'
    BY <1>1, <2>4 DEF Complements
  <2>7. QED BY <2>5, <2>6
<1>9. CASE phase' = "searched"
  <2>1. \A x \in Nodes : cpcs'[x] = {}
    BY <1>1, <1>7, <1>9
  <2>2. \A x \in Served' : Complements(d, x, cpcs[x])'
    BY <1>8, <2>1 DEF Served
  <2>3. Waiting' = {}
    BY <1>9 DEF Waiting
  <2>4. QED BY <1>8, <1>9, <2>2, <2>3 DEF CpcsExact, Oriented
<1>10. CASE phase' = "univariate"
  <2>1. \A x \in Nodes : maxmin'[x] = None /\ ~(x < node')
    <3>1. \A x \in Nodes : maxmin'[x] = None
      BY <1>1, <1>2
    <3>2. node' = 0 /\ Nodes \subseteq Nat
      BY <1>1, <1>2, NodesAssumption
    <3>3. QED BY <3>1, <3>2
  <2>2. \A x \in Nodes : PickedSoFar(d, x)'
    <3>1. None.index = Stop /\ None.assoc = Alpha
      BY DEF None
    <3>2. \A x \in Nodes : Near(d, x) \subseteq Nodes
      BY <1>3
    <3>3. QED BY <2>1, <3>1, <3>2 DEF PickedSoFar
  <2>3. Waiting' = {} /\ Served' = {}
    BY <1>10 DEF Waiting, Served, NodePhases
  <2>4. QED BY <1>8, <1>10, <2>2, <2>3 DEF CpcsExact, Oriented
<1>11. QED BY <1>1, <1>9, <1>10

\* After its turn a node that has an open neighbour in d has picked a candidate.
LEMMA UnivariateFinds ==
    ASSUME IInv, NEW d, Told(d), CpcsExact(d), Univariate
    PROVE  CpcsExact(d)'
<1> DEFINE x == node
           single == Cardinality(cpcs[x]) = 1
           repeated(y) == cpcs[y] = cpcs[x] /\ x \in toBeChecked[y]
           tested == {y \in toBeChecked[x] : single /\ (repeated(y) => x < y)}
           p(y) == Pvalue(x, y, cpcs[x])
           assoc == [y \in Nodes |-> IF y \in tested THEN Higher(minAssoc[x][y], p(y)) ELSE minAssoc[x][y]]
           both == {y \in tested : repeated(y)}
           back(y) == Higher(minAssoc[y][x], p(y))
<1>1. PICK best \in Strongest(assoc, tested, maxmin[x]) :
         /\ minAssoc' = [y \in Nodes |->
                IF y = x THEN assoc
                ELSE IF y \in both THEN [minAssoc[y] EXCEPT ![x] = back(y)] ELSE minAssoc[y]]
         /\ toBeChecked' = [y \in Nodes |->
                IF y = x THEN toBeChecked[x] \ {z \in tested : assoc[z] > Alpha}
                ELSE IF y \in both /\ back(y) > Alpha THEN toBeChecked[y] \ {x} ELSE toBeChecked[y]]
         /\ maxmin' = [y \in Nodes |->
                IF y = x THEN best
                ELSE IF y \in both /\ back(y) < maxmin[y].assoc
                     THEN [assoc |-> back(y), index |-> x] ELSE maxmin[y]]
  BY DEF Univariate
<1>2. /\ phase = "univariate" /\ NextNode("univariate", "forward_start")
      /\ cpcs' = cpcs /\ task' = task
  BY DEF Univariate, searched, problem
<1>3. /\ TypeOK /\ node \in task.nodes /\ x \in Nodes /\ Nodes \subseteq Nat /\ Alpha \in Nat
      /\ Stop \notin Nodes
      /\ cpcs \in [Nodes -> SUBSET Nodes] /\ toBeChecked \in [Nodes -> SUBSET Nodes]
      /\ minAssoc \in [Nodes -> [Nodes -> Nat]]
      /\ maxmin \in [Nodes -> [assoc : 0 .. Alpha, index : Nodes \cup {Stop}]]
      /\ \A u \in Nodes : u \notin cpcs[u] \cup toBeChecked[u]
      /\ \A u \in Nodes : cpcs[u] \cap toBeChecked[u] = {}
  BY Basics DEF IInv, LoopsInRange, TypeOK, Stop
<1>4. /\ node' \in task.nodes /\ node' \in Nat /\ task.nodes = Nodes
      /\ \/ node' = node + 1 /\ phase' = "univariate"
         \/ node' = 0 /\ phase' = "forward_start" /\ \A u \in Nodes : u <= node
  BY <1>2, <1>3, TurnPasses, NearFacts
<1>5. \A u \in Nodes : /\ Considered(d, u) /\ PickedSoFar(d, u)
                       /\ u \notin Near(d, u) /\ Near(d, u) \in SUBSET Nodes
                       /\ \A y \in Nodes : y \in Near(d, u) <=> u \in Near(d, y)
  BY <1>2, <1>3, NearFacts DEF CpcsExact, SearchPhases
<1>6. ASSUME NEW y \in toBeChecked[x]
      PROVE  /\ y \in Nodes /\ y # x /\ p(y) \in Nat
             /\ minAssoc[x][y] \in Nat /\ minAssoc[y][x] \in Nat
             /\ Higher(minAssoc[x][y], p(y)) \in Nat /\ back(y) \in Nat
             /\ y \in Near(d, x) => Higher(minAssoc[x][y], p(y)) < Alpha /\ back(y) < Alpha
  <2>1. y \in Nodes /\ y # x
    BY <1>3
  <2>2. cpcs[x] \in SUBSET (Nodes \ {x, y})
    BY <1>3
  <2>3. p(y) \in Nat /\ (y \in Near(d, x) => p(y) < Alpha)
    BY <1>3, <2>1, <2>2, FaithfulPvalues
  <2>4. minAssoc[x][y] \in Nat /\ minAssoc[y][x] \in Nat
    BY <1>3, <2>1
  <2>5. y \in Near(d, x) => minAssoc[x][y] < Alpha /\ minAssoc[y][x] < Alpha
    BY <1>3, <1>5, <2>1 DEF Considered
  <2> HIDE DEF x, p
  <2>6. Higher(minAssoc[x][y], p(y)) \in Nat /\ back(y) \in Nat
    BY <2>3, <2>4 DEF Higher
  <2>7. y \in Near(d, x) => Higher(minAssoc[x][y], p(y)) < Alpha /\ back(y) < Alpha
    BY <2>3, <2>4, <2>5, StaysStrong
  <2>8. QED BY <2>1, <2>3, <2>4, <2>6, <2>7
<1>7. /\ tested \subseteq toBeChecked[x] /\ both \subseteq tested
      /\ \A y : y \in both <=> y \in toBeChecked[x] /\ single /\ x < y /\ repeated(y)
      /\ \A y : y \in tested <=> y \in toBeChecked[x] /\ single /\ (repeated(y) => x < y)
  OBVIOUS
<1>8. /\ \A y \in tested : assoc[y] = Higher(minAssoc[x][y], p(y))
      /\ \A y \in Nodes : y \notin tested => assoc[y] = minAssoc[x][y]
  BY <1>6, <1>7
<1>9. Near(d, x) # {} => single
  <2>1. SUFFICES ASSUME Near(d, x) # {} PROVE single
    OBVIOUS
  <2>2. PICK c : c \in cpcs[x]
    <3>1. Considered(d, x)
      BY <1>3, <1>5
    <3>2. cpcs[x] # {}
      BY <2>1, <3>1 DEF Considered
    <3> HIDE DEF x
    <3>3. QED BY <3>2
  <2>3. Single(cpcs[x])
    BY <1>2, <1>3, NearFacts DEF IInv, UnivariateExact
  <2>4. cpcs[x] = {c}
    BY <2>2, <2>3 DEF Single
  <2>5. QED BY <2>4, FS_Singleton
<1> HIDE DEF x, single, tested, p, assoc, both, back
<1>10. /\ minAssoc'[x] = assoc /\ maxmin'[x] = best
       /\ toBeChecked'[x] = toBeChecked[x] \ {z \in tested : assoc[z] > Alpha}
       /\ \A u \in Nodes : u # x /\ u \notin both =>
             minAssoc'[u] = minAssoc[u] /\ toBeChecked'[u] = toBeChecked[u] /\ maxmin'[u] = maxmin[u]
  BY <1>1, <1>3
<1>11. ASSUME NEW u \in both
       PROVE  /\ u \in Nodes /\ u # x
              /\ minAssoc'[u] = [minAssoc[u] EXCEPT ![x] = back(u)]
              /\ toBeChecked'[u] = IF back(u) > Alpha THEN toBeChecked[u] \ {x} ELSE toBeChecked[u]
              /\ maxmin'[u] = IF back(u) < maxmin[u].assoc
                              THEN [assoc |-> back(u), index |-> x] ELSE maxmin[u]
  BY <1>1, <1>6, <1>7, <1>11
<1>12. best = maxmin[x] \/ \E z \in tested : best = [assoc |-> assoc[z], index |-> z]
  BY <1>1 DEF Strongest
<1>13. ASSUME NEW u \in Nodes
       PROVE  Considered(d, u)'
  <2>1. toBeChecked'[u] \subseteq toBeChecked[u] /\ Near(d, u) \cap toBeChecked[u] \subseteq toBeChecked'[u]
    <3>1. CASE u = x
      <4>1. ASSUME NEW z \in tested, z \in Near(d, x)
            PROVE  ~(assoc[z] > Alpha)
        <5>1. assoc[z] \in Nat /\ assoc[z] < Alpha
          BY <1>6, <1>7, <1>8, <4>1
        <5>2. QED BY <1>3, <5>1
      <4>2. QED BY <1>10, <3>1, <4>1
    <3>2. CASE u # x /\ u \in both
      <4>1. x \in Near(d, u) => back(u) \in Nat /\ back(u) < Alpha
        BY <1>3, <1>5, <1>6, <1>7, <3>2
      <4>2. x \in Near(d, u) => ~(back(u) > Alpha)
        BY <1>3, <4>1
      <4>3. QED BY <1>11, <3>2, <4>2
    <3>3. CASE u # x /\ u \notin both
      BY <1>10, <3>3
    <3>4. QED BY <3>1, <3>2, <3>3
  <2>2. ASSUME NEW y \in Near(d, u)
        PROVE  minAssoc'[u][y] < Alpha
    <3>1. y \in Nodes /\ minAssoc[u][y] < Alpha
      BY <1>5 DEF Considered
    <3>2. CASE u = x
      <4>1. CASE y \in tested
        <5>1. y \in toBeChecked[x] /\ y \in Near(d, x)
          BY <1>7, <3>2, <4>1
        <5>2. Higher(minAssoc[x][y], p(y)) < Alpha
          BY <1>6, <5>1
        <5>3. QED BY <1>8, <1>10, <3>2, <4>1, <5>2
      <4>2. CASE y \notin tested
        BY <1>8, <1>10, <3>1, <3>2, <4>2
      <4>3. QED BY <4>1, <4>2
    <3>3. CASE u # x /\ u \in both
      <4>1. minAssoc'[u][y] = IF y = x THEN back(u) ELSE minAssoc[u][y]
        <5>1. minAssoc[u] \in [Nodes -> Nat] /\ minAssoc'[u] = [minAssoc[u] EXCEPT ![x] = back(u)]
          BY <1>3, <1>11, <3>3
        <5> DEFINE m == minAssoc[u]
        <5> HIDE DEF m
        <5>2. m \in [Nodes -> Nat] /\ minAssoc'[u] = [m EXCEPT ![x] = back(u)]
          BY <5>1 DEF m
        <5>3. minAssoc'[u][y] = IF y = x THEN back(u) ELSE m[y]
          BY <3>1, <5>2
        <5>4. QED BY <5>3 DEF m
      <4>2. y = x => back(u) < Alpha
        BY <1>3, <1>5, <1>6, <1>7, <3>3
      <4>3. QED BY <3>1, <4>1, <4>2
    <3>4. CASE u # x /\ u \notin both
      BY <1>10, <3>1, <3>4
    <3>5. QED BY <3>2, <3>3, <3>4
  <2>3. QED BY <1>2, <1>5, <2>1, <2>2 DEF Considered
<1>14. ASSUME NEW u \in Nodes, maxmin'[u].index = Stop
       PROVE  maxmin'[u] = maxmin[u]
  <2>1. CASE u = x
    <3>1. \A z \in tested : z # Stop
      BY <1>3, <1>6, <1>7
    <3>2. QED BY <1>10, <1>12, <1>14, <2>1, <3>1
  <2>2. CASE u # x /\ u \in both
    <3> DEFINE new == [assoc |-> back(u), index |-> x]
    <3>1. new.index # Stop
      <4>1. new.index = x
        OBVIOUS
      <4>2. QED BY <1>3, <4>1
    <3>2. maxmin'[u] = IF back(u) < maxmin[u].assoc THEN new ELSE maxmin[u]
      BY <1>11, <2>2
    <3> HIDE DEF new
    <3>3. QED BY <1>14, <3>1, <3>2
  <2>3. CASE u # x /\ u \notin both
    BY <1>10, <2>3
  <2>4. QED BY <2>1, <2>2, <2>3
<1>15. ASSUME NEW u \in Nodes, NEW y \in Near(d, u) \ cpcs[u],
              u <= node \/ (y <= node /\ cpcs[y] = cpcs[u]),
              maxmin'[u].index = Stop
       PROVE  FALSE
  <2>1. /\ maxmin'[u] = maxmin[u] /\ maxmin[u].index = Stop /\ maxmin[u].assoc = Alpha
        /\ ~(u < node) /\ ~(y < node /\ cpcs[y] = cpcs[u])
    BY <1>5, <1>14, <1>15 DEF PickedSoFar
  <2>2. y \in Nodes /\ y \in toBeChecked[u] /\ u \in Nat /\ y \in Nat /\ node \in Nat
    BY <1>3, <1>5, <1>15 DEF Considered, x
  <2>3. CASE u = x
    <3>1. y \in toBeChecked[x] /\ single
      BY <1>9, <1>15, <2>2, <2>3
    <3>2. y # x /\ (cpcs[y] = cpcs[x] => x < y)
      <4>1. y # x
        BY <1>6, <3>1
      <4>2. cpcs[y] = cpcs[x] => ~(y < node)
        BY <2>1, <2>3
      <4>3. QED BY <2>2, <4>1, <4>2 DEF x
    <3>3. y \in tested
      BY <1>7, <3>1, <3>2
    <3>4. assoc[y] < maxmin[x].assoc /\ maxmin[x].assoc \in Nat
      <4>1. assoc[y] < Alpha
        BY <1>6, <1>8, <1>15, <2>3, <3>1, <3>3
      <4>2. QED BY <1>3, <2>1, <2>3, <4>1
    <3>5. tested \in SUBSET Nodes /\ \A z \in tested : assoc[z] \in Nat
      BY <1>6, <1>7, <1>8
    <3>6. PICK z \in tested : best = [assoc |-> assoc[z], index |-> z]
      <4> DEFINE old == maxmin[x]
      <4>1. old.assoc \in Nat /\ assoc[y] < old.assoc /\ best \in Strongest(assoc, tested, old)
        BY <1>1, <3>4
      <4> HIDE DEF old
      <4>2. QED BY <3>3, <3>5, <4>1, StrongestFinds
    <3>7. maxmin'[u].index = z
      BY <1>10, <2>3, <3>6
    <3>8. QED BY <1>3, <1>15, <3>5, <3>7
  <2>4. CASE u # x
    <3>1. y = x /\ cpcs[x] = cpcs[u] /\ x < u
      BY <1>15, <2>1, <2>2, <2>4 DEF x
    <3>2. u \in Near(d, x) /\ u \notin cpcs[x] /\ x \in Near(d, u)
      BY <1>3, <1>5, <1>15, <3>1
    <3>3. u \in toBeChecked[x] /\ x \in toBeChecked[u]
      BY <1>3, <1>5, <2>2, <3>1, <3>2 DEF Considered
    <3>4. u \in both
      BY <1>7, <1>9, <3>1, <3>2, <3>3
    <3>5. back(u) < Alpha
      BY <1>6, <3>2, <3>3
    <3>6. maxmin'[u].index = x
      <4> DEFINE new == [assoc |-> back(u), index |-> x]
      <4>1. maxmin'[u] = IF back(u) < maxmin[u].assoc THEN new ELSE maxmin[u]
        BY <1>11, <3>4
      <4>2. new.index = x
        OBVIOUS
      <4> HIDE DEF new
      <4>3. maxmin'[u] = new
        BY <2>1, <3>5, <4>1
      <4>4. QED BY <4>2, <4>3
    <3>7. QED BY <1>3, <1>15, <3>6
  <2>5. QED BY <2>3, <2>4
<1>16. CASE node' = node + 1 /\ phase' = "univariate"
  <2>1. ASSUME NEW u \in Nodes
        PROVE  PickedSoFar(d, u)'
    <3>1. maxmin'[u].index = Stop => maxmin'[u].assoc = Alpha
      BY <1>5, <1>14 DEF PickedSoFar
    <3>2. ASSUME NEW y \in Near(d, u) \ cpcs[u], u < node' \/ (y < node' /\ cpcs[y] = cpcs[u])
          PROVE  maxmin'[u].index # Stop
      <4>1. y \in Nat /\ u \in Nat /\ node \in Nat
        BY <1>3, <1>5 DEF x
      <4>2. u <= node \/ (y <= node /\ cpcs[y] = cpcs[u])
        BY <1>16, <3>2, <4>1
      <4>3. QED BY <1>15, <4>2
    <3>3. QED BY <1>2, <3>1, <3>2 DEF PickedSoFar
  <2>2. Waiting' = {} /\ Served' = {}
    BY <1>16 DEF Waiting, Served, NodePhases
  <2>3. QED BY <1>13, <1>16, <2>1, <2>2 DEF CpcsExact, Oriented
<1>17. CASE node' = 0 /\ phase' = "forward_start" /\ \A u \in Nodes : u <= node
  <2>1. ASSUME NEW u \in Nodes
        PROVE  Picked(d, u)'
    <3>1. maxmin'[u].index = Stop => Near(d, u) \subseteq cpcs[u]
      BY <1>15, <1>17
    <3>2. QED BY <1>2, <3>1 DEF Picked
  <2>2. Waiting' \subseteq Nodes /\ Served' = {}
    <3>1. \A u \in Nodes : ~(u < 0)
      BY <1>3
    <3>2. QED BY <1>17, <3>1 DEF Waiting, Served, NodePhases
  <2>3. QED BY <1>13, <1>17, <2>1, <2>2 DEF CpcsExact, Oriented
<1>18. QED BY <1>4, <1>16, <1>17

-------------------------------------------------------------------------------
(* The steps at one node.                                                  *)

\* What a step at the node whose turn it is must leave of it.
LEMMA LocalFinds ==
    ASSUME IInv, NEW d, Told(d), CpcsExact(d), NEW C \in SUBSET Nodes, NEW T \in SUBSET Nodes,
           phase \in NodePhases, phase' \in NodePhases \ {"forward_start", "recompute"},
           node' = node, task' = task,
           cpcs' = [cpcs EXCEPT ![node] = C], toBeChecked' = [toBeChecked EXCEPT ![node] = T],
           \A x \in Nodes : x # node => minAssoc'[x] = minAssoc[x] /\ maxmin'[x] = maxmin[x],
           \A y \in Near(d, node) : y \in C \cup T /\ minAssoc'[node][y] < Alpha,
           \A y \in C \cup T : {} \notin task.separators[{node, y}],
           C = {} => Near(d, node) = {},
           phase' = "backward" =>
               /\ Near(d, node) \subseteq C
               /\ \A y \in C \ remaining' : Parents(d, node) \notin task.separators[{node, y}]
    PROVE  CpcsExact(d)'
<1>1. /\ node \in Nodes /\ Nodes \subseteq Nat /\ node \in Nat
      /\ cpcs \in [Nodes -> SUBSET Nodes] /\ toBeChecked \in [Nodes -> SUBSET Nodes]
  BY AtNode, Basics
<1>2. cpcs'[node] = C /\ toBeChecked'[node] = T
  BY <1>1
<1>3. \A x \in Nodes : x # node =>
         /\ cpcs'[x] = cpcs[x] /\ toBeChecked'[x] = toBeChecked[x]
         /\ minAssoc'[x] = minAssoc[x] /\ maxmin'[x] = maxmin[x]
  BY <1>1
<1>4. ASSUME NEW x \in Nodes
      PROVE  Considered(d, x)'
  <2>1. CASE x = node
    BY <1>2, <2>1 DEF Considered
  <2>2. CASE x # node
    <3>1. Considered(d, x)
      BY DEF CpcsExact, NodePhases, SearchPhases
    <3>2. QED BY <1>3, <2>2, <3>1 DEF Considered
  <2>3. QED BY <2>1, <2>2
<1>5. ASSUME NEW x \in Waiting'
      PROVE  Picked(d, x)'
  <2>1. x \in Nodes /\ x > node
    BY DEF Waiting, NodePhases
  <2>2. x # node /\ x \in Waiting
    BY <1>1, <2>1 DEF Waiting, NodePhases
  <2>3. Picked(d, x)
    BY <2>2 DEF CpcsExact
  <2>4. QED BY <1>3, <2>1, <2>2, <2>3 DEF Picked
<1>6. ASSUME NEW x \in Served'
      PROVE  Complements(d, x, cpcs[x])'
  <2>1. x \in Nodes /\ x < node
    BY DEF Served, NodePhases
  <2>2. x # node /\ x \in Served
    BY <1>1, <2>1 DEF Served
  <2>3. Complements(d, x, cpcs[x])
    BY <2>2 DEF CpcsExact
  <2>4. QED BY <1>3, <2>1, <2>2, <2>3 DEF Complements
<1>7. phase' = "backward" => Complements(d, node, cpcs[node] \ remaining)'
  BY <1>2 DEF Complements
<1>8. QED BY <1>4, <1>5, <1>6, <1>7 DEF CpcsExact, NodePhases, Oriented

\* What the backward phase does not look at, it need not remove.
LEMMA StartBackwardFinds ==
    ASSUME TypeOK, NEW d, Told(d), NEW x \in Nodes, NEW C \in SUBSET (Nodes \ {x}),
           \A y \in C : {} \notin task.separators[{x, y}], Near(d, x) \subseteq C
    PROVE  \A y \in C \ (IF Cardinality(C) > 1 THEN C ELSE {}) :
              Parents(d, x) \notin task.separators[{x, y}]
<1>1. CASE Cardinality(C) > 1
  BY <1>1
<1>2. CASE ~(Cardinality(C) > 1)
  BY <1>2, NothingToRemove
<1>3. QED BY <1>1, <1>2

\* The node begins with one member at most, and adds the candidate it has picked.
LEMMA StartForwardFinds ==
    ASSUME IInv, NEW d, Told(d), CpcsExact(d), StartForward
    PROVE  CpcsExact(d)'
<1> DEFINE D == cpcs[node]
           open == toBeChecked[node]
           j == maxmin[node].index
<1>1. /\ phase = "forward_start" /\ minAssoc' = minAssoc /\ maxmin' = maxmin /\ node' = node
      /\ task' = task
      /\ \/ Cardinality(D) > 1
         \/ /\ j # Stop /\ phase' = "forward"
            /\ cpcs' = [cpcs EXCEPT ![node] = D \cup {j}]
            /\ toBeChecked' = [toBeChecked EXCEPT ![node] = open \ {j}]
         \/ /\ j = Stop /\ cpcs' = cpcs /\ toBeChecked' = toBeChecked /\ phase' = "backward"
            /\ remaining' = IF Cardinality(cpcs'[node]) > 1 THEN cpcs'[node] ELSE {}
  BY DEF StartForward, StartBackward, Add, LeftToCheck, searched, problem
<1>2. /\ TypeOK /\ node \in Nodes
      /\ cpcs \in [Nodes -> SUBSET Nodes] /\ toBeChecked \in [Nodes -> SUBSET Nodes]
      /\ D \in SUBSET (Nodes \ {node}) /\ open \in SUBSET Nodes
      /\ phase \in NodePhases
  BY <1>1, AtNode DEF TypeOK, NodePhases
<1>3. node \in Waiting
  BY <1>1, <1>2 DEF Waiting
<1>4. Single(D) /\ PickRecorded(node) /\ Picked(d, node)
  BY <1>2, <1>3, NearFacts DEF IInv, WaitingExact, CpcsExact
<1>5. /\ Near(d, node) \subseteq D \cup open
      /\ \A y \in Near(d, node) : minAssoc[node][y] < Alpha
      /\ \A y \in D \cup open : {} \notin task.separators[{node, y}]
      /\ D = {} => Near(d, node) = {}
  BY <1>1, <1>2 DEF CpcsExact, SearchPhases, Considered
<1> HIDE DEF D, open, j
<1>6. ~(Cardinality(D) > 1)
  <2>1. CASE D = {}
    BY <2>1, FS_EmptySet
  <2>2. CASE D # {}
    <3>1. PICK c : c \in D
      BY <2>2
    <3>2. D = {c}
      BY <1>4, <3>1 DEF Single
    <3>3. Cardinality(D) = 1
      BY <3>2, FS_Singleton
    <3>4. QED BY <3>3
  <2>3. QED BY <2>1, <2>2
<1>7. CASE /\ j # Stop /\ phase' = "forward"
           /\ cpcs' = [cpcs EXCEPT ![node] = D \cup {j}]
           /\ toBeChecked' = [toBeChecked EXCEPT ![node] = open \ {j}]
  <2>1. j \in open
    BY <1>4, <1>7 DEF PickRecorded, open, j
  <2> DEFINE C == D \cup {j}
             T == open \ {j}
  <2>2. C \in SUBSET Nodes /\ T \in SUBSET Nodes /\ C \cup T = D \cup open /\ C # {}
    BY <1>2, <2>1
  <2>3. cpcs' = [cpcs EXCEPT ![node] = C] /\ toBeChecked' = [toBeChecked EXCEPT ![node] = T]
    BY <1>7
  <2>4. phase' \in NodePhases \ {"forward_start", "recompute"} /\ phase' # "backward"
    BY <1>7 DEF NodePhases
  <2> HIDE DEF C, T
  <2>5. QED BY <1>1, <1>2, <1>5, <2>2, <2>3, <2>4, LocalFinds
<1>8. CASE /\ j = Stop /\ cpcs' = cpcs /\ toBeChecked' = toBeChecked /\ phase' = "backward"
           /\ remaining' = IF Cardinality(cpcs'[node]) > 1 THEN cpcs'[node] ELSE {}
  <2>1. Near(d, node) \subseteq D
    BY <1>4, <1>8 DEF Picked, D, j
  <2>2. remaining' = IF Cardinality(D) > 1 THEN D ELSE {}
    BY <1>8 DEF D
  <2>3. \A y \in D \ remaining' : Parents(d, node) \notin task.separators[{node, y}]
    BY <1>2, <1>5, <2>1, <2>2, StartBackwardFinds
  <2>4. cpcs' = [cpcs EXCEPT ![node] = D] /\ toBeChecked' = [toBeChecked EXCEPT ![node] = open]
    BY <1>2, <1>8, SameValue DEF D, open
  <2>5. phase' \in NodePhases \ {"forward_start", "recompute"} /\ D \in SUBSET Nodes
    BY <1>2, <1>8 DEF NodePhases
  <2>6. \A y \in Near(d, node) : y \in D \cup open /\ minAssoc'[node][y] < Alpha
    BY <1>1, <1>5
  <2>7. QED BY <1>1, <1>2, <1>5, <2>1, <2>3, <2>4, <2>5, <2>6, LocalFinds
<1>9. QED BY <1>1, <1>6, <1>7, <1>8 DEF D, open, j

\* A round adds the strongest candidate; with a strong association a node joined to
\* node in d stays a candidate until it is added.
LEMMA ForwardFinds ==
    ASSUME IInv, NEW d, Told(d), CpcsExact(d), Forward
    PROVE  CpcsExact(d)'
<1> DEFINE D == cpcs[node]
           open == toBeChecked[node]
           old == minAssoc[node]
           first == [y \in Nodes |->
               IF y \in open THEN Higher(old[y], Pvalue(node, y, {lastAdded})) ELSE 0]
           worst(y) == CHOOSE p \in {Pvalue(node, y, S) : S \in NewSets(D, lastAdded)} :
                          \A S \in NewSets(D, lastAdded) : Pvalue(node, y, S) <= p
           assoc == [y \in Nodes |-> IF y \in open THEN Higher(old[y], worst(y)) ELSE old[y]]
           Left(z) == {y \in open \ {z} : assoc[y] <= Alpha}
<1>1. /\ phase = "forward" /\ node' = node /\ task' = task
      /\ \/ /\ open = {} /\ UNCHANGED <<cpcs, toBeChecked, minAssoc, maxmin>>
            /\ phase' = "backward"
            /\ remaining' = IF Cardinality(cpcs'[node]) > 1 THEN cpcs'[node] ELSE {}
         \/ /\ minAssoc' = [minAssoc EXCEPT ![node] = assoc]
            /\ \E best \in Strongest(first, open, None) :
                  /\ maxmin' = [maxmin EXCEPT ![node] = best]
                  /\ \/ /\ best = None /\ UNCHANGED <<cpcs, toBeChecked>>
                        /\ phase' = "backward"
                        /\ remaining' = IF Cardinality(cpcs'[node]) > 1 THEN cpcs'[node] ELSE {}
                     \/ /\ best # None /\ cpcs' = [cpcs EXCEPT ![node] = D \cup {best.index}]
                        /\ toBeChecked' = [toBeChecked EXCEPT ![node] = Left(best.index)]
                        /\ phase' = "forward"
  BY DEF Forward, StartBackward, Add, LeftToCheck, searched, problem
<1>2. /\ TypeOK /\ node \in Nodes /\ phase \in NodePhases /\ Alpha \in Nat
      /\ cpcs \in [Nodes -> SUBSET Nodes] /\ toBeChecked \in [Nodes -> SUBSET Nodes]
      /\ minAssoc \in [Nodes -> [Nodes -> Nat]]
      /\ maxmin \in [Nodes -> [assoc : 0 .. Alpha, index : Nodes \cup {Stop}]]
      /\ D \in SUBSET (Nodes \ {node}) /\ open \in SUBSET (Nodes \ {node}) /\ D \cap open = {}
      /\ old \in [Nodes -> Nat] /\ lastAdded \in D
  BY <1>1, AtNode, Basics DEF IInv, ForwardExact, TypeOK, NodePhases
<1>3. /\ Near(d, node) \subseteq D \cup open
      /\ \A y \in Near(d, node) : y \in Nodes /\ old[y] < Alpha
      /\ \A y \in D \cup open : {} \notin task.separators[{node, y}]
  BY <1>1, <1>2, NearFacts DEF CpcsExact, SearchPhases, Considered
<1>4. None.assoc = Alpha /\ None.index = Stop /\ Stop \notin Nodes
  BY <1>2, Basics DEF None, Stop
<1>5. minAssoc' = minAssoc \/ minAssoc' = [minAssoc EXCEPT ![node] = assoc]
  BY <1>1
<1>6. maxmin' = maxmin \/ \E best : maxmin' = [maxmin EXCEPT ![node] = best]
  BY <1>1
<1>7. \A x \in Nodes : x # node => minAssoc'[x] = minAssoc[x] /\ maxmin'[x] = maxmin[x]
  BY <1>2, <1>5, <1>6
<1>20. /\ node' = node /\ task' = task /\ phase \in NodePhases
       /\ open \in SUBSET Nodes /\ D \in SUBSET Nodes
  BY <1>1, <1>2
<1>21. \A y \in D \cup open : {} \notin task.separators[{node, y}]
  BY <1>3
<1> HIDE DEF D, open, old
<1>8. ASSUME NEW y \in open
      PROVE  /\ first[y] \in Nat /\ assoc[y] \in Nat
             /\ y \in Near(d, node) => first[y] < Alpha /\ assoc[y] < Alpha
  <2> DEFINE N == NewSets(D, lastAdded)
  <2>1. y \in Nodes /\ y # node /\ y \notin D /\ old[y] \in Nat
    BY <1>2
  <2>2. ASSUME NEW S \in SUBSET D
        PROVE  Pvalue(node, y, S) \in Nat /\ (y \in Near(d, node) => Pvalue(node, y, S) < Alpha)
    <3>1. S \in SUBSET (Nodes \ {node, y})
      BY <1>2, <2>1
    <3>2. QED BY <1>2, <2>1, <3>1, FaithfulPvalues
  <2>3. \A S \in N : S \in SUBSET D
    BY DEF NewSets
  <2>4. PICK W \in N : worst(y) = Pvalue(node, y, W)
    <3> DEFINE f == [S \in N |-> Pvalue(node, y, S)]
    <3>1. IsFiniteSet(N) /\ N # {}
      <4>1. IsFiniteSet(D) /\ D \in N
        BY <1>2, NodesAssumption, FS_Subset DEF NewSets
      <4>2. IsFiniteSet(SUBSET D) /\ N \subseteq SUBSET D
        BY <2>3, <4>1, FS_SUBSET
      <4>3. QED BY <4>1, <4>2, FS_Subset
    <3>2. f \in [N -> Nat] /\ \A S \in N : f[S] = Pvalue(node, y, S)
      BY <2>2, <2>3
    <3> HIDE DEF f, N
    <3>3. PICK V \in N : \A S \in N : f[S] <= f[V]
      BY <3>1, <3>2, Greatest
    <3>4. \A S \in N : Pvalue(node, y, S) <= Pvalue(node, y, V)
      BY <3>2, <3>3
    <3>5. worst(y) \in {Pvalue(node, y, S) : S \in N}
      BY <3>4 DEF N
    <3>6. QED BY <3>5
  <2>5. worst(y) \in Nat /\ (y \in Near(d, node) => worst(y) < Alpha)
    <3> HIDE DEF worst, N
    <3>1. QED BY <2>2, <2>3, <2>4
  <2>6. /\ Pvalue(node, y, {lastAdded}) \in Nat
        /\ y \in Near(d, node) => Pvalue(node, y, {lastAdded}) < Alpha
    <3>1. {lastAdded} \in SUBSET D
      BY <1>2
    <3>2. QED BY <2>2, <3>1
  <2>7. /\ first[y] = Higher(old[y], Pvalue(node, y, {lastAdded}))
        /\ assoc[y] = Higher(old[y], worst(y))
    BY <2>1
  <2> HIDE DEF first, assoc, worst
  <2>8. first[y] \in Nat /\ assoc[y] \in Nat
    BY <2>1, <2>5, <2>6, <2>7 DEF Higher
  <2>9. y \in Near(d, node) => first[y] < Alpha /\ assoc[y] < Alpha
    BY <1>3, <2>1, <2>5, <2>6, <2>7, StaysStrong
  <2>10. QED BY <2>8, <2>9
<1>9. \A y \in Near(d, node) : minAssoc'[node][y] < Alpha
  <2>1. ASSUME NEW y \in Near(d, node)
        PROVE  assoc[y] < Alpha
    <3>1. y \notin open => assoc[y] = old[y]
      BY <1>3
    <3>2. QED BY <1>3, <1>8, <3>1
  <2> HIDE DEF assoc
  <2>2. minAssoc'[node] = old \/ minAssoc'[node] = assoc
    BY <1>2, <1>5 DEF old
  <2>3. QED BY <1>3, <2>1, <2>2
<1> HIDE DEF first, assoc
<1>10. ASSUME UNCHANGED <<cpcs, toBeChecked>>, phase' = "backward", Near(d, node) \cap open = {},
              remaining' = IF Cardinality(cpcs'[node]) > 1 THEN cpcs'[node] ELSE {}
       PROVE  CpcsExact(d)'
  <2>1. Near(d, node) \subseteq D /\ D # {}
    BY <1>2, <1>3, <1>10
  <2>2. remaining' = IF Cardinality(D) > 1 THEN D ELSE {}
    BY <1>10 DEF D
  <2>3. \A y \in D \ remaining' : Parents(d, node) \notin task.separators[{node, y}]
    BY <1>2, <1>3, <2>1, <2>2, StartBackwardFinds
  <2>4. cpcs' = [cpcs EXCEPT ![node] = D] /\ toBeChecked' = [toBeChecked EXCEPT ![node] = open]
    BY <1>2, <1>10, SameValue DEF D, open
  <2>5. /\ phase' \in NodePhases \ {"forward_start", "recompute"}
        /\ D \in SUBSET Nodes /\ open \in SUBSET Nodes
    BY <1>2, <1>10 DEF NodePhases
  <2>6. \A y \in Near(d, node) : y \in D \cup open /\ minAssoc'[node][y] < Alpha
    BY <1>3, <1>9
  <2>7. QED BY <1>7, <1>20, <1>21, <2>1, <2>3, <2>4, <2>5, <2>6, LocalFinds
<1>11. CASE /\ open = {} /\ UNCHANGED <<cpcs, toBeChecked>> /\ phase' = "backward"
            /\ remaining' = IF Cardinality(cpcs'[node]) > 1 THEN cpcs'[node] ELSE {}
  BY <1>10, <1>11
<1>12. ASSUME NEW best \in Strongest(first, open, None), best = None,
              UNCHANGED <<cpcs, toBeChecked>>, phase' = "backward",
              remaining' = IF Cardinality(cpcs'[node]) > 1 THEN cpcs'[node] ELSE {}
       PROVE  CpcsExact(d)'
  <2>1. ASSUME NEW y \in Near(d, node) \cap open
        PROVE  FALSE
    <3>1. first[y] < None.assoc /\ None.assoc \in Nat
      BY <1>2, <1>4, <1>8, <2>1
    <3>2. PICK z \in open : best = [assoc |-> first[z], index |-> z]
      <4> DEFINE none == None
      <4>1. /\ y \in open /\ \A z \in open : first[z] \in Nat
            /\ none.assoc \in Nat /\ first[y] < none.assoc /\ best \in Strongest(first, open, none)
        BY <1>8, <2>1, <3>1
      <4> HIDE DEF none
      <4>2. QED BY <1>20, <4>1, StrongestFinds
    <3>3. best.index = z /\ z \in Nodes
      BY <1>2, <3>2
    <3>4. QED BY <1>4, <1>12, <3>3
  <2>2. QED BY <1>10, <1>12, <2>1
<1>13. ASSUME NEW best \in Strongest(first, open, None), best # None,
              cpcs' = [cpcs EXCEPT ![node] = D \cup {best.index}],
              toBeChecked' = [toBeChecked EXCEPT ![node] = Left(best.index)],
              phase' = "forward"
       PROVE  CpcsExact(d)'
  <2>1. PICK z \in open : best = [assoc |-> first[z], index |-> z]
    BY <1>13 DEF Strongest
  <2>2. best.index = z
    BY <2>1
  <2> DEFINE C == D \cup {z}
             T == Left(z)
  <2>3. C \in SUBSET Nodes /\ T \in SUBSET Nodes /\ C \cup T \subseteq D \cup open /\ C # {}
    BY <1>2
  <2>4. ASSUME NEW y \in Near(d, node)
        PROVE  y \in C \cup T
    <3>1. y \in open => assoc[y] <= Alpha
      BY <1>2, <1>8, <2>4
    <3>2. QED BY <1>3, <3>1
  <2>5. cpcs' = [cpcs EXCEPT ![node] = C] /\ toBeChecked' = [toBeChecked EXCEPT ![node] = T]
    BY <1>13, <2>2
  <2>6. phase' \in NodePhases \ {"forward_start", "recompute"} /\ phase' # "backward"
    BY <1>13 DEF NodePhases
  <2> HIDE DEF C, T, Left
  <2>7. \A y \in Near(d, node) : y \in C \cup T /\ minAssoc'[node][y] < Alpha
    BY <1>9, <2>4
  <2>8. \A y \in C \cup T : {} \notin task.separators[{node, y}]
    BY <1>3, <2>3
  <2>9. QED BY <1>7, <1>20, <2>3, <2>5, <2>6, <2>7, <2>8, LocalFinds
<1>14. QED BY <1>1, <1>11, <1>12, <1>13

\* The nodes joined to node in d are not removed; another member is, as its test given the
\* parents of node, all of them members, is among those that are made.
LEMMA BackwardFinds ==
    ASSUME IInv, NEW d, Told(d), CpcsExact(d), NEW z \in Nodes, Backward(z)
    PROVE  CpcsExact(d)'
<1> DEFINE D == cpcs[node]
           T == toBeChecked[node]
           C == IF Removable(node, z) THEN D \ {z} ELSE D
<1>1. /\ phase = "backward" /\ phase' = "backward" /\ z \in remaining /\ node' = node /\ task' = task
      /\ cpcs' = [cpcs EXCEPT ![node] = C] /\ remaining' = remaining \ {z}
      /\ toBeChecked' = toBeChecked /\ minAssoc' = minAssoc /\ maxmin' = maxmin
  BY DEF Backward, searched, problem
<1>2. /\ TypeOK /\ node \in Nodes /\ Alpha \in Nat
      /\ cpcs \in [Nodes -> SUBSET Nodes] /\ toBeChecked \in [Nodes -> SUBSET Nodes]
      /\ D \in SUBSET (Nodes \ {node}) /\ remaining \subseteq D
  BY <1>1, AtNode, Basics DEF TypeOK
<1>3. /\ Near(d, node) \subseteq D
      /\ \A y \in D \ remaining : Parents(d, node) \notin task.separators[{node, y}]
  BY <1>1 DEF CpcsExact, Complements
<1>4. /\ \A y \in Near(d, node) : minAssoc[node][y] < Alpha
      /\ \A y \in D \cup T : {} \notin task.separators[{node, y}]
  BY <1>1, <1>2 DEF CpcsExact, SearchPhases, Considered
<1>5. z \in D /\ z # node
  BY <1>1, <1>2
<1>6. Removable(node, z) <=> \E S \in SUBSET (D \ {z}) : Pvalue(node, z, S) > Alpha
  BY <1>2, NearFacts DEF Removable, SeparatedByOthers
<1>7. \A S \in SUBSET (D \ {z}) : S \in SUBSET (Nodes \ {node, z})
  BY <1>2
<1>8. ASSUME z \in Near(d, node)
      PROVE  ~Removable(node, z)
  <2>1. ASSUME NEW S \in SUBSET (D \ {z})
        PROVE  ~(Pvalue(node, z, S) > Alpha)
    <3>1. Pvalue(node, z, S) \in Nat /\ Pvalue(node, z, S) < Alpha
      BY <1>2, <1>5, <1>7, <1>8, FaithfulPvalues
    <3>2. QED BY <1>2, <3>1
  <2>2. QED BY <1>6, <2>1
<1>9. ASSUME Parents(d, node) \in task.separators[{node, z}]
      PROVE  Removable(node, z)
  <2>1. Parents(d, node) \subseteq Near(d, node)
    BY <1>2, NearFacts
  <2>2. {} \in SUBSET (Nodes \ {node, z})
    OBVIOUS
  <2>3. z \notin Near(d, node)
    BY <1>2, <1>5, <1>9, <2>2, FaithfulPvalues
  <2> DEFINE S == Parents(d, node)
  <2>4. S \in SUBSET (D \ {z})
    BY <1>3, <2>1, <2>3
  <2> HIDE DEF S
  <2>5. S \in task.separators[{node, z}]
    BY <1>9 DEF S
  <2>6. Pvalue(node, z, S) > Alpha
    BY <1>2, <1>5, <1>7, <2>4, <2>5, FaithfulPvalues
  <2>7. QED BY <1>6, <2>4, <2>6
<1>10. /\ C \in SUBSET Nodes /\ C \subseteq D /\ Near(d, node) \subseteq C
       /\ T \in SUBSET Nodes /\ toBeChecked' = [toBeChecked EXCEPT ![node] = T]
  BY <1>1, <1>2, <1>3, <1>8, SameValue
<1>11. ASSUME NEW y \in C \ remaining'
       PROVE  Parents(d, node) \notin task.separators[{node, y}]
  <2>1. CASE y = z
    BY <1>9, <2>1
  <2>2. CASE y # z
    BY <1>1, <1>3, <1>10, <2>2
  <2>3. QED BY <2>1, <2>2
<1> HIDE DEF C, D, T
<1>12. phase \in NodePhases /\ phase' \in NodePhases \ {"forward_start", "recompute"}
  BY <1>1 DEF NodePhases
<1>13. \A y \in Near(d, node) : y \in C \cup T /\ minAssoc'[node][y] < Alpha
  BY <1>1, <1>4, <1>10
<1>14. \A y \in C \cup T : {} \notin task.separators[{node, y}]
  BY <1>4, <1>10
<1>15. C = {} => Near(d, node) = {}
  BY <1>10
<1>16. node' = node /\ task' = task /\ cpcs' = [cpcs EXCEPT ![node] = C]
       /\ \A x \in Nodes : x # node => minAssoc'[x] = minAssoc[x] /\ maxmin'[x] = maxmin[x]
  BY <1>1
<1>17. QED BY <1>10, <1>11, <1>12, <1>13, <1>14, <1>15, <1>16, LocalFinds

\* When the backward phase has visited all members, only complements are left.
LEMMA EndBackwardFinds ==
    ASSUME IInv, NEW d, Told(d), CpcsExact(d), EndBackward
    PROVE  CpcsExact(d)'
<1>1. /\ phase = "backward" /\ remaining = {} /\ NextNode("forward_start", "searched")
      /\ cpcs' = cpcs /\ toBeChecked' = toBeChecked /\ minAssoc' = minAssoc /\ maxmin' = maxmin
      /\ task' = task
  BY DEF EndBackward, searched, problem
<1>2. /\ TypeOK /\ node \in task.nodes /\ node \in Nodes /\ Nodes \subseteq Nat /\ task.nodes = Nodes
  BY AtNode, Basics, NearFacts
<1>3. /\ node' \in Nat
      /\ \/ node' = node + 1 /\ phase' = "forward_start"
         \/ node' = 0 /\ phase' = "searched" /\ \A x \in Nodes : x <= node
  BY <1>1, <1>2, TurnPasses
<1>4. ASSUME NEW x \in Nodes
      PROVE  Considered(d, x)'
  <2>1. Considered(d, x)
    BY <1>1 DEF CpcsExact, SearchPhases
  <2>2. QED BY <1>1, <2>1 DEF Considered
<1>5. ASSUME NEW x \in Waiting'
      PROVE  Picked(d, x)'
  <2>1. x \in Nodes /\ phase' = "forward_start" /\ (x > node' \/ x = node')
    BY <1>3 DEF Waiting
  <2>2. x > node
    <3>1. node' = node + 1 /\ x \in Nat /\ node \in Nat
      BY <1>2, <1>3, <2>1
    <3>2. QED BY <2>1, <3>1
  <2>3. x \in Waiting
    BY <1>1, <2>1, <2>2 DEF Waiting
  <2>4. Picked(d, x)
    BY <2>3 DEF CpcsExact
  <2>5. QED BY <1>1, <2>4 DEF Picked
<1>6. ASSUME NEW x \in Served'
      PROVE  Complements(d, x, cpcs[x])'
  <2>1. x \in Nodes /\ x <= node
    <3>1. x \in Nodes /\ (phase' = "searched" \/ x < node')
      BY DEF Served
    <3>2. x \in Nat /\ node \in Nat
      BY <1>2, <3>1
    <3>3. QED BY <1>3, <3>1, <3>2
  <2>2. Complements(d, x, cpcs[x])
    <3>1. CASE x = node
      BY <1>1, <3>1 DEF CpcsExact, Complements
    <3>2. CASE x # node
      <4>1. x < node
        BY <1>2, <2>1, <3>2
      <4>2. x \in Served
        BY <1>1, <2>1, <4>1 DEF Served, NodePhases
      <4>3. QED BY <4>2 DEF CpcsExact
    <3>3. QED BY <3>1, <3>2
  <2>3. QED BY <1>1, <2>2 DEF Complements
<1>7. QED BY <1>3, <1>4, <1>5, <1>6 DEF CpcsExact, Oriented

-------------------------------------------------------------------------------
(* The class is found.                                                     *)

LEMMA NextFinds == IInv /\ ClassInv /\ [Next]_vars => ClassInv'
<1> SUFFICES ASSUME IInv, ClassInv, [Next]_vars, NEW d \in task'.dags
             PROVE  CpcsExact(d)'
  BY DEF ClassInv
<1>1. task' = task
  <2>1. FindCpcs => task' = task
    BY DEF FindCpcs, GenerateCpcs, Marginal, Univariate, StartForward, RecomputeAssoc, Forward,
           Backward, EndBackward, searched, problem
  <2>2. BuildSkeleton \/ CreateBlacklist => task' = task
    BY DEF BuildSkeleton, CreateBlacklist, searched, problem
  <2>3. OrientSkeleton => task' = task
    <3>1. SUFFICES ASSUME OrientSkeleton PROVE task' = task
      OBVIOUS
    <3>2. Orient(NoSepsets) /\ phase \in OrientationPhases
      BY <3>1 DEF OrientSkeleton, Orient, DirectRestricted, EvaluateVStructures, ApplyAtChild,
                  AllApplied, Rule1, Rule2, Rule3, EndRound, OrientationPhases
    <3>3. OrientationInv
      BY <3>2 DEF IInv, ListsKept, OrientationPhases, Oriented
    <3>4. QED BY <3>2, <3>3, OrientStep, Basics DEF IInv, Steady
  <2>4. UNCHANGED vars => task' = task
    BY DEF vars, searched, problem
  <2>5. QED BY <2>1, <2>2, <2>3, <2>4 DEF Next, Step, Returned
<1>2. Told(d) /\ CpcsExact(d)
  <2>1. task \in Tasks
    BY DEF IInv, TypeOK
  <2>2. QED BY <1>1, <2>1, DagsAssumption DEF ClassInv, Told
<1>3. ~RecomputeAssoc
  BY <1>2 DEF CpcsExact, RecomputeAssoc
<1>4. CASE FindCpcs
  BY <1>2, <1>3, <1>4, GenerateFinds, MarginalFinds, UnivariateFinds, StartForwardFinds, ForwardFinds,
     BackwardFinds, EndBackwardFinds DEF FindCpcs
<1>5. CASE BuildSkeleton \/ CreateBlacklist
  BY <1>2, <1>5, BuildFinds
<1>6. CASE OrientSkeleton
  BY <1>2, <1>6, OrientFinds
<1>7. CASE UNCHANGED vars
  <2>1. UNCHANGED <<task, restrictions, pdag, phase, cpcs, toBeChecked, minAssoc, maxmin, node,
                    lastAdded, remaining, blacklist, evaluated, toCheck, nextNode, changed>>
    BY <1>7 DEF vars, cpcState, searched, problem, rulesState
  <2>2. /\ \A x : /\ Considered(d, x)' <=> Considered(d, x)
                  /\ PickedSoFar(d, x)' <=> PickedSoFar(d, x)
                  /\ Picked(d, x)' <=> Picked(d, x)
                  /\ Complements(d, x, cpcs[x])' <=> Complements(d, x, cpcs[x])
        /\ Complements(d, node, cpcs[node] \ remaining)' <=> Complements(d, node, cpcs[node] \ remaining)
        /\ Waiting' = Waiting /\ Served' = Served
    BY <2>1 DEF Considered, PickedSoFar, Picked, Complements, Waiting, Served
  <2>3. Directed(d)' <=> Directed(d)
    BY <2>1 DEF Directed, Applying, RoundInv
  <2>4. QED BY <1>2, <2>1, <2>2, <2>3 DEF CpcsExact
<1>8. QED BY <1>4, <1>5, <1>6, <1>7 DEF Next, Step, Returned

\* With a test that is faithful to a directed acyclic graph d, MMPC returns the graph of
\* the equivalence class of d and MMHC leaves exactly the pairs d joins to the search
\* (ClassFound). This holds for every number of nodes, in whatever order the candidates of
\* equal strength are picked and the members are visited by the backward phase.
THEOREM FindsTheClass == Spec => []ClassFound
<1>1. Init => ClassInv
  BY DEF Init, ClassInv, CpcsExact, SearchPhases, Oriented, Waiting, Served, NodePhases
<1>2. IInv /\ ClassInv /\ [Next]_vars => ClassInv'
  BY NextFinds
<1>3. IInv /\ ClassInv => ClassFound
  <2> SUFFICES ASSUME IInv, ClassInv, phase = "done", NEW d \in task.dags
               PROVE  IF task.hybrid THEN {Ends(a) : a \in Arcs \ blacklist} = Skeleton(d)
                                     ELSE pdag = ClassGraph(d)
    BY DEF ClassFound
  <2>1. Faithful(task, d) /\ CpcsExact(d)
    BY DagsAssumption DEF IInv, TypeOK, ClassInv
  <2>2. CASE task.hybrid
    BY <2>1, <2>2 DEF CpcsExact
  <2>3. CASE ~task.hybrid
    <3>1. OrientationInv /\ Directed(d)
      BY <2>1, <2>3 DEF IInv, ListsKept, CpcsExact, Oriented
    <3>2. pdag = ClassGraph(d)
      BY <2>1, <3>1, OrientationComplete DEF IInv, TypeOK
    <3>3. QED BY <2>3, <3>2
  <2>4. QED BY <2>2, <2>3
<1>4. QED BY <1>1, <1>2, <1>3, Invariance, PTL DEF Spec

===============================================================================
