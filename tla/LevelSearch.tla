------------------------------ MODULE LevelSearch ------------------------------
(***************************************************************************)
(* What the skeleton search of PC promises, without threads and without    *)
(* an order of tests: level k removes at once the pairs that some set of   *)
(* size k separates, among the sets that can be chosen from the graph with *)
(* which the level starts.  Only level 0 may leave out some of its pairs.  *)
(***************************************************************************)
EXTENDS Restrictions

CONSTANT Tasks

VARIABLES
    task,
    skeleton,   \* the joined pairs
    level,
    status

vars == <<task, skeleton, level, status>>

\* The neighbours and parents of x: a pair that starts as an arc is seen from its
\* head only.
Seen(start, sk, x) ==
    {y \in Nodes : {x, y} \in sk /\ (<<x, y>> \in start.arcs => <<y, x>> \in start.arcs)}

Removable(start) == start.edges \ ValidateRestrictions(task).edgeWhitelist

Separable(start, k) ==
    {e \in skeleton \cap Removable(start) :
        \E S \in task.separators[e] :
            Cardinality(S) = k /\ \E x \in e : S \subseteq Seen(start, skeleton, x) \ e}

\* Some removable pair is left, and some node has more than k others to choose from.
GoesOn(start, sk, k) ==
    /\ sk \cap Removable(start) # {}
    /\ \E x \in task.nodes \ task.interface : Cardinality(Seen(start, sk, x)) > k

Init ==
    /\ task \in Tasks
    /\ skeleton = Skeleton(StartGraph(task))
    /\ level = 0
    /\ status = "start"

Begin ==
    LET start == StartGraph(task)
    IN  /\ status = "start"
        /\ status' \in {"rejected", IF Removable(start) # {} THEN "searching" ELSE "found"}
        /\ UNCHANGED <<task, skeleton, level>>

Level ==
    LET start == StartGraph(task)
        separable == Separable(start, level)
    IN  /\ status = "searching"
        /\ level' = level + 1
        /\ skeleton' \subseteq skeleton
        /\ skeleton \ skeleton' \subseteq separable
        /\ level > 0 => skeleton' \cap separable = {}
        /\ status' = IF GoesOn(start, skeleton', level + 1) THEN "searching" ELSE "found"
        /\ UNCHANGED task

Next == Begin \/ Level

Spec == Init /\ [][Next]_vars

===============================================================================
