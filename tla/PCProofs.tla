------------------------------- MODULE PCProofs -------------------------------
(***************************************************************************)
(* Theorems about PC for every set of nodes, threads and tasks: what is    *)
(* recorded for the removed edges, what the lists keep, which lookups can  *)
(* fail, that the threaded search implements the levels of LevelSearch, and*)
(* that a faithful test leads to the equivalence class.  IInv is inductive,*)
(* and ClassInv is with it.                                                *)
(***************************************************************************)
EXTENDS PC, OrientationProofs

Start == StartGraph(task)
Marginal == {"marginal", "marginal_interface"}

\* Until the orientation the arcs are those of the start and edges only disappear;
\* afterwards no pair becomes joined.
GraphShrinks ==
    /\ Skeleton(pdag) \subseteq Skeleton(Start)
    /\ phase \notin Oriented => pdag.arcs = Start.arcs /\ pdag.edges \subseteq Start.edges
    /\ phase \in {"start", "rejected"} => pdag = Start

\* What makes a pair removable in level 0.
Dispensable(e) ==
    e \in Start.edges /\ e \notin restrictions.edgeWhitelist /\ {} \in task.separators[e]

\* Level 0 removes dispensable edges only; no thread outlives it.
MarginalSound ==
    /\ phase \in {"start"} \cup Marginal =>
          level = 0 /\ \A e \in Start.edges \ pdag.edges : Dispensable(e)
    /\ phase \notin Marginal => AllIdle
    /\ \A t \in Threads : stage[t].at \in {"waiting", "removing"} => Dispensable(Ends(stage[t].pair))

\* The edges a level has found separable.
SeparableNow(E) ==
    {e \in E \ restrictions.edgeWhitelist : Candidates(pdag, e, level) \cap task.separators[e] # {}}

\* Above level 0 exactly the separable ones of the tested edges are to be removed,
\* each with its separating set.
LevelExact ==
    /\ phase = "level" => level >= 1 /\ tested \subseteq pdag.edges /\ toRemove = SeparableNow(tested)
    /\ phase # "level" => toRemove = {}
    /\ \A e \in toRemove : sepset[e] # {}

\* The lists hold all the time, and no rule meets an edge it must not direct.
ListsKept ==
    /\ phase \notin {"start", "rejected"} => ~Contradiction(task) /\ ListsHold(pdag)
    /\ phase \in Oriented => NoneForced(pdag)

IInv ==
    /\ TypeOK
    /\ GraphShrinks
    /\ SepsetsSound
    /\ MarginalSound
    /\ LevelExact
    /\ ListsKept
    /\ ChildApart
    /\ LookupsSucceed

\* The facts about the task and the graph that every step uses.
LEMMA Basics ==
    ASSUME TypeOK
    PROVE  /\ Checked(task) /\ task.separators \in [Edges -> SUBSET SUBSET Nodes]
           /\ restrictions = ValidateRestrictions(task)
           /\ pdag \in Graphs /\ NoOverlap(pdag)
           /\ pdag.arcs \in SUBSET Arcs /\ pdag.edges \in SUBSET Edges
           /\ Start \in Graphs /\ NoOverlap(Start)
           /\ Start.arcs \in SUBSET Arcs /\ Start.edges \in SUBSET Edges
           /\ Skeleton(pdag) \subseteq Edges /\ Skeleton(Start) \subseteq Edges
           /\ restrictions.arcBlacklist \in SUBSET Arcs
           /\ restrictions.arcWhitelist \in SUBSET Arcs
           /\ restrictions.edgeWhitelist \in SUBSET Edges
<1>1. Checked(task) /\ task.separators \in [Edges -> SUBSET SUBSET Nodes]
  BY TasksAssumption DEF TypeOK
<1>2. pdag \in Graphs /\ NoOverlap(pdag) /\ restrictions = ValidateRestrictions(task)
  BY DEF TypeOK, NoOverlap
<1>3. Start \in Graphs /\ NoOverlap(Start)
  BY <1>1, StartGraphEffect DEF Start
<1>4. \A g \in Graphs : g.arcs \in SUBSET Arcs /\ g.edges \in SUBSET Edges
  BY DEF Graphs
<1>5. \A g \in Graphs : Skeleton(g) \subseteq Edges
  BY <1>4, ReverseArc DEF Skeleton
<1>6. /\ restrictions.arcBlacklist \in SUBSET Arcs
      /\ restrictions.arcWhitelist \in SUBSET Arcs
      /\ restrictions.edgeWhitelist \in SUBSET Edges
  BY <1>1, <1>2, DerivedLists
<1>7. QED BY <1>1, <1>2, <1>3, <1>4, <1>5, <1>6

\* The initial states satisfy the invariant.
LEMMA InitIInv == Init => IInv
<1> SUFFICES ASSUME Init PROVE IInv
  OBVIOUS
<1>1. /\ task \in Tasks /\ restrictions = ValidateRestrictions(task) /\ pdag = Start
      /\ phase = "start" /\ sepset = [e \in Edges |-> {}] /\ pending = {}
      /\ stage = [t \in Threads |-> Idle] /\ missed = {} /\ level = 0 /\ tested = {}
      /\ toRemove = {} /\ evaluated = [x \in Nodes |-> {}] /\ toCheck = {}
      /\ nextNode = 0 /\ changed = FALSE
  BY DEF Init, SearchInit, OrientationInit, Start
<1>2. Checked(task)
  BY <1>1, TasksAssumption
<1>3. Start \in Graphs /\ NoOverlap(Start)
  BY <1>2, StartGraphEffect DEF Start
<1>4. TypeOK
  <2>1. \A a \in pdag.arcs : Ends(a) \notin pdag.edges
    BY <1>1, <1>3 DEF NoOverlap
  <2>2. sepset \in [Edges -> SUBSET SUBSET Nodes] /\ evaluated \in [Nodes -> SUBSET Edges]
    BY <1>1
  <2>3. stage \in [Threads -> Stages]
    BY <1>1 DEF Stages
  <2>4. QED BY <1>1, <1>3, <2>1, <2>2, <2>3 DEF TypeOK
<1>5. GraphShrinks
  BY <1>1 DEF GraphShrinks, Oriented
<1>6. SepsetsSound
  <2>1. \A e \in Skeleton(Start) : e \in Edges
    BY <1>4, Basics
  <2>2. QED BY <1>1, <2>1 DEF SepsetsSound, Start
<1>7. MarginalSound
  BY <1>1 DEF MarginalSound, Marginal, AllIdle, Idle
<1>8. LevelExact /\ ListsKept /\ LookupsSucceed /\ ChildApart
  BY <1>1 DEF LevelExact, ListsKept, LookupsSucceed, ChildApart, Oriented
<1>9. QED BY <1>4, <1>5, <1>6, <1>7, <1>8 DEF IInv

-------------------------------------------------------------------------------
(* The skeleton search.                                                    *)

\* The lists of an accepted task hold in the graph it starts with.
LEMMA StartHolds ==
    ASSUME IInv, ~Contradiction(task)
    PROVE  ListsHold(Start) /\ restrictions.edgeWhitelist \subseteq Start.edges
<1>1. Checked(task) /\ restrictions = ValidateRestrictions(task)
  BY Basics DEF IInv
<1>2. Start.arcs = restrictions.arcWhitelist /\ restrictions.edgeWhitelist \subseteq Start.edges
  BY <1>1, StartGraphKeeps DEF Start
<1>3. \A a \in restrictions.arcWhitelist : a \notin restrictions.arcBlacklist
  BY <1>1, ListsAgree
<1>4. QED BY <1>2, <1>3 DEF ListsHold, Skeleton

\* During the search the edges that must stay are edges of the graph.
LEMMA WhitelistIn ==
    ASSUME IInv, phase \notin {"start", "rejected"} \cup Oriented
    PROVE  restrictions.edgeWhitelist \subseteq pdag.edges
<1>1. ~Contradiction(task) /\ restrictions.edgeWhitelist \subseteq Skeleton(pdag)
  BY DEF IInv, ListsKept, ListsHold
<1>2. pdag.arcs = Start.arcs
  BY DEF IInv, GraphShrinks
<1>3. restrictions.edgeWhitelist \subseteq Start.edges /\ NoOverlap(Start)
  BY <1>1, StartHolds, Basics DEF IInv
<1>4. QED BY <1>1, <1>2, <1>3 DEF Skeleton, NoOverlap

LEMMA BeginStep ==
    ASSUME IInv, BeginSearch
    PROVE  IInv'
<1>1. /\ phase = "start"
      /\ UNCHANGED <<task, restrictions, pdag, evaluated, toCheck, nextNode, changed,
                     sepset, stage, missed, level, tested, toRemove>>
  BY DEF BeginSearch, problem, rulesState
<1>2. \/ phase' = "rejected" /\ pending' = pending
      \/ ~Contradiction(task) /\ phase' \in {"marginal", "found"} /\ pending' \subseteq Arcs
  <2>1. NodePairs(task) \subseteq Arcs
    BY DEF NodePairs
  <2>2. QED BY <2>1 DEF BeginSearch, Rejected
<1>3. pdag = Start /\ level = 0 /\ toRemove = {} /\ AllIdle
  BY <1>1 DEF IInv, GraphShrinks, MarginalSound, LevelExact, Marginal
<1>4. TypeOK'
  BY <1>1, <1>2 DEF IInv, TypeOK, Stopped, OrientationPhases
<1>5. GraphShrinks' /\ SepsetsSound' /\ ChildApart'
  BY <1>1, <1>2, <1>3 DEF IInv, GraphShrinks, SepsetsSound, ChildApart, Oriented, Start
<1>6. MarginalSound'
  BY <1>1, <1>2, <1>3 DEF IInv, MarginalSound, Dispensable, AllIdle, Start, Marginal
<1>7. LevelExact' /\ LookupsSucceed'
  BY <1>1, <1>2, <1>3 DEF LevelExact, LookupsSucceed
<1>8. ListsKept'
  BY <1>1, <1>2, <1>3, StartHolds DEF ListsKept, ListsHold, Oriented, IInv
<1>9. QED BY <1>4, <1>5, <1>6, <1>7, <1>8 DEF IInv

\* A step of a thread in level 0 that leaves the graph and the separating sets.
LEMMA StageStep ==
    ASSUME IInv, NEW t \in Threads,
           UNCHANGED <<task, restrictions, pdag, phase, evaluated, toCheck, nextNode, changed,
                       sepset, level, tested, toRemove>>,
           NEW s \in Stages, stage' = [stage EXCEPT ![t] = s],
           s.at \in {"waiting", "removing"} => Dispensable(Ends(s.pair)),
           phase \in Marginal,
           pending' \subseteq Arcs, missed' \subseteq Edges
    PROVE  IInv'
<1>1. stage \in [Threads -> Stages]
  BY DEF IInv, TypeOK
<1>2. TypeOK'
  BY DEF IInv, TypeOK
<1>3. MarginalSound'
  <2>1. \A u \in Threads : stage'[u].at \in {"waiting", "removing"} => Dispensable(Ends(stage'[u].pair))
    BY <1>1 DEF IInv, MarginalSound
  <2>2. \A e : Dispensable(e)' <=> Dispensable(e)
    BY DEF Dispensable, Start
  <2>3. QED BY <2>1, <2>2 DEF IInv, MarginalSound, Start
<1>4. GraphShrinks' /\ SepsetsSound' /\ ChildApart' /\ LookupsSucceed'
  BY DEF IInv, GraphShrinks, SepsetsSound, ChildApart, LookupsSucceed, Start, Adjacent
<1>5. LevelExact' /\ ListsKept'
  BY DEF IInv, LevelExact, ListsKept, ListsHold, NoneForced, SeparableNow, Candidates, Marginal
<1>6. QED BY <1>2, <1>3, <1>4, <1>5 DEF IInv

\* A thread that is not idle is in level 0.
LEMMA BusyInMarginal ==
    ASSUME IInv, NEW t \in Threads, stage[t].at # "idle"
    PROVE  /\ phase \in Marginal
           /\ stage[t] \in [at : {"looking", "waiting", "removing"}, pair : Arcs]
<1>1. stage[t] # Idle
  BY DEF Idle
<1>2. QED BY <1>1 DEF IInv, MarginalSound, AllIdle, TypeOK, Stages

LEMMA TakeStep ==
    ASSUME IInv, NEW t \in Threads, Take(t)
    PROVE  IInv'
<1>1. PICK a \in pending :
         /\ phase \in Marginal /\ pending' = pending \ {a}
         /\ stage' = [stage EXCEPT ![t] = [at |-> "looking", pair |-> a]]
         /\ UNCHANGED <<task, restrictions, pdag, phase, evaluated, toCheck, nextNode, changed,
                        sepset, missed, level, tested, toRemove>>
  BY DEF Take, problem, rulesState, Marginal
<1>2. a \in Arcs /\ pending' \subseteq Arcs /\ missed' \subseteq Edges
  BY <1>1 DEF IInv, TypeOK
<1>3. [at |-> "looking", pair |-> a] \in Stages
  BY <1>2 DEF Stages
<1>4. QED BY <1>1, <1>2, <1>3, StageStep

LEMMA LookStep ==
    ASSUME IInv, NEW t \in Threads, Look(t)
    PROVE  IInv'
<1> DEFINE e == Ends(stage[t].pair)
<1>1. /\ stage[t].at = "looking"
      /\ UNCHANGED <<task, restrictions, pdag, phase, evaluated, toCheck, nextNode, changed,
                     sepset, pending, level, tested, toRemove>>
  BY DEF Look, problem, rulesState
<1>2. phase \in Marginal /\ stage[t] \in [at : {"looking", "waiting", "removing"}, pair : Arcs]
  BY <1>1, BusyInMarginal
<1>3. e \in Edges /\ pending' \subseteq Arcs
  BY <1>1, <1>2, ReverseArc DEF IInv, TypeOK
<1>4. missed' \subseteq Edges
  BY <1>3 DEF Look, IInv, TypeOK
<1>5. PICK s \in {Idle, [stage[t] EXCEPT !.at = "waiting"]} :
         /\ stage' = [stage EXCEPT ![t] = s]
         /\ s # Idle => /\ e \in pdag.edges /\ e \notin restrictions.edgeWhitelist
                        /\ {} \in task.separators[e]
  BY DEF Look
<1>6. s # Idle => s.pair = stage[t].pair
  BY <1>2, <1>5
<1>7. pdag.edges \subseteq Start.edges
  BY <1>2 DEF IInv, GraphShrinks, Marginal, Oriented
<1>8. s.at \in {"waiting", "removing"} => Dispensable(Ends(s.pair))
  <2>1. CASE s = Idle
    BY <2>1 DEF Idle
  <2>2. CASE s # Idle
    <3>1. s.pair = stage[t].pair /\ e \in Start.edges
      BY <1>5, <1>6, <1>7, <2>2
    <3>2. Dispensable(e)
      BY <1>5, <2>2, <3>1 DEF Dispensable
    <3>3. QED BY <3>1, <3>2
  <2>3. QED BY <2>1, <2>2
<1>9. s \in Stages
  BY <1>2, <1>5 DEF Stages
<1>10. QED BY <1>1, <1>2, <1>3, <1>4, <1>5, <1>8, <1>9, StageStep

LEMMA EnterStep ==
    ASSUME IInv, NEW t \in Threads, EnterCritical(t)
    PROVE  IInv'
<1>1. /\ stage[t].at = "waiting"
      /\ stage' = [stage EXCEPT ![t].at = "removing"]
      /\ UNCHANGED <<task, restrictions, pdag, phase, evaluated, toCheck, nextNode, changed,
                     sepset, pending, missed, level, tested, toRemove>>
  BY DEF EnterCritical, problem, rulesState
<1> DEFINE s == [stage[t] EXCEPT !.at = "removing"]
<1>2. phase \in Marginal /\ stage[t] \in [at : {"looking", "waiting", "removing"}, pair : Arcs]
  BY <1>1, BusyInMarginal
<1>3. s \in Stages /\ s.pair = stage[t].pair /\ stage' = [stage EXCEPT ![t] = s]
  BY <1>1, <1>2 DEF Stages
<1>4. Dispensable(Ends(s.pair))
  BY <1>1, <1>3 DEF IInv, MarginalSound
<1>5. pending' \subseteq Arcs /\ missed' \subseteq Edges
  BY <1>1 DEF IInv, TypeOK
<1> HIDE DEF s
<1>6. QED BY <1>1, <1>2, <1>3, <1>4, <1>5, StageStep

\* A step that only removes dispensable edges for which a set is recorded.
LEMMA RemovePair ==
    ASSUME IInv, phase \notin Oriented, NEW E \in SUBSET pdag.edges,
           pdag' = [pdag EXCEPT !.edges = @ \ E], UNCHANGED <<task, restrictions>>
    PROVE  /\ pdag' \in Graphs /\ NoOverlap(pdag') /\ pdag'.arcs = Start.arcs
           /\ pdag'.edges \subseteq Start.edges /\ pdag'.edges = pdag.edges \ E
           /\ Skeleton(pdag') = Skeleton(pdag) \ E
           /\ Start' = Start
<1>1. pdag \in Graphs /\ NoOverlap(pdag)
  BY Basics DEF IInv
<1>2. pdag.arcs = Start.arcs /\ pdag.edges \subseteq Start.edges /\ Start' = Start
  BY DEF IInv, GraphShrinks, Start
<1>3. pdag'.arcs = pdag.arcs /\ pdag'.edges = pdag.edges \ E
  BY <1>1 DEF Graphs
<1>4. pdag' \in Graphs /\ NoOverlap(pdag')
  BY <1>1, <1>3 DEF Graphs, NoOverlap
<1>5. Skeleton(pdag') = Skeleton(pdag) \ E
  BY <1>1, <1>3 DEF Skeleton, NoOverlap
<1>6. QED BY <1>2, <1>3, <1>4, <1>5

LEMMA RemoveStep ==
    ASSUME IInv, NEW t \in Threads, Remove(t)
    PROVE  IInv'
<1> DEFINE e == Ends(stage[t].pair)
<1>1. /\ stage[t].at = "removing"
      /\ pdag' = [pdag EXCEPT !.edges = @ \ {e}]
      /\ sepset' = [sepset EXCEPT ![e] = IF @ = {} THEN {{}} ELSE @]
      /\ stage' = [stage EXCEPT ![t] = Idle]
      /\ UNCHANGED <<task, restrictions, phase, evaluated, toCheck, nextNode, changed,
                     pending, missed, level, tested, toRemove>>
  BY DEF Remove, problem, rulesState, Record
<1>2. phase \in Marginal /\ stage[t] \in [at : {"looking", "waiting", "removing"}, pair : Arcs]
  BY <1>1, BusyInMarginal
<1>3. e \in Edges /\ Dispensable(e)
  BY <1>1, <1>2, ReverseArc DEF IInv, MarginalSound
<1> HIDE DEF e
<1>4. phase \notin Oriented /\ phase # "level" /\ phase \notin {"start", "rejected"} /\ toRemove = {}
  BY <1>2 DEF Marginal, Oriented, IInv, LevelExact
<1>5. /\ pdag' \in Graphs /\ NoOverlap(pdag') /\ pdag'.arcs = Start.arcs
      /\ pdag'.edges \subseteq Start.edges /\ pdag'.edges = pdag.edges \ {e}
      /\ Skeleton(pdag') = Skeleton(pdag) \ {e} /\ Start' = Start
  <2> DEFINE E == pdag.edges \cap {e}
  <2>1. pdag' = [pdag EXCEPT !.edges = @ \ E]
    <3>1. pdag.edges \ E = pdag.edges \ {e}
      OBVIOUS
    <3>2. QED BY <1>1, <3>1
  <2>2. e \in Skeleton(pdag) => e \in pdag.edges
    BY <1>3, <1>4, Basics DEF IInv, GraphShrinks, Skeleton, NoOverlap, Dispensable
  <2>3. pdag.edges \ E = pdag.edges \ {e} /\ Skeleton(pdag) \ E = Skeleton(pdag) \ {e}
    BY <2>2
  <2>4. E \in SUBSET pdag.edges
    OBVIOUS
  <2> HIDE DEF E
  <2>5. QED BY <1>1, <1>4, <2>1, <2>3, <2>4, RemovePair
<1>6. TypeOK'
  <2>1. sepset' \in [Edges -> SUBSET SUBSET Nodes]
    BY <1>1, <1>3 DEF IInv, TypeOK
  <2>2. stage' \in [Threads -> Stages]
    BY <1>1 DEF IInv, TypeOK, Stages
  <2>3. QED BY <1>1, <1>5, <2>1, <2>2 DEF IInv, TypeOK, NoOverlap
<1>7. GraphShrinks'
  BY <1>1, <1>4, <1>5 DEF IInv, GraphShrinks
<1>8. SepsetsSound'
  <2>1. \A f \in Edges : f # e => sepset'[f] = sepset[f]
    BY <1>1 DEF IInv, TypeOK
  <2>2. sepset'[e] # {} /\ (e \in Skeleton(Start) => sepset'[e] \subseteq task.separators[e])
    BY <1>1, <1>3 DEF IInv, TypeOK, SepsetsSound, Dispensable, Start
  <2>3. \A f \in Skeleton(Start) : f \in Edges
    BY Basics DEF IInv
  <2>4. QED BY <1>1, <1>5, <2>1, <2>2, <2>3 DEF IInv, SepsetsSound, Start
<1>9. MarginalSound'
  <2>1. \A f : Dispensable(f)' <=> Dispensable(f)
    BY <1>1, <1>5 DEF Dispensable
  <2>2. \A u \in Threads : stage'[u].at \in {"waiting", "removing"} => Dispensable(Ends(stage'[u].pair))
    BY <1>1 DEF IInv, MarginalSound, TypeOK, Idle
  <2>3. level = 0 /\ \A f \in Start.edges \ pdag'.edges : Dispensable(f)
    BY <1>2, <1>3, <1>5 DEF IInv, MarginalSound
  <2>4. QED BY <1>1, <1>2, <1>5, <2>1, <2>2, <2>3 DEF MarginalSound
<1>10. LevelExact' /\ LookupsSucceed' /\ ChildApart'
  BY <1>1, <1>2, <1>4 DEF IInv, LevelExact, LookupsSucceed, ChildApart, Marginal
<1>11. ListsKept'
  <2>1. ~Contradiction(task) /\ ListsHold(pdag)
    BY <1>4 DEF IInv, ListsKept
  <2>2. ListsHold(pdag')
    BY <1>3, <1>4, <1>5, <2>1 DEF IInv, GraphShrinks, ListsHold, Dispensable
  <2>3. QED BY <1>1, <1>4, <2>1, <2>2 DEF ListsKept, ListsHold
<1>12. QED BY <1>6, <1>7, <1>8, <1>9, <1>10, <1>11 DEF IInv

LEMMA TestStep ==
    ASSUME IInv, NEW e \in Edges, TestEdge(e)
    PROVE  IInv'
<1> DEFINE found == Candidates(pdag, e, level) \cap task.separators[e]
<1>1. /\ phase = "level" /\ e \in pdag.edges \ tested /\ tested' = tested \cup {e}
      /\ UNCHANGED <<task, restrictions, pdag, phase, evaluated, toCheck, nextNode, changed,
                     pending, stage, missed, level>>
  BY DEF TestEdge, problem, rulesState
<1>2. \/ /\ e \in restrictions.edgeWhitelist \/ found = {}
         /\ UNCHANGED <<sepset, toRemove>>
      \/ /\ e \notin restrictions.edgeWhitelist
         /\ \E S \in found : /\ sepset' = [sepset EXCEPT ![e] = IF @ = {} THEN {S} ELSE @]
                             /\ toRemove' = toRemove \cup {e}
  BY DEF TestEdge, Record
<1>3. level >= 1 /\ tested \subseteq pdag.edges /\ toRemove = SeparableNow(tested)
  BY <1>1 DEF IInv, LevelExact
<1>4. task.separators[e] \subseteq SUBSET Nodes
  BY Basics DEF IInv
<1>5. /\ sepset' \in [Edges -> SUBSET SUBSET Nodes]
      /\ \A f \in Edges : f # e => sepset'[f] = sepset[f]
      /\ sepset'[e] \subseteq sepset[e] \cup task.separators[e]
      /\ sepset[e] \subseteq sepset'[e]
      /\ sepset'[e] # sepset[e] => e \in toRemove'
      /\ e \in toRemove' \ toRemove => sepset'[e] # {}
      /\ toRemove \subseteq Edges
  BY <1>2, <1>4 DEF IInv, TypeOK
<1>6. toRemove' = SeparableNow(tested \cup {e}) /\ toRemove \subseteq toRemove'
  BY <1>2, <1>3 DEF SeparableNow
<1>7. TypeOK'
  <2>1. tested' \subseteq Edges /\ toRemove' \subseteq Edges
    BY <1>1, <1>2 DEF IInv, TypeOK
  <2>2. QED BY <1>1, <1>5, <2>1 DEF IInv, TypeOK
<1>8. GraphShrinks' /\ MarginalSound' /\ ListsKept' /\ ChildApart' /\ LookupsSucceed'
  BY <1>1 DEF IInv, GraphShrinks, MarginalSound, ListsKept, ChildApart, LookupsSucceed, Start,
              Dispensable, AllIdle, Marginal, ListsHold, NoneForced, Oriented
<1>9. LevelExact'
  <2>1. SeparableNow(tested)' = SeparableNow(tested \cup {e})
    BY <1>1 DEF SeparableNow
  <2>2. \A f \in toRemove' : sepset'[f] # {}
    BY <1>2, <1>5 DEF IInv, LevelExact
  <2>3. QED BY <1>1, <1>3, <1>6, <2>1, <2>2 DEF LevelExact
<1>10. SepsetsSound'
  <2>1. \A f \in Skeleton(Start) : f \in Edges
    BY Basics DEF IInv
  <2>2. QED BY <1>1, <1>5, <1>6, <2>1 DEF IInv, SepsetsSound, Start
<1>11. QED BY <1>7, <1>8, <1>9, <1>10 DEF IInv

LEMMA EndMarginalStep ==
    ASSUME IInv, EndMarginal
    PROVE  IInv'
<1>1. /\ phase \in Marginal /\ AllIdle
      /\ UNCHANGED <<task, restrictions, pdag, evaluated, toCheck, nextNode, changed,
                     sepset, stage, missed>>
      /\ \/ /\ phase' = "marginal_interface" /\ pending' = InterfacePairs(task)
            /\ UNCHANGED <<level, tested, toRemove>>
         \/ /\ phase' \in {"level", "found"} /\ level' = 1 /\ tested' = {} /\ toRemove' = {}
            /\ UNCHANGED pending
  BY DEF EndMarginal, StartLevel, problem, rulesState, Marginal
<1>2. toRemove = {} /\ phase \notin Oriented /\ phase \notin {"start", "rejected"} /\ toRemove' = {}
  BY <1>1 DEF IInv, LevelExact, Marginal, Oriented
<1>3. InterfacePairs(task) \subseteq Arcs
  BY DEF InterfacePairs
<1>4. TypeOK'
  BY <1>1, <1>3 DEF IInv, TypeOK, OrientationPhases
<1>5. GraphShrinks' /\ SepsetsSound' /\ ChildApart' /\ ListsKept' /\ LookupsSucceed'
  BY <1>1, <1>2 DEF IInv, GraphShrinks, SepsetsSound, ChildApart, ListsKept, LookupsSucceed,
                    ListsHold, Start, Oriented
<1>6. MarginalSound'
  BY <1>1, <1>2 DEF IInv, MarginalSound, Dispensable, AllIdle, Start, Marginal, Idle
<1>7. LevelExact'
  <2>1. CASE phase' = "marginal_interface"
    BY <1>2, <2>1 DEF LevelExact
  <2>2. CASE phase' # "marginal_interface"
    <3>1. level' = 1 /\ tested' = {}
      BY <1>1, <2>2
    <3>2. SeparableNow(tested)' = {}
      BY <3>1 DEF SeparableNow
    <3>3. 1 >= 1 /\ {} \subseteq pdag'.edges
      OBVIOUS
    <3>4. QED BY <1>2, <3>1, <3>2, <3>3 DEF LevelExact
  <2>3. QED BY <2>1, <2>2
<1>8. QED BY <1>4, <1>5, <1>6, <1>7 DEF IInv

LEMMA EndLevelStep ==
    ASSUME IInv, EndLevel
    PROVE  IInv'
<1>1. /\ phase = "level" /\ tested = pdag.edges
      /\ pdag' = [pdag EXCEPT !.edges = @ \ toRemove]
      /\ phase' \in {"level", "found"} /\ level' = level + 1 /\ tested' = {} /\ toRemove' = {}
      /\ UNCHANGED <<task, restrictions, evaluated, toCheck, nextNode, changed,
                     sepset, pending, stage, missed>>
  BY DEF EndLevel, StartLevel, problem, rulesState
<1>2. level >= 1 /\ toRemove = SeparableNow(pdag.edges) /\ toRemove \in SUBSET pdag.edges
  BY <1>1 DEF IInv, LevelExact, SeparableNow
<1>3. /\ pdag' \in Graphs /\ NoOverlap(pdag') /\ pdag'.arcs = Start.arcs
      /\ pdag'.edges \subseteq Start.edges /\ pdag'.edges = pdag.edges \ toRemove
      /\ Skeleton(pdag') = Skeleton(pdag) \ toRemove /\ Start' = Start
  BY <1>1, <1>2, RemovePair DEF Oriented
<1>4. phase \notin Oriented /\ phase' \notin Oriented /\ phase \notin {"start", "rejected"} \cup Marginal
      /\ phase' \notin {"start", "rejected"} \cup Marginal
  BY <1>1 DEF Oriented, Marginal
<1>5. TypeOK'
  BY <1>1, <1>2, <1>3 DEF IInv, TypeOK, OrientationPhases, NoOverlap
<1>6. GraphShrinks'
  BY <1>3, <1>4 DEF IInv, GraphShrinks
<1>7. SepsetsSound'
  <2>1. \A e \in toRemove : sepset[e] # {}
    BY DEF IInv, LevelExact
  <2>2. QED BY <1>1, <1>3, <2>1 DEF IInv, SepsetsSound, Start
<1>8. MarginalSound'
  BY <1>1, <1>4 DEF IInv, MarginalSound, AllIdle, Marginal, Idle
<1>9. LevelExact'
  <2>1. level' >= 1
    BY <1>1, <1>2 DEF IInv, TypeOK
  <2>2. SeparableNow(tested)' = {}
    BY <1>1 DEF SeparableNow
  <2>3. QED BY <1>1, <2>1, <2>2 DEF LevelExact
<1>10. ListsKept'
  <2>1. ~Contradiction(task) /\ ListsHold(pdag)
    BY <1>4 DEF IInv, ListsKept
  <2>2. ListsHold(pdag')
    BY <1>2, <1>3, <1>4, <2>1 DEF IInv, GraphShrinks, ListsHold, SeparableNow
  <2>3. QED BY <1>1, <1>4, <2>1, <2>2 DEF ListsKept, ListsHold
<1>11. ChildApart' /\ LookupsSucceed'
  BY <1>1 DEF IInv, ChildApart, LookupsSucceed
<1>12. QED BY <1>5, <1>6, <1>7, <1>8, <1>9, <1>10, <1>11 DEF IInv

-------------------------------------------------------------------------------
(* The orientation.                                                        *)

\* A pair that is looked up and has no separating set was blacklisted.
LEMMA MissingWasBlacklisted ==
    ASSUME IInv, phase = "evaluate", NEW pq \in LookedUp(sepset, pdag), sepset[pq] = {}
    PROVE  pq \in restrictions.edgeBlacklist /\ \E x \in task.nodes : pq \subseteq Adjacent(pdag, x)
<1>1. PICK x \in task.nodes :
         \E found : /\ pq \in CandidatePairs(pdag, x) \cup MixedPairs(pdag, x, found)
                    /\ pq \notin Skeleton(pdag)
  BY DEF LookedUp
<1>2. /\ Checked(task) /\ TypeOK /\ restrictions = ValidateRestrictions(task)
      /\ pdag \in Graphs /\ NoOverlap(pdag) /\ Skeleton(pdag) \subseteq Skeleton(Start)
      /\ NoneForced(pdag)
  BY Basics DEF IInv, GraphShrinks, ListsKept, Oriented
<1>3. x \in Nodes
  BY <1>2 DEF Checked
<1>4. /\ pq \in Edges /\ pq \subseteq Adjacent(pdag, x)
      /\ \E n \in Neighbors(pdag, x), y \in Adjacent(pdag, x) : n # y /\ pq = {n, y}
  BY <1>1, <1>2, <1>3, EvaluatedPairs
<1>5. PICK n \in Neighbors(pdag, x), y \in Adjacent(pdag, x) : n # y /\ pq = {n, y}
  BY <1>4
<1>6. n \in Nodes /\ y \in Nodes /\ {x, n} \in pdag.edges
  BY <1>5 DEF Neighbors, Parents, Adjacent
<1>7. {x, n} \in Skeleton(Start) /\ {x, y} \in Skeleton(Start)
  BY <1>2, <1>3, <1>5, <1>6, AdjacentEnds DEF Adjacent
<1>8. Skeleton(Start) = Complete(task) \ restrictions.edgeBlacklist
  BY <1>2, StartGraphEffect DEF Start
<1>9. n \in task.nodes \ task.interface /\ y \in task.nodes
  <2>1. n \in task.nodes /\ y \in task.nodes
    BY <1>2, <1>7, <1>8, CompletePairs
  <2>2. n \notin task.interface
    BY <1>2, <1>6 DEF NoneForced
  <2>3. QED BY <2>1, <2>2
<1>10. pq \in Complete(task)
  BY <1>2, <1>5, <1>9, CompletePairs
<1>11. pq \notin Skeleton(Start)
  BY <1>1 DEF IInv, SepsetsSound, Start
<1>12. QED BY <1>4, <1>8, <1>10, <1>11

LEMMA OrientationHolds ==
    ASSUME IInv, phase \in {"found"} \cup Oriented
    PROVE  OrientationInv
<1>1. phase \notin {"start", "rejected"}
  BY DEF Oriented
<1>2. QED BY <1>1, Basics DEF IInv, TypeOK, ListsKept, OrientationInv

LEMMA OrientIInv == IInv /\ OrientSkeleton => IInv' /\ Steady /\ UNCHANGED level
<1> SUFFICES ASSUME IInv, OrientSkeleton PROVE IInv' /\ Steady /\ UNCHANGED level
  OBVIOUS
<1>1. Orient(sepset) /\ UNCHANGED <<sepset, pending, stage, missed, level, tested, toRemove>>
  BY DEF OrientSkeleton, searchState
<1>2. phase \in {"found"} \cup Oriented
  BY <1>1 DEF Orient, DirectRestricted, EvaluateVStructures, ApplyAtChild, AllApplied, Rule1,
              Rule2, Rule3, EndRound, Oriented
<1>3. /\ OrientationInv' /\ Steady
      /\ phase' = "crashed" =>
            /\ phase = "evaluate" /\ UNCHANGED pdag
            /\ task.useSepsets /\ \E pq \in LookedUp(sepset, pdag) : sepset[pq] = {}
  BY <1>1, <1>2, OrientationHolds, OrientStep
<1>4. /\ phase \notin Marginal \cup {"start", "rejected", "level"}
      /\ phase' \notin Marginal \cup {"start", "rejected", "level"}
      /\ phase' \in Oriented /\ Skeleton(pdag') = Skeleton(pdag)
      /\ UNCHANGED <<task, restrictions>>
  BY <1>3 DEF Steady, Oriented, Marginal
<1>5. TypeOK'
  BY <1>1, <1>3, <1>4 DEF IInv, TypeOK, OrientationInv, NoOverlap, Oriented, OrientationPhases, Stopped
<1>6. GraphShrinks' /\ SepsetsSound'
  BY <1>1, <1>4 DEF IInv, GraphShrinks, SepsetsSound, Start
<1>7. MarginalSound' /\ LevelExact'
  BY <1>1, <1>4 DEF IInv, MarginalSound, LevelExact, AllIdle, Idle, Marginal
<1>8. ListsKept' /\ ChildApart'
  BY <1>1, <1>3, <1>4 DEF IInv, ListsKept, OrientationInv
<1>9. LookupsSucceed'
  <2>1. CASE phase' = "crashed"
    <3>1. /\ phase = "evaluate" /\ UNCHANGED <<task, restrictions, pdag>> /\ task.useSepsets
          /\ \E pq \in restrictions.edgeBlacklist, x \in task.nodes : pq \subseteq Adjacent(pdag, x)
      BY <1>3, <1>4, <2>1, MissingWasBlacklisted
    <3>2. QED BY <3>1 DEF LookupsSucceed
  <2>2. QED BY <2>1 DEF LookupsSucceed
<1>10. QED BY <1>1, <1>3, <1>5, <1>6, <1>7, <1>8, <1>9 DEF IInv

-------------------------------------------------------------------------------
(* The invariant is inductive.                                             *)

LEMMA SearchIInv == IInv /\ FindSkeleton => IInv'
BY BeginStep, TakeStep, LookStep, EnterStep, RemoveStep, EndMarginalStep, TestStep, EndLevelStep
   DEF FindSkeleton

LEMMA StutterIInv == IInv /\ UNCHANGED vars => IInv'
<1> SUFFICES ASSUME IInv, UNCHANGED vars PROVE IInv'
  OBVIOUS
<1>1. UNCHANGED <<task, restrictions, pdag, phase, evaluated, toCheck, nextNode, changed,
                  sepset, pending, stage, missed, level, tested, toRemove>>
  BY DEF vars, problem, rulesState, searchState
<1>2. TypeOK' /\ GraphShrinks' /\ SepsetsSound' /\ MarginalSound'
  BY <1>1 DEF IInv, TypeOK, GraphShrinks, SepsetsSound, MarginalSound, Start, Dispensable, AllIdle
<1>3. LevelExact' /\ ListsKept' /\ ChildApart' /\ LookupsSucceed'
  BY <1>1 DEF IInv, LevelExact, ListsKept, ChildApart, LookupsSucceed, SeparableNow, ListsHold,
              NoneForced
<1>4. QED BY <1>2, <1>3 DEF IInv

LEMMA NextIInv == IInv /\ [Next]_vars => IInv'
BY SearchIInv, OrientIInv, StutterIInv DEF Next, Returned

LEMMA Invariance == Spec => []IInv
<1>1. Init => IInv
  BY InitIInv
<1>2. IInv /\ [Next]_vars => IInv'
  BY NextIInv
<1>3. QED BY <1>1, <1>2, PTL DEF Spec

-------------------------------------------------------------------------------
(* The theorems.                                                           *)

\* The variables of find_skeleton and of the orientation keep their types, and no
\* pair of nodes ever has both an edge and an arc.
THEOREM Typing == Spec => []TypeOK
<1>1. IInv => TypeOK
  BY DEF IInv
<1>2. QED BY <1>1, Invariance, PTL

\* Each pair that is not joined any more has a recorded separating set, one that
\* the test confirmed, whatever the threads of find_skeleton do.
THEOREM Separations == Spec => []SepsetsSound
<1>1. IInv => SepsetsSound
  BY DEF IInv
<1>2. QED BY <1>1, Invariance, PTL

\* The graph PC returns has the whitelisted arcs and edges and none of the
\* blacklisted, in every order of the v-structures.
THEOREM Restricted == Spec => []RestrictionsKept
<1>1. IInv => RestrictionsKept
  <2> SUFFICES ASSUME IInv, phase = "done" PROVE RestrictionsKept
    BY DEF RestrictionsKept
  <2>1. ListsHold(pdag)
    BY DEF IInv, ListsKept
  <2>2. Skeleton(Start) = Complete(task) \ restrictions.edgeBlacklist
    BY Basics, StartGraphEffect DEF IInv, Start
  <2>3. restrictions.edgeBlacklist \cap Skeleton(pdag) = {}
    BY <2>2 DEF IInv, GraphShrinks
  <2>4. QED BY <2>1, <2>3 DEF RestrictionsKept, ListsHold
<1>2. QED BY <1>1, Invariance, PTL

\* The look-up of a separating set throws only for a blacklisted pair with a common
\* neighbour, and only with use_sepsets.
THEOREM Lookups == Spec => []LookupsSucceed
<1>1. IInv => LookupsSucceed
  BY DEF IInv
<1>2. QED BY <1>1, Invariance, PTL

-------------------------------------------------------------------------------
(* The search implements the levels.                                       *)

\* LevelSearch has its own copies of the operators on graphs.
LEMMA SameOperators ==
    /\ \A t : Levels!StartGraph(t) = StartGraph(t)
    /\ \A t : Levels!ValidateRestrictions(t) = ValidateRestrictions(t)
    /\ \A g : Levels!Skeleton(g) = Skeleton(g)
    /\ \A S : Levels!Cardinality(S) = Cardinality(S)
<1> USE DEF Levels!Ends, Ends, Levels!Reverse, Reverse, Levels!Arcs, Arcs
<1>1. \A t : Levels!ValidateRestrictions(t) = ValidateRestrictions(t)
  BY DEF Levels!ValidateRestrictions, ValidateRestrictions, Levels!DerivedWhitelist, DerivedWhitelist
<1>2. \A g : Levels!Skeleton(g) = Skeleton(g)
  BY DEF Levels!Skeleton, Skeleton
<1>3. \A t : Levels!NodePairs(t) = NodePairs(t) /\ Levels!InterfacePairs(t) = InterfacePairs(t)
  BY DEF Levels!NodePairs, NodePairs, Levels!InterfacePairs, InterfacePairs
<1>4. \A g, A : Levels!DirectAll(g, A) = DirectAll(g, A)
  BY DEF Levels!DirectAll, DirectAll
<1>5. \A t : Levels!StartGraph(t) = StartGraph(t)
  BY <1>1, <1>3, <1>4 DEF Levels!StartGraph, StartGraph
<1>6. \A S : Levels!Cardinality(S) = Cardinality(S)
  BY Zenon DEF Levels!Cardinality, Cardinality
<1>7. QED BY <1>1, <1>2, <1>5, <1>6

\* Counting edges tells whether one is left that is not whitelisted.
LEMMA MoreThan ==
    ASSUME NEW S, IsFiniteSet(S), NEW T \in SUBSET S
    PROVE  Cardinality(S) > Cardinality(T) <=> S \ T # {}
<1>1. /\ IsFiniteSet(T) /\ Cardinality(T) <= Cardinality(S)
      /\ Cardinality(S) = Cardinality(T) => S = T
  BY FS_Subset
<1>2. Cardinality(S) \in Nat /\ Cardinality(T) \in Nat
  BY <1>1, FS_CardinalityType
<1>3. S = T \/ S \ T # {}
  OBVIOUS
<1>4. QED BY <1>1, <1>2, <1>3

\* A graph of the search: edges of the start, with its arcs.
Reached(g) ==
    /\ g \in Graphs /\ NoOverlap(g)
    /\ g.arcs = Start.arcs /\ g.edges \subseteq Start.edges
    /\ restrictions.edgeWhitelist \subseteq g.edges

LEMMA SearchReached ==
    ASSUME IInv, phase \in Searching
    PROVE  Reached(pdag) /\ ListsHold(Start) /\ restrictions.edgeWhitelist \subseteq Start.edges
<1>1. phase \notin {"start", "rejected"} \cup Oriented
  BY DEF Searching, Oriented
<1>2. ~Contradiction(task)
  BY <1>1 DEF IInv, ListsKept
<1>3. QED BY <1>1, <1>2, Basics, WhitelistIn, StartHolds DEF Reached, IInv, GraphShrinks

\* What a node sees in the skeleton are its neighbours and parents.
LEMMA SeenIsAdjacent ==
    ASSUME NEW g, Reached(g), NEW x \in Nodes
    PROVE  Levels!Seen(Start, Skeleton(g), x) = Adjacent(g, x)
<1>1. g.arcs \in SUBSET Arcs /\ g.edges \in SUBSET Edges /\ g.arcs = Start.arcs /\ NoOverlap(g)
  BY DEF Reached, Graphs
<1>2. Levels!Seen(Start, Skeleton(g), x) =
        {y \in Nodes : {x, y} \in Skeleton(g) /\ (<<x, y>> \in g.arcs => <<y, x>> \in g.arcs)}
  BY <1>1 DEF Levels!Seen
<1>3. ASSUME NEW y \in Nodes
      PROVE  ({x, y} \in Skeleton(g) /\ (<<x, y>> \in g.arcs => <<y, x>> \in g.arcs))
               <=> ({x, y} \in g.edges \/ <<y, x>> \in g.arcs)
  <2>1. Ends(<<x, y>>) = {x, y} /\ Ends(<<y, x>>) = {x, y}
    BY DEF Ends
  <2>2. {x, y} \in g.edges => <<x, y>> \notin g.arcs
    BY <1>1, <2>1 DEF NoOverlap
  <2>3. {x, y} \in Skeleton(g) <=> {x, y} \in g.edges \/ <<x, y>> \in g.arcs \/ <<y, x>> \in g.arcs
    <3>1. ASSUME NEW a \in g.arcs, Ends(a) = {x, y}
          PROVE  a = <<x, y>> \/ a = <<y, x>>
      <4>1. PICK p \in Nodes, q \in Nodes : a = <<p, q>> /\ p # q
        BY <1>1 DEF Arcs
      <4>2. {p, q} = {x, y}
        BY <3>1, <4>1 DEF Ends
      <4>3. QED BY <4>1, <4>2
    <3>2. QED BY <2>1, <3>1 DEF Skeleton
  <2>4. QED BY <2>2, <2>3
<1>4. Adjacent(g, x) = {y \in Nodes : {x, y} \in g.edges \/ <<y, x>> \in g.arcs}
  BY DEF Adjacent, Neighbors, Parents
<1>5. QED BY <1>2, <1>3, <1>4

\* The removable pairs that are left.
LEMMA RemovableLeft ==
    ASSUME TypeOK, NEW g, Reached(g)
    PROVE  Skeleton(g) \cap Levels!Removable(Start) = g.edges \ restrictions.edgeWhitelist
<1>1. Levels!Removable(Start) = Start.edges \ restrictions.edgeWhitelist
  BY SameOperators, Basics DEF Levels!Removable
<1>2. \A a \in g.arcs : Ends(a) \notin Start.edges
  BY Basics DEF Reached, NoOverlap
<1>3. QED BY <1>1, <1>2 DEF Reached, Skeleton

\* The loop condition of find_skeleton.
LEMMA LoopCondition ==
    ASSUME TypeOK, NEW g, Reached(g), NEW k \in Nat
    PROVE  Levels!GoesOn(Start, Skeleton(g), k) <=> OpenEdges(g) /\ ~MaxCardinality(g, k)
<1>1. g.arcs \in SUBSET Arcs /\ g.edges \in SUBSET Edges /\ NoOverlap(g)
  BY DEF Reached, Graphs
<1>2. OpenEdges(g) <=> Skeleton(g) \cap Levels!Removable(Start) # {}
  <2>1. IsFiniteSet(g.edges) /\ restrictions.edgeWhitelist \in SUBSET g.edges
    BY <1>1, FiniteEdges DEF Reached
  <2>2. QED BY <2>1, RemovableLeft, MoreThan DEF OpenEdges
<1>3. ASSUME NEW x \in Nodes
      PROVE  Cardinality(Levels!Seen(Start, Skeleton(g), x)) > k
               <=> ~(Cardinality(Neighbors(g, x)) + Cardinality(Parents(g, x)) <= k)
  <2>1. Neighbors(g, x) \in SUBSET Nodes /\ Parents(g, x) \in SUBSET Nodes
    BY DEF Neighbors, Parents
  <2>2. IsFiniteSet(Neighbors(g, x)) /\ IsFiniteSet(Parents(g, x))
    BY <2>1, NodesAssumption, FS_Subset
  <2>3. Neighbors(g, x) \cap Parents(g, x) = {}
    <3>1. ASSUME NEW y \in Neighbors(g, x) \cap Parents(g, x)
          PROVE  FALSE
      <4>1. {x, y} \in g.edges /\ <<y, x>> \in g.arcs
        BY DEF Neighbors, Parents
      <4>2. Ends(<<y, x>>) = {x, y}
        BY DEF Ends
      <4>3. QED BY <1>1, <4>1, <4>2 DEF NoOverlap
    <3>2. QED BY <3>1
  <2>4. Cardinality(Adjacent(g, x)) = Cardinality(Neighbors(g, x)) + Cardinality(Parents(g, x))
    <3>1. /\ Cardinality(Neighbors(g, x)) \in Nat /\ Cardinality(Parents(g, x)) \in Nat
          /\ Cardinality(Neighbors(g, x) \cap Parents(g, x)) = 0
      BY <2>2, <2>3, FS_CardinalityType, FS_EmptySet
    <3>2. Cardinality(Neighbors(g, x) \cup Parents(g, x)) =
            Cardinality(Neighbors(g, x)) + Cardinality(Parents(g, x))
              - Cardinality(Neighbors(g, x) \cap Parents(g, x))
      BY <2>2, FS_Union
    <3>3. QED BY <3>1, <3>2 DEF Adjacent
  <2>5. Cardinality(Neighbors(g, x)) \in Nat /\ Cardinality(Parents(g, x)) \in Nat
    BY <2>2, FS_CardinalityType
  <2>6. QED BY <2>4, <2>5, SeenIsAdjacent
<1>4. \A x \in task.nodes : x \in Nodes
  BY Basics DEF Checked
<1>5. MaxCardinality(g, k) <=>
        \A x \in task.nodes \ task.interface :
            ~(Cardinality(Levels!Seen(Start, Skeleton(g), x)) > k)
  BY <1>3, <1>4, Zenon DEF MaxCardinality
<1>6. Levels!GoesOn(Start, Skeleton(g), k) <=>
        /\ Skeleton(g) \cap Levels!Removable(Start) # {}
        /\ \E x \in task.nodes \ task.interface :
              Cardinality(Levels!Seen(Start, Skeleton(g), x)) > k
  BY SameOperators, Zenon DEF Levels!GoesOn
<1>7. QED BY <1>2, <1>5, <1>6, Zenon

\* A level finds the same edges separable, and level 0 at least those it removes.
LEMMA SeparableExact ==
    ASSUME IInv, phase = "level"
    PROVE  Levels!Separable(Start, level) = SeparableNow(pdag.edges)
<1>1. Reached(pdag) /\ TypeOK /\ pdag.edges \in SUBSET Edges
  BY SearchReached, Basics DEF Searching, IInv
<1> DEFINE sk == IF phase \in {"start", "marginal", "marginal_interface"}
                 THEN Skeleton(StartGraph(task)) ELSE Skeleton(pdag)
<1>2. sk = Skeleton(pdag)
  OBVIOUS
<1>3. Levels!Separable(Start, level) =
        {e \in sk \cap Levels!Removable(Start) :
            \E S \in task.separators[e] :
               Cardinality(S) = level /\ \E x \in e : S \subseteq Levels!Seen(Start, sk, x) \ e}
  BY SameOperators DEF Levels!Separable
<1> HIDE DEF sk
<1>4. sk \cap Levels!Removable(Start) = pdag.edges \ restrictions.edgeWhitelist
  BY <1>1, <1>2, RemovableLeft
<1>5. ASSUME NEW e \in pdag.edges
      PROVE  (\E S \in task.separators[e] :
                 Cardinality(S) = level /\ \E x \in e : S \subseteq Levels!Seen(Start, sk, x) \ e)
               <=> Candidates(pdag, e, level) \cap task.separators[e] # {}
  <2>1. \A x \in e : Levels!Seen(Start, sk, x) = Adjacent(pdag, x)
    BY <1>1, <1>2, SeenIsAdjacent, EdgeEnds
  <2>2. \A S : S \in Candidates(pdag, e, level) <=>
                 Cardinality(S) = level /\ \E x \in e : S \subseteq Adjacent(pdag, x) \ e
    BY DEF Candidates
  <2>3. QED BY <2>1, <2>2
<1>6. QED BY <1>3, <1>4, <1>5 DEF SeparableNow

LEMMA SeparableAtZero ==
    ASSUME IInv, phase \in Marginal
    PROVE  Skeleton(Start) \ Skeleton(pdag) \subseteq Levels!Separable(Start, level)
<1> DEFINE sk == IF phase \in {"start", "marginal", "marginal_interface"}
                 THEN Skeleton(StartGraph(task)) ELSE Skeleton(pdag)
<1>1. sk = Skeleton(Start) /\ level = 0
  BY DEF Marginal, Start, IInv, MarginalSound
<1>2. Levels!Separable(Start, level) =
        {e \in sk \cap Levels!Removable(Start) :
            \E S \in task.separators[e] :
               Cardinality(S) = level /\ \E x \in e : S \subseteq Levels!Seen(Start, sk, x) \ e}
  BY SameOperators DEF Levels!Separable
<1> HIDE DEF sk
<1>3. ASSUME NEW e \in Skeleton(Start) \ Skeleton(pdag)
      PROVE  e \in Levels!Separable(Start, level)
  <2>1. pdag.arcs = Start.arcs
    BY DEF IInv, GraphShrinks, Marginal, Oriented
  <2>2. e \in Start.edges \ pdag.edges /\ e \in Edges
    BY <2>1, Basics DEF Skeleton, IInv
  <2>3. Dispensable(e)
    BY <2>2 DEF IInv, MarginalSound
  <2>4. e \in Levels!Removable(Start)
    BY <2>3, SameOperators, Basics DEF Levels!Removable, Dispensable, IInv
  <2>5. PICK x \in e : TRUE
    BY <2>2 DEF Edges, Arcs, Ends
  <2>6. Cardinality({}) = 0 /\ {} \in task.separators[e]
    BY <2>3, FS_EmptySet DEF Dispensable
  <2>7. QED BY <1>1, <1>2, <2>4, <2>5, <2>6
<1>4. QED BY <1>3

-------------------------------------------------------------------------------
(* The steps.                                                              *)

LEMMA BeginRefines ==
    ASSUME IInv, BeginSearch
    PROVE  Levels!Begin
<1>1. /\ phase = "start" /\ pdag = Start /\ TypeOK
      /\ UNCHANGED <<task, restrictions, pdag, level>>
  BY DEF BeginSearch, problem, IInv, GraphShrinks
<1>2. \/ phase' = "rejected"
      \/ /\ ~Contradiction(task)
         /\ phase' = IF OpenEdges(pdag) THEN "marginal" ELSE "found"
  BY DEF BeginSearch, Rejected
<1>3. Levels!StartGraph(task) = Start /\ Start' = Start
  BY <1>1, SameOperators DEF Start
<1>4. ASSUME ~Contradiction(task)
      PROVE  OpenEdges(pdag) <=> Levels!Removable(Start) # {}
  <2>1. restrictions.edgeWhitelist \in SUBSET Start.edges
    BY <1>4, StartHolds
  <2>2. IsFiniteSet(Start.edges)
    BY <1>1, Basics, FiniteEdges
  <2>3. Levels!Removable(Start) = Start.edges \ restrictions.edgeWhitelist
    BY <1>1, SameOperators, Basics DEF Levels!Removable
  <2>4. QED BY <1>1, <2>1, <2>2, <2>3, MoreThan DEF OpenEdges
<1>5. QED BY <1>1, <1>2, <1>3, <1>4 DEF Levels!Begin, Searching, Start

\* The barrier of level 0 and the end of a level are one step of LevelSearch each.
LEMMA StartLevelRefines ==
    ASSUME IInv, phase \in Searching, NEW k \in Nat, k = level + 1,
           StartLevel(k, pdag'), Reached(pdag'),
           UNCHANGED <<task, restrictions>>,
           NEW sk, sk = (IF phase \in {"start", "marginal", "marginal_interface"}
                         THEN Skeleton(StartGraph(task)) ELSE Skeleton(pdag)),
           Skeleton(pdag') \subseteq sk,
           sk \ Skeleton(pdag') \subseteq Levels!Separable(Start, level),
           level > 0 => Skeleton(pdag') \cap Levels!Separable(Start, level) = {}
    PROVE  Levels!Level
<1>1. /\ phase' = IF OpenEdges(pdag') /\ ~MaxCardinality(pdag', k) THEN "level" ELSE "found"
      /\ level' = level + 1
  BY DEF StartLevel
<1>2. Levels!GoesOn(Start, Skeleton(pdag'), level + 1) <=> phase' = "level"
  BY <1>1, LoopCondition DEF IInv
<1>3. Levels!StartGraph(task) = Start
  BY SameOperators DEF Start
<1>4. phase \notin {"start", "rejected"} /\ phase' \notin {"start", "rejected", "marginal", "marginal_interface"}
  BY <1>1 DEF Searching
<1>5. phase' \in Searching <=> phase' = "level"
  BY <1>1 DEF Searching
<1>6. QED BY <1>1, <1>2, <1>3, <1>4, <1>5 DEF Levels!Level, Searching

LEMMA EndMarginalRefines ==
    ASSUME IInv, EndMarginal, ~(phase = "marginal" /\ task.interface # {})
    PROVE  Levels!Level
<1>1. phase \in Marginal /\ StartLevel(1, pdag) /\ UNCHANGED <<task, restrictions, pdag>>
  BY DEF EndMarginal, problem, Marginal
<1>2. phase \in Searching /\ level = 0 /\ Reached(pdag)
  BY <1>1, SearchReached DEF Marginal, Searching, IInv, MarginalSound
<1> DEFINE sk == IF phase \in {"start", "marginal", "marginal_interface"}
                 THEN Skeleton(StartGraph(task)) ELSE Skeleton(pdag)
<1>3. sk = Skeleton(Start) /\ Skeleton(pdag) \subseteq sk
  BY <1>1 DEF Marginal, Start, IInv, GraphShrinks
<1>4. sk \ Skeleton(pdag) \subseteq Levels!Separable(Start, level)
  BY <1>1, <1>3, SeparableAtZero
<1>5. 1 \in Nat /\ 1 = level + 1 /\ ~(level > 0) /\ StartLevel(1, pdag') /\ Reached(pdag')
  BY <1>1, <1>2
<1>6. Skeleton(pdag') \subseteq sk /\ sk \ Skeleton(pdag') \subseteq Levels!Separable(Start, level)
  BY <1>1, <1>3, <1>4
<1> HIDE DEF sk
<1>7. sk = (IF phase \in {"start", "marginal", "marginal_interface"}
            THEN Skeleton(StartGraph(task)) ELSE Skeleton(pdag))
  BY DEF sk
<1>8. QED BY <1>1, <1>2, <1>5, <1>6, <1>7, StartLevelRefines

LEMMA EndLevelRefines ==
    ASSUME IInv, EndLevel
    PROVE  Levels!Level
<1>1. /\ phase = "level" /\ tested = pdag.edges
      /\ pdag' = [pdag EXCEPT !.edges = @ \ toRemove]
      /\ StartLevel(level + 1, pdag') /\ UNCHANGED <<task, restrictions>>
  BY DEF EndLevel, problem
<1>2. level \in Nat /\ toRemove = SeparableNow(pdag.edges) /\ toRemove \in SUBSET pdag.edges
  BY <1>1 DEF IInv, LevelExact, SeparableNow, TypeOK
<1>3. /\ pdag' \in Graphs /\ NoOverlap(pdag') /\ pdag'.arcs = Start.arcs
      /\ pdag'.edges \subseteq Start.edges /\ pdag'.edges = pdag.edges \ toRemove
      /\ Skeleton(pdag') = Skeleton(pdag) \ toRemove
  BY <1>1, <1>2, RemovePair DEF Oriented
<1>4. phase \in Searching /\ restrictions.edgeWhitelist \subseteq pdag.edges
  BY <1>1, WhitelistIn DEF Searching, Oriented
<1>5. Reached(pdag')
  BY <1>2, <1>3, <1>4 DEF Reached, SeparableNow
<1>6. Levels!Separable(Start, level) = toRemove
  BY <1>1, <1>2, SeparableExact
<1> DEFINE sk == IF phase \in {"start", "marginal", "marginal_interface"}
                 THEN Skeleton(StartGraph(task)) ELSE Skeleton(pdag)
<1>7. sk = Skeleton(pdag)
  BY <1>1
<1>8. /\ Skeleton(pdag') \subseteq sk
      /\ sk \ Skeleton(pdag') \subseteq Levels!Separable(Start, level)
      /\ Skeleton(pdag') \cap Levels!Separable(Start, level) = {}
  BY <1>3, <1>6, <1>7
<1> HIDE DEF sk
<1>9. sk = (IF phase \in {"start", "marginal", "marginal_interface"}
            THEN Skeleton(StartGraph(task)) ELSE Skeleton(pdag))
  BY DEF sk
<1>10. level + 1 \in Nat
  BY <1>2
<1>11. QED BY <1>1, <1>4, <1>5, <1>8, <1>9, <1>10, StartLevelRefines

\* A step that keeps the skeleton, the level and the part of the algorithm.
LEMMA LevelStutter ==
    ASSUME UNCHANGED <<task, level>>,
           \/ phase \in Marginal /\ phase' \in Marginal
           \/ phase = "level" /\ phase' = "level" /\ pdag' = pdag
           \/ /\ phase \in {"found"} \cup Oriented /\ phase' \in {"found"} \cup Oriented
              /\ Skeleton(pdag') = Skeleton(pdag)
           \/ phase' = phase /\ pdag' = pdag
    PROVE  UNCHANGED Levels!vars
BY DEF Levels!vars, Marginal, Oriented, Searching

LEMMA FindRefines ==
    ASSUME IInv, FindSkeleton
    PROVE  Levels!Next \/ UNCHANGED Levels!vars
<1>1. CASE BeginSearch
  BY <1>1, BeginRefines DEF Levels!Next
<1>2. CASE EndMarginal
  <2>1. CASE phase = "marginal" /\ task.interface # {}
    <3>1. phase' = "marginal_interface" /\ UNCHANGED <<task, level, pdag>>
      BY <1>2, <2>1 DEF EndMarginal, problem
    <3>2. QED BY <2>1, <3>1, LevelStutter DEF Marginal
  <2>2. QED BY <1>2, <2>1, EndMarginalRefines DEF Levels!Next
<1>3. CASE EndLevel
  BY <1>3, EndLevelRefines DEF Levels!Next
<1>4. ASSUME NEW e \in Edges, TestEdge(e)
      PROVE  UNCHANGED Levels!vars
  BY <1>4, LevelStutter DEF TestEdge, problem
<1>5. ASSUME NEW t \in Threads, Take(t) \/ Look(t) \/ EnterCritical(t) \/ Remove(t)
      PROVE  UNCHANGED Levels!vars
  <2>1. Take(t) => phase \in Marginal
    BY DEF Take, Marginal
  <2>2. Look(t) \/ EnterCritical(t) \/ Remove(t) => phase \in Marginal
    BY BusyInMarginal DEF Look, EnterCritical, Remove
  <2>3. phase' = phase /\ UNCHANGED <<task, level>>
    BY <1>5 DEF Take, Look, EnterCritical, Remove, problem
  <2>4. QED BY <1>5, <2>1, <2>2, <2>3, LevelStutter
<1>6. QED BY <1>1, <1>2, <1>3, <1>4, <1>5 DEF FindSkeleton

LEMMA NextRefines == IInv /\ [Next]_vars => [Levels!Next]_(Levels!vars)
<1> SUFFICES ASSUME IInv, [Next]_vars PROVE Levels!Next \/ UNCHANGED Levels!vars
  OBVIOUS
<1>1. CASE FindSkeleton
  BY <1>1, FindRefines
<1>2. CASE OrientSkeleton
  BY <1>2, OrientIInv, LevelStutter DEF Steady
<1>3. CASE UNCHANGED vars
  BY <1>3, LevelStutter DEF vars, problem, searchState
<1>4. QED BY <1>1, <1>2, <1>3 DEF Next, Returned

\* Every run of the threaded skeleton search and of the orientation is, with the
\* threads and the order of the tests forgotten, a run of LevelSearch: above level 0
\* the result of a level depends on neither.
THEOREM Refinement == Spec => LevelsRefined
<1>1. Init => Levels!Init
  <2> SUFFICES ASSUME Init PROVE Levels!Init
    OBVIOUS
  <2>1. task \in Tasks /\ level = 0 /\ phase = "start"
    BY DEF Init, SearchInit
  <2>2. QED BY <2>1, SameOperators DEF Levels!Init
<1>2. IInv /\ [Next]_vars => [Levels!Next]_(Levels!vars)
  BY NextRefines
<1>3. QED BY <1>1, <1>2, Invariance, PTL DEF Spec, LevelsRefined, Levels!Spec

-------------------------------------------------------------------------------
(* What a faithful test finds: the graph of the equivalence class.         *)

\* Every set of neighbours that separates a joined pair has k nodes or more, and there
\* is none.
TestedBelow(g, k) ==
    \A e \in g.edges : \A x \in e : \A S \in task.separators[e] :
        S \subseteq Adjacent(g, x) \ e => Cardinality(S) >= k

TestedAll(g) ==
    \A e \in g.edges : \A x \in e : \A S \in task.separators[e] : ~(S \subseteq Adjacent(g, x) \ e)

\* No thread has looked at the edge yet, or one has it in hand.
InHand(e) ==
    \/ \E a \in pending : Ends(a) = e
    \/ \E t \in Threads : stage[t].at # "idle" /\ Ends(stage[t].pair) = e

\* How far the search is with the edges of the skeleton of d.
SearchExact(d) ==
    /\ phase # "marginal_interface"
    /\ phase = "marginal" =>
          \A e \in pdag.edges : {} \in task.separators[e] => e \in missed \/ InHand(e)
    /\ phase = "level" /\ missed = {} => TestedBelow(pdag, level)
    /\ phase \in {"found"} \cup Oriented /\ missed = {} => Directed(d)

ClassInv == \A d \in task.dags : SearchExact(d)

\* A task with a faithful test lists nothing, and the search starts with all edges.
LEMMA NothingListed ==
    ASSUME TypeOK, NEW d, Faithful(task, d)
    PROVE  /\ d \in Graphs /\ IsDag(d) /\ task.separators = Answers(d)
           /\ task.nodes = Nodes /\ task.interface = {}
           /\ restrictions.edgeWhitelist = {}
           /\ Start.arcs = {} /\ Start.edges = Edges /\ Skeleton(Start) = Edges
           /\ \A e \in Edges : \E a \in NodePairs(task) : Ends(a) = e
<1>1. /\ task.arcBlacklist = {} /\ task.arcWhitelist = {}
      /\ task.edgeBlacklist = {} /\ task.edgeWhitelist = {}
      /\ task.nodes = Nodes /\ task.interface = {}
      /\ d \in Graphs /\ IsDag(d) /\ task.separators = Answers(d)
  BY DEF Faithful
<1>2. DerivedWhitelist(task) = {}
  BY <1>1 DEF DerivedWhitelist
<1>3. ValidateRestrictions(task) =
         [arcWhitelist |-> {}, edgeWhitelist |-> {}, arcBlacklist |-> {}, edgeBlacklist |-> {}]
  BY <1>1, <1>2 DEF ValidateRestrictions
<1>4. Checked(task) /\ restrictions = ValidateRestrictions(task)
  BY Basics
<1>5. Start.arcs = {} /\ Skeleton(Start) = Complete(task)
  BY <1>3, <1>4, StartGraphEffect DEF Start
<1>6. ASSUME NEW e \in Edges
      PROVE  \E a \in NodePairs(task) : Ends(a) = e
  <2>1. PICK b \in Arcs : e = Ends(b)
    BY DEF Edges
  <2>2. PICK x \in Nodes, y \in Nodes : b = <<x, y>> /\ x # y
    BY <2>1 DEF Arcs
  <2>3. CASE x < y
    BY <1>1, <2>1, <2>2, <2>3 DEF NodePairs, Ends
  <2>4. CASE y < x
    <3>1. <<y, x>> \in NodePairs(task)
      BY <1>1, <2>2, <2>4 DEF NodePairs, Arcs
    <3>2. Ends(<<y, x>>) = e
      BY <2>1, <2>2 DEF Ends
    <3>3. QED BY <3>1, <3>2
  <2>5. QED BY <2>2, <2>3, <2>4, NodesAssumption
<1>7. Complete(task) = Edges
  BY <1>4, <1>6, CompletePairs DEF Complete
<1>8. Start.edges = Edges
  BY <1>5, <1>7 DEF Skeleton
<1>9. QED BY <1>1, <1>3, <1>4, <1>5, <1>6, <1>7, <1>8

\* Nodes that are joined in d have no separating set, and stay joined.
LEMMA SkeletonKept ==
    ASSUME NEW d \in Graphs, IsDag(d), task.separators = Answers(d),
           NEW g, NEW seps,
           \A e \in Edges \ Skeleton(g) : seps[e] # {} /\ seps[e] \subseteq task.separators[e]
    PROVE  Skeleton(d) \subseteq Skeleton(g)
<1>1. ASSUME NEW e \in Skeleton(d), e \notin Skeleton(g)
      PROVE  FALSE
  <2>1. e \in Edges
    BY ReverseArc DEF Skeleton, Graphs
  <2>2. Answers(d)[e] = {}
    BY <2>1, FaithfulAnswers
  <2>3. QED BY <1>1, <2>1, <2>2
<1>2. QED BY <1>1

\* When no set is left to test, the skeleton is that of d: the parents of one of two
\* nodes that d does not join separate them.
LEMMA SkeletonFound ==
    ASSUME NEW d \in Graphs, IsDag(d), task.separators = Answers(d),
           NEW g \in Graphs, g.arcs = {}, Skeleton(d) \subseteq Skeleton(g), TestedAll(g)
    PROVE  Skeleton(g) = Skeleton(d)
<1>1. Skeleton(g) = g.edges /\ g.edges \in SUBSET Edges
  BY DEF Skeleton, Graphs
<1>2. ASSUME NEW e \in g.edges, e \notin Skeleton(d)
      PROVE  FALSE
  <2>1. e \in Edges
    BY <1>1
  <2>2. PICK z \in e : Parents(d, z) \in Answers(d)[e]
    BY <1>2, <2>1, FaithfulAnswers
  <2>3. Parents(d, z) \in SUBSET (Nodes \ e) /\ z \in Nodes
    BY <2>1, <2>2, FaithfulAnswers, EdgeEnds
  <2>4. ASSUME NEW u \in Parents(d, z)
        PROVE  u \in Adjacent(g, z)
    <3>1. u \in Nodes /\ {z, u} \in Skeleton(d)
      BY <2>3, AdjacentEnds
    <3>2. QED BY <1>1, <3>1 DEF Adjacent, Neighbors
  <2>5. Parents(d, z) \subseteq Adjacent(g, z) \ e
    BY <2>3, <2>4
  <2>6. QED BY <2>2, <2>5 DEF TestedAll
<1>3. QED BY <1>1, <1>2

\* Where the search stops, no larger set is left to test.
LEMMA NothingLeft ==
    ASSUME NEW d, Faithful(task, d), TypeOK,
           NEW g \in Graphs, g.arcs = {}, NEW k \in Nat, TestedBelow(g, k),
           ~(OpenEdges(g) /\ ~MaxCardinality(g, k))
    PROVE  TestedAll(g)
<1>1. /\ task.nodes = Nodes /\ task.interface = {} /\ restrictions.edgeWhitelist = {}
      /\ g.edges \in SUBSET Edges
  BY NothingListed DEF Graphs
<1>2. CASE ~OpenEdges(g)
  <2>1. IsFiniteSet(g.edges)
    BY <1>1, FiniteEdges
  <2>2. g.edges \ {} = {}
    <3>1. {} \in SUBSET g.edges
      OBVIOUS
    <3>2. ~(Cardinality(g.edges) > Cardinality({}))
      BY <1>1, <1>2 DEF OpenEdges
    <3>3. QED BY <2>1, <3>1, <3>2, MoreThan
  <2>3. QED BY <2>2 DEF TestedAll
<1>3. CASE MaxCardinality(g, k)
  <2>1. ASSUME NEW e \in g.edges, NEW x \in e, NEW S \in task.separators[e],
               S \subseteq Adjacent(g, x) \ e
        PROVE  FALSE
    <3>1. PICK y \in Nodes : y # x /\ e = {x, y} /\ x \in Nodes
      BY <1>1, EdgeEnds
    <3>2. Parents(g, x) = {} /\ y \in Neighbors(g, x) /\ Neighbors(g, x) \in SUBSET Nodes
      BY <2>1, <3>1 DEF Parents, Neighbors
    <3>3. IsFiniteSet(Neighbors(g, x)) /\ Cardinality(Neighbors(g, x)) \in Nat
      BY <3>2, NodesAssumption, FS_Subset, FS_CardinalityType
    <3>4. Cardinality(Neighbors(g, x)) <= k
      <4>1. Cardinality(Neighbors(g, x)) + Cardinality(Parents(g, x)) <= k
        BY <1>1, <1>3, <3>1 DEF MaxCardinality
      <4>2. Cardinality(Parents(g, x)) = 0
        BY <3>2, FS_EmptySet
      <4>3. QED BY <3>3, <4>1, <4>2
    <3>5. S \in SUBSET Neighbors(g, x) /\ S # Neighbors(g, x)
      BY <2>1, <3>1, <3>2 DEF Adjacent
    <3>6. Cardinality(S) \in Nat /\ Cardinality(S) < Cardinality(Neighbors(g, x))
      BY <3>3, <3>5, FS_Subset, FS_CardinalityType
    <3>7. Cardinality(S) >= k
      BY <2>1 DEF TestedBelow
    <3>8. QED BY <3>3, <3>4, <3>6, <3>7
  <2>2. QED BY <2>1 DEF TestedAll
<1>4. QED BY <1>2, <1>3

\* The loop condition before level k: the search goes on, or has found the skeleton of d.
LEMMA LevelDirects ==
    ASSUME IInv, IInv', NEW d, Faithful(task, d), NEW k \in Nat, StartLevel(k, pdag'),
           UNCHANGED <<task, restrictions, missed>>,
           missed = {} => TestedBelow(pdag', k),
           pdag'.arcs = {}
    PROVE  SearchExact(d)'
<1>1. /\ d \in Graphs /\ IsDag(d) /\ task.separators = Answers(d) /\ Skeleton(Start) = Edges
      /\ TypeOK /\ Start' = Start
  BY NothingListed DEF IInv, Start
<1>2. pdag' \in Graphs
  BY DEF IInv, TypeOK
<1>3. /\ phase' = IF OpenEdges(pdag') /\ ~MaxCardinality(pdag', k) THEN "level" ELSE "found"
      /\ level' = k
  BY DEF StartLevel
<1>4. CASE phase' = "level"
  <2>1. missed' = {} => TestedBelow(pdag, level)'
    BY <1>3 DEF TestedBelow
  <2>2. QED BY <1>4, <2>1 DEF SearchExact, Oriented
<1>5. CASE phase' = "found" /\ missed = {}
  <2>1. TestedAll(pdag')
    <3>1. ~(OpenEdges(pdag') /\ ~MaxCardinality(pdag', k))
      BY <1>3, <1>5
    <3>2. QED BY <1>1, <1>2, <1>5, <3>1, NothingLeft
  <2>2. Skeleton(d) \subseteq Skeleton(pdag')
    <3>1. \A e \in Edges \ Skeleton(pdag') : sepset'[e] # {} /\ sepset'[e] \subseteq task.separators[e]
      BY <1>1 DEF IInv, SepsetsSound, Start
    <3>2. QED BY <1>1, <3>1, SkeletonKept
  <2>3. Skeleton(pdag') = Skeleton(d)
    BY <1>1, <1>2, <2>1, <2>2, SkeletonFound
  <2>4. Directed(d)'
    BY <1>5, <2>3 DEF Directed, Ruling, RoundInv
  <2>5. QED BY <1>5, <2>4 DEF SearchExact
<1>6. CASE phase' = "found" /\ missed # {}
  BY <1>6 DEF SearchExact
<1>7. QED BY <1>3, <1>4, <1>5, <1>6

-------------------------------------------------------------------------------
(* The steps.                                                              *)

LEMMA BeginExact ==
    ASSUME IInv, IInv', NEW d, Faithful(task, d), BeginSearch
    PROVE  SearchExact(d)'
<1>1. /\ phase = "start" /\ pdag = Start
      /\ UNCHANGED <<task, restrictions, pdag, missed>>
      /\ \/ phase' = "rejected"
         \/ phase' = "marginal" /\ pending' = NodePairs(task)
         \/ phase' = "found" /\ ~OpenEdges(pdag)
  BY DEF BeginSearch, problem, IInv, GraphShrinks
<1>2. CASE phase' = "rejected"
  BY <1>2 DEF SearchExact, Oriented
<1>3. CASE phase' = "marginal"
  <2>1. \A e \in pdag.edges : e \in Edges
    BY Basics DEF IInv
  <2>2. \A e \in pdag'.edges : \E a \in pending' : Ends(a) = e
    BY <1>1, <1>3, <2>1, NothingListed DEF IInv
  <2>3. QED BY <1>3, <2>2 DEF SearchExact, InHand, Oriented
<1>4. CASE phase' = "found"
  <2>1. /\ d \in Graphs /\ IsDag(d) /\ pdag.arcs = {} /\ pdag.edges = Edges /\ Skeleton(pdag) = Edges
        /\ task.separators = Answers(d) /\ TypeOK /\ pdag \in Graphs
    BY <1>1, NothingListed, Basics DEF IInv
  <2>2. TestedBelow(pdag, 0)
    <3>1. ASSUME NEW e \in Edges, NEW S \in task.separators[e]
          PROVE  Cardinality(S) >= 0
      <4>1. S \in SUBSET Nodes
        BY <3>1, Basics DEF IInv
      <4>2. Cardinality(S) \in Nat
        BY <4>1, NodesAssumption, FS_Subset, FS_CardinalityType
      <4>3. QED BY <4>2
    <3>2. QED BY <2>1, <3>1 DEF TestedBelow
  <2>3. TestedAll(pdag)
    BY <1>1, <1>4, <2>1, <2>2, NothingLeft
  <2>4. Skeleton(d) \subseteq Skeleton(pdag)
    BY <2>1, ReverseArc DEF Skeleton, Graphs
  <2>5. Skeleton(pdag) = Skeleton(d)
    BY <2>1, <2>3, <2>4, SkeletonFound
  <2>6. Directed(d)'
    BY <1>1, <1>4, <2>1, <2>5 DEF Directed, Ruling, RoundInv
  <2>7. QED BY <1>4, <2>6 DEF SearchExact
<1>5. QED BY <1>1, <1>2, <1>3, <1>4

\* The steps of the threads: no edge leaves their hands untested.
LEMMA ThreadExact ==
    ASSUME IInv, NEW d, Faithful(task, d), SearchExact(d), NEW t \in Threads,
           Take(t) \/ Look(t) \/ EnterCritical(t) \/ Remove(t)
    PROVE  SearchExact(d)'
<1>1. phase \in Marginal /\ phase' = phase /\ UNCHANGED task
  <2>1. Take(t) => phase \in Marginal
    BY DEF Take, Marginal
  <2>2. Look(t) \/ EnterCritical(t) \/ Remove(t) => phase \in Marginal
    BY BusyInMarginal DEF Look, EnterCritical, Remove
  <2>3. phase' = phase /\ UNCHANGED task
    BY DEF Take, Look, EnterCritical, Remove, problem
  <2>4. QED BY <2>1, <2>2, <2>3
<1>2. phase = "marginal"
  BY <1>1 DEF SearchExact, Marginal
<1>3. SUFFICES ASSUME NEW e \in pdag'.edges, {} \in task.separators[e]
               PROVE  e \in missed' \/ InHand(e)'
  BY <1>1, <1>2 DEF SearchExact, Oriented
<1>4. stage \in [Threads -> Stages]
  BY DEF IInv, TypeOK
<1>5. e \in pdag.edges => e \in missed \/ InHand(e)
  BY <1>2, <1>3 DEF SearchExact
<1>6. CASE Take(t)
  <2>1. PICK a \in pending :
           /\ pending' = pending \ {a} /\ UNCHANGED <<pdag, missed>>
           /\ stage[t] = Idle
           /\ stage' = [stage EXCEPT ![t] = [at |-> "looking", pair |-> a]]
    BY <1>6 DEF Take
  <2>2. stage'[t].at # "idle" /\ stage'[t].pair = a
    BY <1>4, <2>1
  <2>3. \A u \in Threads : stage[u].at # "idle" => stage'[u] = stage[u]
    BY <1>4, <2>1 DEF Idle
  <2>4. QED BY <1>5, <2>1, <2>2, <2>3 DEF InHand
<1>7. CASE Look(t)
  <2>1. /\ UNCHANGED <<pdag, pending>> /\ stage[t].at = "looking" /\ missed \subseteq missed'
        /\ \A u \in Threads : u # t => stage'[u] = stage[u]
    BY <1>4, <1>7 DEF Look
  <2>2. stage[t] \in [at : {"looking", "waiting", "removing"}, pair : Arcs]
    BY <2>1, BusyInMarginal
  <2>3. Ends(stage[t].pair) = e => e \in missed' \/ (stage'[t].at = "waiting" /\ stage'[t].pair = stage[t].pair)
    <3>1. restrictions.edgeWhitelist = {}
      BY NothingListed DEF IInv
    <3>2. QED BY <1>3, <1>4, <1>7, <2>1, <2>2, <3>1 DEF Look
  <2>4. QED BY <1>5, <2>1, <2>3 DEF InHand
<1>8. CASE EnterCritical(t)
  <2>1. /\ UNCHANGED <<pdag, pending, missed>>
        /\ \A u \in Threads : u # t => stage'[u] = stage[u]
        /\ stage'[t].at # "idle" /\ stage'[t].pair = stage[t].pair
    BY <1>4, <1>8, BusyInMarginal DEF EnterCritical
  <2>2. QED BY <1>5, <2>1 DEF InHand
<1>9. CASE Remove(t)
  <2>1. /\ UNCHANGED <<pending, missed>> /\ pdag' = [pdag EXCEPT !.edges = @ \ {Ends(stage[t].pair)}]
        /\ \A u \in Threads : u # t => stage'[u] = stage[u]
    BY <1>4, <1>9 DEF Remove
  <2>2. pdag \in Graphs
    BY DEF IInv, TypeOK
  <2>3. pdag'.edges = pdag.edges \ {Ends(stage[t].pair)}
    BY <2>1, <2>2 DEF Graphs
  <2>4. QED BY <1>5, <2>1, <2>3 DEF InHand
<1>10. QED BY <1>6, <1>7, <1>8, <1>9

\* After level 0 no joined pair is independent given nothing.
LEMMA EndMarginalExact ==
    ASSUME IInv, IInv', NEW d, Faithful(task, d), SearchExact(d), EndMarginal
    PROVE  SearchExact(d)'
<1>1. /\ phase = "marginal" /\ pending = {} /\ AllIdle /\ task.interface = {}
      /\ UNCHANGED <<task, restrictions, pdag, missed>>
  BY NothingListed DEF EndMarginal, SearchExact, problem, IInv
<1>2. StartLevel(1, pdag') /\ pdag'.arcs = {} /\ pdag.edges \in SUBSET Edges
  BY <1>1, NothingListed, Basics DEF EndMarginal, IInv, GraphShrinks, Oriented
<1>3. \A e : ~InHand(e)
  BY <1>1 DEF InHand, AllIdle, Idle
<1>4. ASSUME missed = {}, NEW e \in pdag.edges, NEW S \in task.separators[e]
      PROVE  Cardinality(S) >= 1
  <2>1. S # {}
    BY <1>1, <1>3, <1>4 DEF SearchExact
  <2>2. S \in SUBSET Nodes
    BY <1>2, <1>4, Basics DEF IInv
  <2>3. IsFiniteSet(S) /\ Cardinality(S) \in Nat
    BY <2>2, NodesAssumption, FS_Subset, FS_CardinalityType
  <2>4. Cardinality(S) # 0
    BY <2>1, <2>3, FS_EmptySet
  <2>5. QED BY <2>3, <2>4
<1>5. missed = {} => TestedBelow(pdag', 1)
  BY <1>1, <1>4 DEF TestedBelow
<1>6. QED BY <1>1, <1>2, <1>5, LevelDirects

\* A level removes the pairs that one of its sets separates, and joined nodes only
\* become fewer.
LEMMA EndLevelExact ==
    ASSUME IInv, IInv', NEW d, Faithful(task, d), SearchExact(d), EndLevel
    PROVE  SearchExact(d)'
<1>1. /\ phase = "level" /\ tested = pdag.edges
      /\ pdag' = [pdag EXCEPT !.edges = @ \ toRemove]
      /\ StartLevel(level + 1, pdag') /\ UNCHANGED <<task, restrictions, missed>>
  BY DEF EndLevel, problem
<1>2. /\ level \in Nat /\ toRemove = SeparableNow(pdag.edges) /\ restrictions.edgeWhitelist = {}
      /\ pdag \in Graphs /\ pdag.arcs = {} /\ pdag.edges \in SUBSET Edges
  BY <1>1, Basics, NothingListed DEF IInv, LevelExact, TypeOK, GraphShrinks, Oriented
<1>3. pdag'.arcs = {} /\ pdag'.edges = pdag.edges \ toRemove
  BY <1>1, <1>2 DEF Graphs
<1>4. ASSUME missed = {}, NEW e \in pdag'.edges, NEW x \in e, NEW S \in task.separators[e],
             S \subseteq Adjacent(pdag', x) \ e
      PROVE  Cardinality(S) >= level + 1
  <2>1. e \in pdag.edges /\ e \notin toRemove
    BY <1>3, <1>4
  <2>2. Adjacent(pdag', x) \subseteq Adjacent(pdag, x)
    BY <1>2, <1>3 DEF Adjacent, Neighbors, Parents
  <2>3. Cardinality(S) >= level
    BY <1>1, <1>4, <2>1, <2>2 DEF SearchExact, TestedBelow
  <2>4. Cardinality(S) # level
    <3>1. S \in SUBSET (Adjacent(pdag, x) \ e)
      BY <1>4, <2>2
    <3>2. Cardinality(S) = level => S \in Candidates(pdag, e, level)
      BY <3>1 DEF Candidates
    <3>3. Candidates(pdag, e, level) \cap task.separators[e] = {}
      BY <1>2, <2>1 DEF SeparableNow
    <3>4. QED BY <3>2, <3>3
  <2>5. Cardinality(S) \in Nat
    <3>1. S \in SUBSET Nodes
      BY <1>2, <2>1, Basics DEF IInv
    <3>2. QED BY <3>1, NodesAssumption, FS_Subset, FS_CardinalityType
  <2>6. QED BY <1>2, <2>3, <2>4, <2>5
<1>5. missed = {} => TestedBelow(pdag', level + 1)
  BY <1>4 DEF TestedBelow
<1>6. level + 1 \in Nat
  BY <1>2
<1>7. QED BY <1>1, <1>3, <1>5, <1>6, LevelDirects

LEMMA FindExact ==
    ASSUME IInv, IInv', NEW d, Faithful(task, d), SearchExact(d), FindSkeleton
    PROVE  SearchExact(d)'
<1>1. ASSUME NEW e \in Edges, TestEdge(e)
      PROVE  SearchExact(d)'
  <2>1. phase = "level" /\ UNCHANGED <<task, pdag, phase, level, missed>>
    BY <1>1 DEF TestEdge, problem
  <2>2. TestedBelow(pdag, level)' <=> TestedBelow(pdag, level)
    BY <2>1 DEF TestedBelow
  <2>3. QED BY <2>1, <2>2 DEF SearchExact, Oriented
<1>2. QED BY <1>1, BeginExact, ThreadExact, EndMarginalExact, EndLevelExact DEF FindSkeleton

LEMMA OrientExact ==
    ASSUME IInv, NEW d, Faithful(task, d), SearchExact(d), OrientSkeleton
    PROVE  SearchExact(d)'
<1>1. Orient(sepset) /\ UNCHANGED missed
  BY DEF OrientSkeleton, searchState
<1>2. phase \in {"found"} \cup Oriented /\ phase' \in Oriented
  BY OrientIInv DEF Steady
<1>3. OrientationInv
  BY <1>2, OrientationHolds
<1>4. ASSUME missed = {}
      PROVE  Directed(d)'
  <2>1. Directed(d)
    BY <1>2, <1>4 DEF SearchExact
  <2>2. phase = "evaluate" => Evaluates(sepset, d)
    <3>1. SUFFICES ASSUME phase = "evaluate" PROVE Evaluates(sepset, d)
      OBVIOUS
    <3>2. Skeleton(pdag) = Skeleton(d) /\ pdag.arcs = {}
      BY <2>1, <3>1 DEF Directed
    <3>3. \A e \in Edges \ Skeleton(d) : sepset[e] # {} /\ sepset[e] \subseteq task.separators[e]
      BY <3>2, NothingListed DEF IInv, SepsetsSound, Start
    <3>4. QED BY <1>3, <3>2, <3>3, EvaluatesFaithfully
  <2>3. QED BY <1>1, <1>3, <2>1, <2>2, OrientDirects
<1>5. QED BY <1>1, <1>2, <1>4 DEF SearchExact, Oriented

LEMMA NextExact == IInv /\ IInv' /\ ClassInv /\ [Next]_vars => ClassInv'
<1> SUFFICES ASSUME IInv, IInv', ClassInv, [Next]_vars, NEW d \in task'.dags
             PROVE  SearchExact(d)'
  BY DEF ClassInv
<1>1. UNCHANGED task
  <2>1. FindSkeleton => UNCHANGED task
    BY DEF FindSkeleton, BeginSearch, Take, Look, EnterCritical, Remove, EndMarginal, TestEdge,
           EndLevel, problem
  <2>2. OrientSkeleton => UNCHANGED task
    BY OrientIInv DEF Steady
  <2>3. UNCHANGED vars => UNCHANGED task
    BY DEF vars, problem
  <2>4. QED BY <2>1, <2>2, <2>3 DEF Next, Returned
<1>2. Faithful(task, d) /\ SearchExact(d)
  <2>1. task \in Tasks
    BY DEF IInv, TypeOK
  <2>2. QED BY <1>1, <2>1, DagsAssumption DEF ClassInv
<1>3. CASE FindSkeleton
  BY <1>2, <1>3, FindExact
<1>4. CASE OrientSkeleton
  BY <1>2, <1>4, OrientExact
<1>5. CASE UNCHANGED vars
  <2>1. UNCHANGED <<task, restrictions, pdag, phase, evaluated, toCheck, nextNode, changed,
                    pending, stage, missed, level>>
    BY <1>5 DEF vars, problem, rulesState, searchState
  <2>2. /\ \A e : InHand(e)' <=> InHand(e)
        /\ TestedBelow(pdag, level)' <=> TestedBelow(pdag, level)
    BY <2>1 DEF InHand, TestedBelow
  <2>3. Directed(d)' <=> Directed(d)
    BY <2>1 DEF Directed, Applying, RoundInv
  <2>4. QED BY <1>2, <2>1, <2>2, <2>3 DEF SearchExact
<1>6. QED BY <1>3, <1>4, <1>5 DEF Next, Returned

\* With an independence test that is faithful to a directed acyclic graph d, PC returns
\* the graph of the equivalence class of d: the skeleton of d, and an arc exactly where
\* all members of the class agree. This holds for every number of nodes and threads, in
\* every order of the tests, of the v-structures and of the rules, and for both ways to
\* decide a v-structure, unless an unlocked lookup of level 0 met an erase in progress.
THEOREM FindsTheClass == Spec => []ClassFound
<1>1. Init => ClassInv
  BY DEF Init, SearchInit, ClassInv, SearchExact, Oriented
<1>2. IInv /\ IInv' /\ ClassInv /\ [Next]_vars => ClassInv'
  BY NextExact
<1>3. IInv /\ ClassInv => ClassFound
  <2> SUFFICES ASSUME IInv, ClassInv, phase = "done", missed = {}, NEW d \in task.dags
               PROVE  pdag = ClassGraph(d)
    BY DEF ClassFound
  <2>1. Faithful(task, d)
    BY DagsAssumption DEF IInv, TypeOK
  <2>2. OrientationInv
    BY OrientationHolds DEF Oriented
  <2>3. Directed(d)
    BY DEF ClassInv, SearchExact, Oriented
  <2>4. QED BY <2>1, <2>2, <2>3, OrientationComplete
<1>4. QED BY <1>1, <1>2, <1>3, Invariance, PTL DEF Spec

===============================================================================
