-------------------------- MODULE HillClimbingProofs --------------------------
(***************************************************************************)
(* Theorems about HillClimbing for every set of nodes, score table and     *)
(* restriction: the networks the search visits, and the one it returns,    *)
(* stay acyclic and inside the restrictions.  The model that is returned   *)
(* may be one of three networks, of which two follow the search; IInv says *)
(* what all three have in common.  CInv adds what holds while the search   *)
(* goes on: the caches are those of the current network, wherever an       *)
(* update reaches them, and the model kept is above the current one by the *)
(* accumulated losses.                                                     *)
(***************************************************************************)
EXTENDS HillClimbing, ReachabilityProofs

\* What the blacklist of types asks of a network.
TypesAllowed(g) ==
    "arcs" \notin problem.operators /\ Aligned =>
        \A n \in Nodes : \/ g.type[n] = problem.start.type[n]
                        \/ <<n, g.type[n]>> \notin problem.typeBlacklist

\* An arc that the types forbid has been there from the start.
ArcAllowed(g, m, n) == CanHaveArc(g, m, n) \/ m \in problem.start.parents[n]

\* What the restrictions ask of a network.
Allowed(g) ==
    /\ g \in Networks
    /\ Acyclic(Nodes, Children(g))
    /\ \A a \in problem.whitelist : a[1] \in g.parents[a[2]]
    /\ \A a \in problem.blacklist : a[1] \notin g.parents[a[2]]
    /\ \A n \in Nodes : \A m \in g.parents[n] : ArcAllowed(g, m, n)
    /\ \A n \in problem.interface : g.parents[n] = {}
    /\ \A n \in Nodes : \/ problem.indegree = 0
                        \/ Cardinality(g.parents[n]) <= problem.indegree
                        \/ Cardinality(g.parents[n]) <= Cardinality(problem.start.parents[n])
    /\ \A w \in problem.typeWhitelist : g.type[w[1]] = w[2]
    /\ TypesAllowed(g)

\* Every entry of the type deltas, where it is looked for, belongs to a node
\* whose other type is not blacklisted.
EntriesProposed ==
    \A n \in TypeNodes : CollapsedIndex[n] \in DOMAIN typeDelta => Proposed(network, n)

IInv ==
    /\ TypeOK
    /\ \A g \in {network, prevNetwork, snapshot} : Allowed(g)
    /\ status = "searching" => prevNetwork = network
    /\ status = "searching" /\ Aligned => EntriesProposed

LEMMA ProblemType ==
    ASSUME problem \in Problems
    PROVE  /\ problem.score \in Tables /\ problem.val \in Tables
           /\ problem.whitelist \in SUBSET (Nodes \X Nodes)
           /\ problem.blacklist \in SUBSET (Nodes \X Nodes)
           /\ problem.indegree \in Nat /\ problem.epsilon \in Nat /\ problem.patience \in Nat
           /\ problem.typeWhitelist \in SUBSET (Nodes \X NodeTypes)
           /\ problem.interface \in SUBSET Nodes /\ OwnNodes \subseteq Nodes
           /\ problem.memory \in [Nodes \X Nodes -> Int]
           /\ problem.validated \in BOOLEAN /\ Allowed(problem.start)
<1>1. problem \in Problem
  BY ProblemsAssumption
<1>2. problem.start \in Networks
  BY <1>1 DEF Problem
<1>3. \A n \in Nodes : Cardinality(problem.start.parents[n]) \in Nat
  BY <1>2, NodesAssumption, FS_Subset, FS_CardinalityType DEF Networks
<1>4. \A n \in Nodes :
        Cardinality(problem.start.parents[n]) <= Cardinality(problem.start.parents[n])
  BY <1>3
<1>5. Allowed(problem.start)
  <2>1. problem.interface \in SUBSET Nodes
    BY <1>1 DEF Problem
  <2>2. \A n \in problem.interface : problem.start.parents[n] = {}
    BY <2>1, ProblemsAssumption
  <2>3. QED BY <1>2, <1>4, <2>2, ProblemsAssumption DEF Allowed, ArcAllowed, TypesAllowed
<1>6. QED BY <1>1, <1>5 DEF Problem, OwnNodes

\* The scores of nodes, slots and entries are numbers.  No slot reads the local
\* score of an interface node as long as these have no parents.
LEMMA ScoreTypes ==
    ASSUME problem \in Problems, NEW g \in Networks, NEW c \in [OwnNodes -> Int]
    PROVE  /\ \A n \in Nodes : /\ LocalScore(problem.score, g, n) \in Int
                              /\ LocalScore(problem.val, g, n) \in Int
           /\ (\A n \in problem.interface : g.parents[n] = {})
              => \A a \in ValidSlots : SlotDelta(g, c, a[1], a[2]) \in Int
           /\ \A n \in OwnNodes : Proposed(g, n) => TypeGain(g, c, n) \in Int
<1>1. /\ \A n \in Nodes, T \in NodeTypes : \A P \in SUBSET Nodes : problem.score[n][T][P] \in Int
      /\ \A n \in Nodes, T \in NodeTypes : \A P \in SUBSET Nodes : problem.val[n][T][P] \in Int
  BY ProblemType DEF Tables
<1>2. /\ \A n \in Nodes : g.parents[n] \in SUBSET Nodes /\ g.type[n] \in NodeTypes
      /\ \A n \in OwnNodes : n \in Nodes /\ c[n] \in Int
  BY DEF Networks, OwnNodes
<1>3. ASSUME \A n \in problem.interface : g.parents[n] = {},
             NEW s \in Nodes, NEW t \in OwnNodes
      PROVE  SlotDelta(g, c, s, t) \in Int
  <2>1. /\ g.parents[t] \ {s} \in SUBSET Nodes /\ g.parents[s] \ {t} \in SUBSET Nodes
        /\ g.parents[t] \cup {s} \in SUBSET Nodes
    BY <1>2
  <2>2. /\ ScoreWith(problem.score, g, t, g.parents[t] \ {s}) \in Int
        /\ ScoreWith(problem.score, g, s, g.parents[s] \ {t}) \in Int
        /\ ScoreWith(problem.score, g, t, g.parents[t] \cup {s}) \in Int
        /\ c[t] \in Int
    BY <1>1, <1>2, <2>1 DEF ScoreWith
  <2>3. t \in g.parents[s] => c[s] \in Int
    BY <1>2, <1>3 DEF OwnNodes
  <2>4. QED BY <2>2, <2>3 DEF SlotDelta
<1>4. ASSUME NEW n \in OwnNodes, Proposed(g, n)
      PROVE  TypeGain(g, c, n) \in Int
  <2>1. OtherType[g.type[n]] \in NodeTypes
    BY <1>4 DEF Proposed, OtherType, NodeTypes
  <2>2. problem.score[n][OtherType[g.type[n]]][g.parents[n]] \in Int /\ c[n] \in Int
    BY <1>1, <1>2, <2>1
  <2>3. QED BY <2>2 DEF TypeGain
<1>5. \A a \in ValidSlots : a[1] \in Nodes /\ a[2] \in OwnNodes
  BY DEF ValidSlots, ValidOp
<1>6. QED BY <1>1, <1>2, <1>3, <1>4, <1>5 DEF LocalScore

-------------------------------------------------------------------------------
(* Sums.  A sum adds the values of a function one by one, in an order that *)
(* CHOOSE fixes; every order gives the same result.                        *)

\* The function that sums f over the subsets of D in S.
IsSum(f, S, s) ==
    s = [T \in S |-> IF T = {} THEN 0
                     ELSE LET x == CHOOSE x \in T : TRUE IN f[x] + s[T \ {x}]]

LEMMA SumExists ==
    ASSUME NEW D, IsFiniteSet(D), NEW f
    PROVE  \E s : IsSum(f, SUBSET D, s)
<1> DEFINE Upto(n) == {T \in SUBSET D : Cardinality(T) <= n}
           Missing == {n \in Nat : ~\E s : IsSum(f, Upto(n), s)}
<1>1. \A T \in SUBSET D : /\ IsFiniteSet(T) /\ Cardinality(T) \in Nat
                          /\ Cardinality(T) <= Cardinality(D)
                          /\ Cardinality(T) = 0 <=> T = {}
  BY FS_Subset, FS_CardinalityType, FS_EmptySet
<1>2. Missing = {}
  <2> SUFFICES ASSUME Missing # {} PROVE FALSE
    OBVIOUS
  <2>1. PICK n \in Missing : \A k \in Missing : n <= k
    BY LeastNatural
  <2>2. n # 0
    <3>1. Upto(0) = {{}}
      BY <1>1
    <3> HIDE DEF Upto
    <3>2. IsSum(f, Upto(0), [T \in Upto(0) |-> 0])
      BY <3>1 DEF IsSum
    <3>3. QED BY <3>2
  <2>3. n - 1 \in Nat /\ n - 1 \notin Missing
    <3>1. n \in Nat
      OBVIOUS
    <3> HIDE DEF Missing
    <3>2. QED BY <2>1, <2>2, <3>1
  <2>4. PICK s : IsSum(f, Upto(n - 1), s)
    BY <2>3
  <2> DEFINE x(T) == CHOOSE x \in T : TRUE
             next == [T \in Upto(n) |-> IF T = {} THEN 0 ELSE f[x(T)] + s[T \ {x(T)}]]
  <2>5. ASSUME NEW T \in Upto(n), T # {}
        PROVE  T \ {x(T)} \in Upto(n - 1) /\ T \ {x(T)} \in Upto(n)
    <3>1. x(T) \in T
      BY <2>5
    <3> HIDE DEF x
    <3>2. T \ {x(T)} \in SUBSET D /\ Cardinality(T \ {x(T)}) = Cardinality(T) - 1
      BY <1>1, <3>1, FS_RemoveElement
    <3>3. QED BY <1>1, <3>2
  <2>6. ASSUME NEW U \in Upto(n), U \in Upto(n - 1)
        PROVE  next[U] = s[U]
    BY <2>4, <2>6 DEF IsSum
  <2> HIDE DEF Upto
  <2>7. next = [T \in Upto(n) |-> IF T = {} THEN 0 ELSE f[x(T)] + next[T \ {x(T)}]]
    BY <2>5, <2>6
  <2>8. IsSum(f, Upto(n), next)
    BY <2>7 DEF IsSum
  <2> HIDE DEF next
  <2>9. QED BY <2>1, <2>8
<1>3. Upto(Cardinality(D)) = SUBSET D /\ Cardinality(D) \in Nat
  BY <1>1, FS_CardinalityType
<1> HIDE DEF Upto
<1>4. QED BY <1>2, <1>3

\* A sum may start with any member.
LEMMA SumRemove ==
    ASSUME NEW D, IsFiniteSet(D), NEW f \in [D -> Int], NEW s, IsSum(f, SUBSET D, s)
    PROVE  /\ s[{}] = 0
           /\ \A T \in SUBSET D : s[T] \in Int
           /\ \A T, U \in SUBSET D : \A x \in T : U = T \ {x} => s[T] = f[x] + s[U]
<1> DEFINE first(T) == CHOOSE x \in T : TRUE
<1>1. \A T \in SUBSET D : T # {} => first(T) \in T /\ s[T] = f[first(T)] + s[T \ {first(T)}]
  BY DEF IsSum
<1>2. s[{}] = 0
  BY DEF IsSum
<1> HIDE DEF first
<1>3. \A T \in SUBSET D : s[T] \in Int
  <2> DEFINE B == {T \in SUBSET D : s[T] \notin Int}
  <2> SUFFICES ASSUME B # {} PROVE FALSE
    OBVIOUS
  <2>1. PICK T \in B : \A x \in T : T \ {x} \notin B
    BY MinimalSet
  <2>2. T \in SUBSET D /\ s[T] \notin Int
    OBVIOUS
  <2>3. T # {}
    <3>1. ASSUME T = {} PROVE s[T] = 0
      BY <1>2, <3>1, Zenon
    <3>2. QED BY <2>2, <3>1
  <2> HIDE DEF B
  <2>4. s[T \ {first(T)}] \in Int /\ f[first(T)] \in Int
    <3>1. first(T) \in T /\ T \ {first(T)} \in SUBSET D
      BY <1>1, <2>2, <2>3
    <3>2. QED BY <2>1, <3>1 DEF B
  <2>5. s[T] = f[first(T)] + s[T \ {first(T)}]
    BY <1>1, <2>2, <2>3
  <2>6. QED BY <2>2, <2>4, <2>5
<1>4. \A T \in SUBSET D : \A x \in T : s[T] = f[x] + s[T \ {x}]
  <2> DEFINE B == {T \in SUBSET D : \E x \in T : s[T] # f[x] + s[T \ {x}]}
  <2> SUFFICES ASSUME B # {} PROVE FALSE
    OBVIOUS
  <2>1. PICK T \in B : \A x \in T : T \ {x} \notin B
    <3>1. B \in SUBSET SUBSET D
      OBVIOUS
    <3> HIDE DEF B
    <3>2. QED BY <3>1, MinimalSet
  <2>2. PICK x \in T : s[T] # f[x] + s[T \ {x}]
    OBVIOUS
  <2> DEFINE y == first(T)
  <2>3. y \in T /\ s[T] = f[y] + s[T \ {y}] /\ x # y
    BY <1>1, <2>2
  <2> HIDE DEF y
  <2>4. /\ s[T \ {y}] = f[x] + s[(T \ {y}) \ {x}]
        /\ s[T \ {x}] = f[y] + s[(T \ {x}) \ {y}]
    BY <2>1, <2>3
  <2>5. (T \ {y}) \ {x} = (T \ {x}) \ {y}
    OBVIOUS
  <2>6. s[(T \ {y}) \ {x}] = s[(T \ {x}) \ {y}]
    BY <2>5
  <2>7. /\ f[x] \in Int /\ f[y] \in Int /\ s[(T \ {x}) \ {y}] \in Int
    BY <1>3, <2>3
  <2>8. QED BY <2>2, <2>3, <2>4, <2>6, <2>7
<1>5. \A T, U \in SUBSET D : \A x \in T : U = T \ {x} => s[T] = f[x] + s[U]
  BY <1>4, Zenon
<1>6. QED BY <1>2, <1>3, <1>5

LEMMA SumStep ==
    ASSUME NEW D, IsFiniteSet(D), NEW f \in [D -> Int], NEW s, IsSum(f, SUBSET D, s),
           NEW T \in SUBSET D, NEW U \in SUBSET D, NEW x \in T, U = T \ {x}
    PROVE  s[T] = f[x] + s[U]
BY SumRemove

\* Functions with the same values have the same sums.
LEMMA SumSame ==
    ASSUME NEW D, IsFiniteSet(D), NEW f \in [D -> Int], NEW h \in [D -> Int],
           NEW s, IsSum(f, SUBSET D, s), NEW t, IsSum(h, SUBSET D, t),
           NEW E \in SUBSET D, \A n \in E : f[n] = h[n]
    PROVE  s[E] = t[E]
<1> DEFINE B == {T \in SUBSET E : s[T] # t[T]}
<1> SUFFICES ASSUME B # {} PROVE FALSE
  OBVIOUS
<1>1. IsFiniteSet(E)
  BY FS_Subset
<1>2. PICK T \in B : \A x \in T : T \ {x} \notin B
  BY <1>1, MinimalSet
<1>3. T \in SUBSET E /\ T \in SUBSET D /\ s[T] # t[T]
  OBVIOUS
<1>4. T # {}
  <2>1. ASSUME T = {} PROVE s[T] = 0 /\ t[T] = 0
    <3>1. s[{}] = 0 /\ t[{}] = 0
      BY SumRemove
    <3>2. QED BY <2>1, <3>1, Zenon
  <2>2. QED BY <1>3, <2>1
<1>5. PICK x \in T : TRUE
  BY <1>4
<1>6. PICK U \in SUBSET D : U = T \ {x}
  BY <1>3
<1>7. s[U] = t[U] /\ f[x] = h[x]
  <2>1. U \in SUBSET E /\ U \notin B
    BY <1>2, <1>3, <1>6, Zenon
  <2>2. QED BY <1>3, <2>1
<1> HIDE DEF B
<1>8. s[T] = f[x] + s[U] /\ t[T] = h[x] + t[U]
  <2>1. s[T] = f[x] + s[U]
    BY <1>3, <1>6, SumStep
  <2>2. t[T] = h[x] + t[U]
    BY <1>3, <1>6, SumStep
  <2>3. QED BY <2>1, <2>2
<1>9. QED BY <1>3, <1>7, <1>8

LEMMA SumFunctionIsSum ==
    ASSUME NEW D, IsFiniteSet(D), NEW f \in [D -> Int]
    PROVE  \E s : IsSum(f, SUBSET D, s) /\ SumFunction(f) = s[D]
<1> DEFINE s == CHOOSE s : IsSum(f, SUBSET D, s)
<1>1. DOMAIN f = D
  OBVIOUS
<1>2. SumFunction(f) = s[D]
  BY <1>1 DEF SumFunction, SumFunctionOnSet, FoldFunctionOnSet, MapThenFoldSet, IsSum
<1>3. IsSum(f, SUBSET D, s)
  BY SumExists
<1>4. QED BY <1>2, <1>3

LEMMA SumTyped ==
    ASSUME NEW D, IsFiniteSet(D), NEW f \in [D -> Int]
    PROVE  SumFunction(f) \in Int
<1>1. PICK s : IsSum(f, SUBSET D, s) /\ SumFunction(f) = s[D]
  BY SumFunctionIsSum
<1>2. \A T \in SUBSET D : s[T] \in Int
  BY <1>1, SumRemove
<1>3. D \in SUBSET D
  OBVIOUS
<1>4. QED BY <1>1, <1>2, <1>3

\* What a sum changes by when the function changes in one or two places.
ChangeOf(old, new, f, h, x, y) ==
    /\ old \in Int /\ new \in Int
    /\ new - old = IF x = y THEN h[x] - f[x] ELSE (h[x] - f[x]) + (h[y] - f[y])

LEMMA SumDifference ==
    ASSUME NEW D, IsFiniteSet(D), NEW f \in [D -> Int], NEW h \in [D -> Int],
           NEW s, IsSum(f, SUBSET D, s), NEW t, IsSum(h, SUBSET D, t),
           NEW E \in SUBSET D, NEW x \in E, NEW y \in E, \A n \in E : n # x /\ n # y => f[n] = h[n]
    PROVE  ChangeOf(s[E], t[E], f, h, x, y)
<1>1. PICK X \in SUBSET D : X = E \ {x}
  OBVIOUS
<1>2. PICK Y \in SUBSET D : Y = X \ {y}
  OBVIOUS
<1>3. s[E] = f[x] + s[X]
  BY <1>1, SumStep
<1>4. t[E] = h[x] + t[X]
  BY <1>1, SumStep
<1>5. /\ s[E] \in Int /\ t[E] \in Int /\ s[X] \in Int /\ t[X] \in Int /\ s[Y] \in Int
      /\ f[x] \in Int /\ h[x] \in Int /\ f[y] \in Int /\ h[y] \in Int
  BY SumRemove
<1>6. CASE x = y
  <2>1. \A n \in X : f[n] = h[n]
    BY <1>1, <1>6
  <2>2. s[X] = t[X]
    BY <2>1, SumSame
  <2>3. QED BY <1>3, <1>4, <1>5, <1>6, <2>2 DEF ChangeOf
<1>7. CASE x # y
  <2>1. y \in X
    BY <1>1, <1>7
  <2>2. s[X] = f[y] + s[Y]
    BY <1>2, <2>1, SumStep
  <2>3. t[X] = h[y] + t[Y]
    BY <1>2, <2>1, SumStep
  <2>4. \A n \in Y : f[n] = h[n]
    BY <1>1, <1>2
  <2>5. s[Y] = t[Y]
    BY <2>4, SumSame
  <2>6. QED BY <1>3, <1>4, <1>5, <1>7, <2>2, <2>3, <2>5 DEF ChangeOf
<1>8. QED BY <1>6, <1>7

LEMMA SumChange ==
    ASSUME NEW D, IsFiniteSet(D), NEW f \in [D -> Int], NEW h \in [D -> Int],
           NEW x \in D, NEW y \in D, \A n \in D : n # x /\ n # y => f[n] = h[n]
    PROVE  ChangeOf(SumFunction(f), SumFunction(h), f, h, x, y)
<1>1. PICK s : IsSum(f, SUBSET D, s) /\ SumFunction(f) = s[D]
  BY SumFunctionIsSum
<1>2. PICK t : IsSum(h, SUBSET D, t) /\ SumFunction(h) = t[D]
  BY SumFunctionIsSum
<1>3. D \in SUBSET D
  OBVIOUS
<1>4. ChangeOf(s[D], t[D], f, h, x, y)
  BY <1>1, <1>2, <1>3, SumDifference, Zenon
<1>5. QED BY <1>1, <1>2, <1>4

-------------------------------------------------------------------------------
(* The operators.                                                          *)

\* An operator that find_max returns.
ChosenArcOp(op) ==
    /\ op \in ArcOperators /\ op.source # op.target
    /\ \/ /\ op.kind = "RemoveArc" /\ op.source \in network.parents[op.target]
          /\ ValidOp(op.source, op.target)
       \/ /\ op.kind = "FlipArc" /\ op.source \in network.parents[op.target]
          /\ op.target \notin network.parents[op.source]
          /\ ValidOp(op.target, op.source)
          /\ CanFlipArc(op.source, op.target) /\ BelowIndegree(op.source)
       \/ /\ op.kind = "AddArc" /\ op.source \notin network.parents[op.target]
          /\ ValidOp(op.source, op.target)
          /\ CanAddArc(op.source, op.target) /\ BelowIndegree(op.target)

ChosenTypeOp(op) ==
    /\ op \in TypeOperators /\ op.kind = "ChangeNodeType"
    /\ op.node \in TypeNodes /\ CollapsedIndex[op.node] \in DOMAIN typeDelta
    /\ network.type[op.node] \in DOMAIN OtherType
    /\ op.type = OtherType[network.type[op.node]]

ChosenOp(op) == ChosenArcOp(op) \/ ChosenTypeOp(op)

LEMMA SlotChosen ==
    ASSUME NEW T, NEW slot \in Candidates(T)
    PROVE  slot \in ValidSlots /\ ChosenArcOp(SlotOperator(slot[1], slot[2]))
<1> DEFINE s == slot[1]
           t == slot[2]
<1>1. /\ slot \in ValidSlots /\ s \in Nodes /\ t \in Nodes /\ ValidOp(s, t) /\ s # t
      /\ \/ s \in network.parents[t]
         \/ t \in network.parents[s] /\ BelowIndegree(t) /\ CanFlipArc(t, s)
         \/ s \notin network.parents[t] /\ t \notin network.parents[s]
            /\ BelowIndegree(t) /\ CanAddArc(s, t)
  BY DEF Candidates, ValidSlots, ValidOp
<1> DEFINE op == SlotOperator(s, t)
<1> SUFFICES ChosenArcOp(op)
  BY <1>1
<1> HIDE DEF s, t
<1>4. CASE s \in network.parents[t]
  <2>1. op = [kind |-> "RemoveArc", source |-> s, target |-> t]
    BY <1>4 DEF SlotOperator
  <2> HIDE DEF op
  <2>2. QED BY <1>1, <1>4, <2>1 DEF ChosenArcOp, ArcOperators
<1>5. CASE s \notin network.parents[t] /\ t \in network.parents[s]
  <2>1. op = [kind |-> "FlipArc", source |-> t, target |-> s]
    BY <1>5 DEF SlotOperator
  <2> HIDE DEF op
  <2>2. QED BY <1>1, <1>5, <2>1 DEF ChosenArcOp, ArcOperators
<1>6. CASE s \notin network.parents[t] /\ t \notin network.parents[s]
  <2>1. op = [kind |-> "AddArc", source |-> s, target |-> t]
    BY <1>6 DEF SlotOperator
  <2> HIDE DEF op
  <2>2. QED BY <1>1, <1>6, <2>1 DEF ChosenArcOp, ArcOperators
<1>7. QED BY <1>4, <1>5, <1>6

LEMMA BestIsChosen ==
    ASSUME TypeOK, NEW offer \in BestOffers
    PROVE  ChosenOp(offer.op) /\ offer.op \in Operators /\ offer.delta \in Int
<1>1. PICK T : offer \in ArcOffers(T) \cup TypeOffers(T)
  BY DEF BestOffers, FindMax
<1>2. CASE offer \in ArcOffers(T)
  <2>1. PICK slot \in Candidates(T) :
            offer = [op |-> SlotOperator(slot[1], slot[2]), delta |-> delta[slot]]
    BY <1>2 DEF ArcOffers
  <2>2. slot \in ValidSlots /\ ChosenArcOp(offer.op)
    BY <2>1, SlotChosen
  <2>3. offer.delta \in Int
    BY <2>1, <2>2 DEF TypeOK
  <2>4. QED BY <2>2, <2>3 DEF ChosenOp, ChosenArcOp, Operators
<1>3. CASE offer \in TypeOffers(T)
  <2>1. PICK n \in FindMaxType(T) :
            offer = [op |-> TypeOperator(n), delta |-> typeDelta[CollapsedIndex[n]]]
    BY <1>3 DEF TypeOffers
  <2>2. /\ n \in TypeNodes /\ CollapsedIndex[n] \in DOMAIN typeDelta
        /\ network.type[n] \in DOMAIN OtherType
    BY <2>1 DEF FindMaxType, TypeCandidates, Readable
  <2>3. offer.delta \in Int
    BY <2>1, <2>2 DEF TypeOK
  <2>4. offer.op = [kind |-> "ChangeNodeType", node |-> n, type |-> OtherType[network.type[n]]]
    BY <2>1 DEF TypeOperator
  <2>5. OtherType[network.type[n]] \in NodeTypes
    BY <2>2 DEF OtherType, NodeTypes
  <2>6. ChosenTypeOp(offer.op)
    BY <2>2, <2>4, <2>5 DEF ChosenTypeOp, TypeOperators, TypeNodes, OwnNodes
  <2>7. QED BY <2>3, <2>6 DEF ChosenOp, ChosenTypeOp, Operators
<1>4. QED BY <1>1, <1>2, <1>3

\* A network with one parent more or less.
LEMMA OneParent ==
    ASSUME TypeOK, Allowed(network), NEW n \in Nodes, NEW m \in Nodes
    PROVE  /\ Cardinality(network.parents[n]) \in Nat
           /\ Cardinality(network.parents[n] \ {m}) \in Nat
           /\ Cardinality(network.parents[n] \ {m}) <= Cardinality(network.parents[n])
           /\ Cardinality(network.parents[n] \cup {m}) \in Nat
           /\ Cardinality(network.parents[n] \cup {m}) <= Cardinality(network.parents[n]) + 1
<1>1. IsFiniteSet(network.parents[n])
  BY NodesAssumption, FS_Subset DEF Allowed, Networks
<1>2. /\ IsFiniteSet(network.parents[n] \ {m})
      /\ Cardinality(network.parents[n] \ {m}) <= Cardinality(network.parents[n])
  BY <1>1, FS_Subset
<1>3. /\ IsFiniteSet(network.parents[n] \cup {m})
      /\ Cardinality(network.parents[n] \cup {m}) =
            IF m \in network.parents[n] THEN Cardinality(network.parents[n]) ELSE Cardinality(network.parents[n]) + 1
  BY <1>1, FS_AddElement
<1>4. Cardinality(network.parents[n]) \in Nat
  BY <1>1, FS_CardinalityType
<1>5. QED BY <1>1, <1>2, <1>3, <1>4, FS_CardinalityType

\* The limit on the parents of a node: met by the network, and by a node that has
\* no more parents than before or is below the limit.
Limited(g, n) ==
    \/ problem.indegree = 0
    \/ Cardinality(g.parents[n]) <= problem.indegree
    \/ Cardinality(g.parents[n]) <= Cardinality(problem.start.parents[n])

LEMMA LimitKept ==
    ASSUME TypeOK, Allowed(network), NEW g, NEW n \in Nodes, NEW m \in Nodes,
           \/ g.parents[n] = network.parents[n]
           \/ g.parents[n] = network.parents[n] \ {m}
           \/ g.parents[n] = network.parents[n] \cup {m} /\ BelowIndegree(n)
    PROVE  Limited(g, n)
<1> DEFINE d == problem.indegree
           old == Cardinality(network.parents[n])
           new == Cardinality(g.parents[n])
           first == Cardinality(problem.start.parents[n])
<1>1. d \in Nat /\ old \in Nat /\ first \in Nat
  BY ProblemType, OneParent, NodesAssumption, FS_Subset, FS_CardinalityType
     DEF Allowed, Networks, TypeOK
<1>2. new \in Nat
  BY OneParent
<1>3. d = 0 \/ old <= d \/ old <= first
  BY DEF Allowed
<1>4. new <= old \/ (new <= old + 1 /\ (d = 0 \/ old < d))
  <2>1. CASE g.parents[n] = network.parents[n]
    BY <1>1, <2>1
  <2>2. CASE g.parents[n] = network.parents[n] \ {m}
    BY <2>2, OneParent
  <2>3. CASE g.parents[n] = network.parents[n] \cup {m} /\ BelowIndegree(n)
    BY <2>3, OneParent DEF BelowIndegree
  <2>4. QED BY <2>1, <2>2, <2>3
<1>5. d = 0 \/ new <= d \/ new <= first
  <2> HIDE DEF d, old, new, first
  <2>1. QED BY <1>1, <1>2, <1>3, <1>4
<1>6. QED BY <1>5 DEF Limited

\* An arc operator of find_max leads to an allowed network: no cycle, no arc that is
\* forbidden, no forced arc lost, no node above the limit.
LEMMA ArcApplyAllowed ==
    ASSUME TypeOK, Allowed(network), NEW op, ChosenArcOp(op)
    PROVE  Allowed(Apply(op, network))
<1> DEFINE s == op.source
           t == op.target
           g == Apply(op, network)
<1>1. /\ s \in Nodes /\ t \in Nodes /\ s # t /\ network \in Networks
      /\ Acyclic(Nodes, Children(network))
      /\ Children(network) \in [Nodes -> SUBSET Nodes]
      /\ problem.whitelist \in SUBSET (Nodes \X Nodes) /\ problem.indegree \in Nat
      /\ problem.blacklist \in SUBSET (Nodes \X Nodes)
  <2>1. s \in Nodes /\ t \in Nodes /\ s # t
    BY DEF ChosenArcOp, ArcOperators
  <2>2. network \in Networks /\ Acyclic(Nodes, Children(network))
    BY DEF Allowed
  <2>3. Children(network) \in [Nodes -> SUBSET Nodes]
    BY DEF Children
  <2>4. QED BY <2>1, <2>2, <2>3, ProblemType DEF TypeOK
<1>2. /\ \A a \in problem.whitelist : a[1] \in network.parents[a[2]]
      /\ \A a \in problem.blacklist : a[1] \notin network.parents[a[2]]
      /\ \A n \in Nodes : \A m \in network.parents[n] : ArcAllowed(network, m, n)
      /\ \A n \in problem.interface : network.parents[n] = {} /\ n \in Nodes
  BY ProblemType DEF Allowed, TypeOK
<1>3. \A h \in Networks : h.type = network.type =>
         /\ \A w \in problem.typeWhitelist : h.type[w[1]] = w[2]
         /\ TypesAllowed(h)
         /\ \A m, n \in Nodes : ArcAllowed(h, m, n) <=> ArcAllowed(network, m, n)
  BY DEF Allowed, TypesAllowed, ArcAllowed, CanHaveArc
<1>4. CASE op.kind = "RemoveArc"
  <2>1. g = [network EXCEPT !.parents[t] = @ \ {s}] /\ ValidOp(s, t)
    BY <1>4 DEF ChosenArcOp, Apply
  <2>2. g \in Networks /\ g.type = network.type
    BY <1>1, <2>1 DEF Networks
  <2>3. \A n \in Nodes : g.parents[n] = IF n = t THEN network.parents[t] \ {s} ELSE network.parents[n]
    BY <1>1, <2>1 DEF Networks
  <2> HIDE DEF g
  <2>4. Acyclic(Nodes, Children(g))
    <3>1. \A n \in Nodes : Children(g)[n] \subseteq Children(network)[n]
      BY <2>3 DEF Children
    <3>2. QED BY <1>1, <3>1, SubgraphAcyclic
  <2>5. \A a \in problem.whitelist : a[1] \in g.parents[a[2]]
    BY <1>1, <1>2, <2>1, <2>3 DEF ValidOp
  <2>6. \A a \in problem.blacklist : a[1] \notin g.parents[a[2]]
    BY <1>1, <1>2, <2>3
  <2>7. ASSUME NEW n \in Nodes
        PROVE  Limited(g, n)
    <3>1. g.parents[n] = network.parents[n] \/ g.parents[n] = network.parents[n] \ {s}
      BY <2>1, <2>3
    <3>2. QED BY <1>1, <3>1, LimitKept
  <2>8. \A n \in Nodes : \A m \in g.parents[n] : ArcAllowed(g, m, n)
    <3> SUFFICES ASSUME NEW n \in Nodes, NEW m \in g.parents[n]
                 PROVE  ArcAllowed(network, m, n)
      BY <2>2 DEF ArcAllowed, CanHaveArc
    <3>1. m \in network.parents[n]
      BY <2>3
    <3>2. QED BY <1>2, <2>1, <3>1 DEF ArcAllowed
  <2>9. \A n \in problem.interface : g.parents[n] = {}
    BY <1>1, <1>2, <2>1, <2>3 DEF ValidOp, OwnNodes
  <2>10. QED BY <1>3, <2>2, <2>4, <2>5, <2>6, <2>7, <2>8, <2>9 DEF Allowed, Limited, g
<1>5. CASE op.kind = "AddArc"
  <2>1. /\ g = [network EXCEPT !.parents[t] = @ \cup {s}] /\ ValidOp(s, t)
        /\ ~HasPath(Nodes, Children(network), t, s) /\ BelowIndegree(t)
        /\ CanHaveArc(network, s, t)
    BY <1>5 DEF ChosenArcOp, Apply, CanAddArc
  <2>2. g \in Networks /\ g.type = network.type
    BY <1>1, <2>1 DEF Networks
  <2>3. \A n \in Nodes : g.parents[n] = IF n = t THEN network.parents[t] \cup {s} ELSE network.parents[n]
    BY <1>1, <2>1 DEF Networks
  <2> HIDE DEF g
  <2>4. Acyclic(Nodes, Children(g))
    <3>1. Children(g) = [Children(network) EXCEPT ![s] = @ \cup {t}]
      <4>1. \A n \in Nodes : Children(g)[n] = IF n = s THEN Children(network)[n] \cup {t}
                                                       ELSE Children(network)[n]
        BY <1>1, <2>3 DEF Children
      <4>2. QED BY <1>1, <4>1 DEF Children
    <3> DEFINE ch == Children(network)
    <3>2. ch \in [Nodes -> SUBSET Nodes] /\ Acyclic(Nodes, ch) /\ ~HasPath(Nodes, ch, t, s)
      BY <1>1, <2>1
    <3> HIDE DEF ch
    <3>3. Acyclic(Nodes, [ch EXCEPT ![s] = @ \cup {t}])
      BY <1>1, <3>2, AddArcAcyclic
    <3>4. QED BY <3>1, <3>3 DEF ch
  <2>5. \A a \in problem.whitelist : a[1] \in g.parents[a[2]]
    BY <1>1, <1>2, <2>3
  <2>6. \A a \in problem.blacklist : a[1] \notin g.parents[a[2]]
    <3>1. ASSUME NEW a \in problem.blacklist, a[1] \in g.parents[a[2]]
          PROVE  FALSE
      <4>1. a = <<a[1], a[2]>> /\ a[1] \in Nodes /\ a[2] \in Nodes /\ a[1] \notin network.parents[a[2]]
        BY <1>1, <1>2
      <4>2. a = <<s, t>>
        BY <2>3, <3>1, <4>1
      <4>3. QED BY <2>1, <4>2 DEF ValidOp
    <3>2. QED BY <3>1
  <2>7. ASSUME NEW n \in Nodes
        PROVE  Limited(g, n)
    <3>1. g.parents[n] = network.parents[n] \/ (g.parents[n] = network.parents[n] \cup {s} /\ BelowIndegree(n))
      BY <2>1, <2>3
    <3>2. QED BY <1>1, <3>1, LimitKept
  <2>8. \A n \in Nodes : \A m \in g.parents[n] : ArcAllowed(g, m, n)
    <3> SUFFICES ASSUME NEW n \in Nodes, NEW m \in g.parents[n]
                 PROVE  ArcAllowed(network, m, n)
      BY <2>2 DEF ArcAllowed, CanHaveArc
    <3>1. m \in network.parents[n] \/ (n = t /\ m = s)
      BY <2>3
    <3>2. QED BY <1>2, <2>1, <3>1 DEF ArcAllowed
  <2>9. \A n \in problem.interface : g.parents[n] = {}
    BY <1>1, <1>2, <2>1, <2>3 DEF ValidOp, OwnNodes
  <2>10. QED BY <1>3, <2>2, <2>4, <2>5, <2>6, <2>7, <2>8, <2>9 DEF Allowed, Limited, g
<1>6. CASE op.kind = "FlipArc"
  <2> DEFINE cut == [Children(network) EXCEPT ![s] = @ \ {t}]
  <2>1. /\ g = [network EXCEPT !.parents[t] = @ \ {s}, !.parents[s] = @ \cup {t}] /\ ValidOp(t, s)
        /\ ~HasPath(Nodes, cut, s, t) /\ BelowIndegree(s)
        /\ CanHaveArc(network, t, s)
    BY <1>6 DEF ChosenArcOp, Apply, CanFlipArc
  <2>2. /\ g \in Networks /\ g.type = network.type
        /\ \A n \in Nodes : g.parents[n] = IF n = t THEN network.parents[t] \ {s}
                                 ELSE IF n = s THEN network.parents[s] \cup {t} ELSE network.parents[n]
    <3> DEFINE mid == [network EXCEPT !.parents[t] = @ \ {s}]
    <3>1. /\ mid \in Networks /\ mid.type = network.type
          /\ \A n \in Nodes : mid.parents[n] = IF n = t THEN network.parents[t] \ {s} ELSE network.parents[n]
      BY <1>1 DEF Networks
    <3>2. g = [mid EXCEPT !.parents[s] = network.parents[s] \cup {t}]
      <4> HIDE DEF g
      <4>1. QED BY <2>1
    <3> HIDE DEF mid, g
    <3>3. QED BY <1>1, <3>1, <3>2 DEF Networks
  <2>3. \A n \in Nodes : g.parents[n] = IF n = t THEN network.parents[t] \ {s}
                                ELSE IF n = s THEN network.parents[s] \cup {t} ELSE network.parents[n]
    BY <2>2
  <2> HIDE DEF g
  <2>4. Acyclic(Nodes, Children(g))
    <3>1. cut \in [Nodes -> SUBSET Nodes] /\ \A n \in Nodes : cut[n] \subseteq Children(network)[n]
      BY <1>1
    <3>2. Acyclic(Nodes, cut)
      <4> HIDE DEF cut
      <4>1. QED BY <1>1, <3>1, SubgraphAcyclic
    <3>3. Children(g) = [cut EXCEPT ![t] = @ \cup {s}]
      <4>1. \A n \in Nodes : Children(g)[n] = IF n = t THEN cut[n] \cup {s} ELSE cut[n]
        BY <1>1, <2>3 DEF Children
      <4>2. QED BY <1>1, <3>1, <4>1 DEF Children
    <3>4. ~HasPath(Nodes, cut, s, t)
      BY <2>1
    <3> HIDE DEF cut
    <3>5. Acyclic(Nodes, [cut EXCEPT ![t] = @ \cup {s}])
      BY <1>1, <3>1, <3>2, <3>4, AddArcAcyclic
    <3>6. QED BY <3>3, <3>5
  <2>5. \A a \in problem.whitelist : a[1] \in g.parents[a[2]]
    <3>1. ASSUME NEW a \in problem.whitelist, a[1] \notin g.parents[a[2]]
          PROVE  FALSE
      <4>1. a = <<a[1], a[2]>> /\ a[1] \in Nodes /\ a[2] \in Nodes /\ a[1] \in network.parents[a[2]]
        BY <1>1, <1>2
      <4>2. a = <<s, t>>
        BY <2>3, <3>1, <4>1
      <4>3. QED BY <2>1, <4>2 DEF ValidOp
    <3>2. QED BY <3>1
  <2>6. \A a \in problem.blacklist : a[1] \notin g.parents[a[2]]
    <3>1. ASSUME NEW a \in problem.blacklist, a[1] \in g.parents[a[2]]
          PROVE  FALSE
      <4>1. a = <<a[1], a[2]>> /\ a[1] \in Nodes /\ a[2] \in Nodes /\ a[1] \notin network.parents[a[2]]
        BY <1>1, <1>2
      <4>2. a = <<t, s>>
        BY <2>3, <3>1, <4>1
      <4>3. QED BY <2>1, <4>2 DEF ValidOp
    <3>2. QED BY <3>1
  <2>7. ASSUME NEW n \in Nodes
        PROVE  Limited(g, n)
    <3>1. \/ g.parents[n] = network.parents[n] \/ g.parents[n] = network.parents[n] \ {s}
          \/ g.parents[n] = network.parents[n] \cup {t} /\ BelowIndegree(n)
      BY <2>1, <2>3
    <3>2. QED BY <1>1, <3>1, LimitKept
  <2>8. \A n \in Nodes : \A m \in g.parents[n] : ArcAllowed(g, m, n)
    <3> SUFFICES ASSUME NEW n \in Nodes, NEW m \in g.parents[n]
                 PROVE  ArcAllowed(network, m, n)
      BY <2>2 DEF ArcAllowed, CanHaveArc
    <3>1. m \in network.parents[n] \/ (n = s /\ m = t)
      BY <2>3
    <3>2. QED BY <1>2, <2>1, <3>1 DEF ArcAllowed
  <2>9. \A n \in problem.interface : g.parents[n] = {}
    <3>1. s \in OwnNodes
      BY <2>1 DEF ValidOp
    <3> SUFFICES ASSUME NEW n \in problem.interface PROVE g.parents[n] = {}
      OBVIOUS
    <3>2. n \in Nodes /\ n # s /\ network.parents[n] = {}
      BY <1>2, <3>1 DEF OwnNodes
    <3>3. QED BY <2>3, <3>2
  <2>10. QED BY <1>3, <2>2, <2>4, <2>5, <2>6, <2>7, <2>8, <2>9 DEF Allowed, Limited, g
<1>7. QED BY <1>4, <1>5, <1>6 DEF ChosenArcOp

\* A change of type proposed by find_max leads to an allowed network: a discrete
\* node stays discrete, a whitelisted node is not touched.
LEMMA TypeApplyAllowed ==
    ASSUME TypeOK, Allowed(network), NEW op, ChosenTypeOp(op), Aligned => EntriesProposed
    PROVE  Allowed(Apply(op, network))
<1> DEFINE x == op.node
           g == Apply(op, network)
<1>1. /\ x \in Nodes /\ x \in TypeNodes /\ network \in Networks /\ op.type \in NodeTypes
      /\ network.type[x] \in {"LinearGaussian", "CKDE"} /\ op.type \in {"LinearGaussian", "CKDE"}
      /\ op.type = OtherType[network.type[x]]
      /\ problem.typeWhitelist \in SUBSET (Nodes \X NodeTypes)
  BY ProblemType DEF ChosenTypeOp, TypeNodes, OwnNodes, OtherType, NodeTypes, Allowed, TypeOK
<1>2. g = [network EXCEPT !.type[x] = op.type]
  BY DEF ChosenTypeOp, Apply
<1>3. /\ g \in Networks /\ g.parents = network.parents
      /\ \A n \in Nodes : g.type[n] = IF n = x THEN op.type ELSE network.type[n]
  BY <1>1, <1>2 DEF Networks
<1>4. TypesAllowed(g)
  <2> SUFFICES ASSUME "arcs" \notin problem.operators, Aligned, NEW n \in Nodes
               PROVE  \/ g.type[n] = problem.start.type[n]
                      \/ <<n, g.type[n]>> \notin problem.typeBlacklist
    BY DEF TypesAllowed
  <2>1. CASE n = x
    <3>1. Proposed(network, x)
      BY <1>1 DEF EntriesProposed, ChosenTypeOp
    <3>2. <<x, op.type>> \notin problem.typeBlacklist
      BY <1>1, <3>1 DEF Proposed, ForbiddenTypes
    <3>3. QED BY <1>3, <2>1, <3>2
  <2>2. CASE n # x
    BY <1>3, <2>2 DEF Allowed, TypesAllowed
  <2>3. QED BY <2>1, <2>2
<1>5. \A w \in problem.typeWhitelist : g.type[w[1]] = w[2]
  BY <1>1, <1>3 DEF Allowed, TypeNodes, OwnNodes
<1>6. \A n \in Nodes : \A m \in g.parents[n] : ArcAllowed(g, m, n)
  BY <1>1, <1>3 DEF Allowed, ArcAllowed, CanHaveArc, Networks
<1> HIDE DEF g
<1>7. Children(g) = Children(network)
  BY <1>3 DEF Children
<1>8. QED BY <1>3, <1>4, <1>5, <1>6, <1>7 DEF Allowed, g

LEMMA ApplyAllowed ==
    ASSUME TypeOK, Allowed(network), NEW op, ChosenOp(op), Aligned => EntriesProposed
    PROVE  Allowed(Apply(op, network))
BY ArcApplyAllowed, TypeApplyAllowed DEF ChosenOp

-------------------------------------------------------------------------------
(* The iterations.                                                         *)

\* cache_scores appends the entries inside the vector.
LEMMA AppendedInBounds ==
    ASSUME NEW n \in TypeNodes
    PROVE  Appended(n) \in 0 .. Entries - 1
<1> DEFINE before == {m \in TypeNodes : CollapsedIndex[m] < CollapsedIndex[n]}
<1>1. IsFiniteSet(TypeNodes)
  BY NodesAssumption, FS_Subset DEF TypeNodes, OwnNodes
<1>2. n \in Nodes /\ CollapsedIndex[n] \in Int
  <2>1. n \in Nodes
    BY DEF TypeNodes, OwnNodes
  <2>2. Cardinality(Nodes) \in Nat
    BY NodesAssumption, FS_CardinalityType
  <2>3. QED BY <2>1, <2>2, CollapsedIndexAssumption
<1>3. n \notin before /\ before \subseteq TypeNodes
  BY <1>2
<1>4. /\ IsFiniteSet(before) /\ Cardinality(before) \in Nat /\ Cardinality(TypeNodes) \in Nat
      /\ Cardinality(before) < Cardinality(TypeNodes)
  BY <1>1, <1>3, FS_Subset, FS_CardinalityType
<1>5. QED BY <1>4 DEF Appended, Entries

LEMMA CacheTypesTyped ==
    ASSUME problem \in Problems, NEW g \in Networks, NEW c \in [OwnNodes -> Int]
    PROVE  /\ DOMAIN CacheTypeScores(g, c) \subseteq 0 .. Entries - 1
           /\ CacheTypeScores(g, c) \in [DOMAIN CacheTypeScores(g, c) -> Int]
           /\ Aligned => \A n \in TypeNodes :
                 CollapsedIndex[n] \in DOMAIN CacheTypeScores(g, c) => Proposed(g, n)
<1> DEFINE D == {Appended(n) : n \in {m \in TypeNodes : Proposed(g, m)}}
           node(i) == CHOOSE n \in TypeNodes : Proposed(g, n) /\ Appended(n) = i
<1>1. CacheTypeScores(g, c) = [i \in D |-> TypeGain(g, c, node(i))]
  BY DEF CacheTypeScores
<1>2. D \subseteq 0 .. Entries - 1
  BY AppendedInBounds
<1>3. ASSUME NEW i \in D
      PROVE  TypeGain(g, c, node(i)) \in Int
  <2>1. node(i) \in TypeNodes /\ Proposed(g, node(i))
    <3>1. \E n \in TypeNodes : Proposed(g, n) /\ Appended(n) = i
      OBVIOUS
    <3>2. QED BY <3>1
  <2>2. node(i) \in OwnNodes
    BY <2>1 DEF TypeNodes
  <2> HIDE DEF node
  <2>3. QED BY <2>1, <2>2, ScoreTypes
<1>4. ASSUME Aligned, NEW n \in TypeNodes, CollapsedIndex[n] \in D
      PROVE  Proposed(g, n)
  <2>1. PICK m \in TypeNodes : Proposed(g, m) /\ Appended(m) = CollapsedIndex[n]
    BY <1>4
  <2>2. CollapsedIndex[m] = CollapsedIndex[n] /\ m \in Nodes /\ n \in Nodes
    BY <1>4, <2>1 DEF Aligned, TypeNodes, OwnNodes
  <2>3. QED BY <2>1, <2>2, CollapsedIndexAssumption
<1> HIDE DEF D, node
<1>5. QED BY <1>1, <1>2, <1>3, <1>4

LEMMA InitIInv == Init => IInv
<1> SUFFICES ASSUME Init PROVE IInv
  OBVIOUS
<1>1. /\ problem \in Problems /\ network = problem.start /\ prevNetwork = network
      /\ snapshot = network /\ bestRef = "current" /\ p = 0 /\ offset = 0 /\ tabu = {}
      /\ status = "searching"
  BY DEF Init
<1>2. Allowed(network) /\ network \in Networks
  BY <1>1, ProblemType DEF Allowed
<1>3. localScore \in [OwnNodes -> Int] /\ vlocalScore \in [OwnNodes -> Int]
  <2>1. \A n \in Nodes : /\ LocalScore(problem.score, network, n) \in Int
                         /\ LocalScore(problem.val, network, n) \in Int
    <3>1. [n \in OwnNodes |-> 0] \in [OwnNodes -> Int]
      OBVIOUS
    <3>2. QED BY <1>1, <1>2, <3>1, ScoreTypes
  <2>2. QED BY <1>1, <2>1, ProblemType DEF Init
<1>4. delta \in [ValidSlots -> Int]
  <2>1. delta = [a \in ValidSlots |->
                    IF CanHaveArc(network, a[1], a[2])
                    THEN SlotDelta(network, localScore, a[1], a[2]) ELSE problem.memory[a]]
    BY DEF Init, CacheScores
  <2>2. \A a \in ValidSlots : /\ SlotDelta(network, localScore, a[1], a[2]) \in Int
                              /\ problem.memory[a] \in Int
    BY <1>1, <1>2, <1>3, ScoreTypes, ProblemType DEF ValidSlots, Allowed
  <2>3. QED BY <2>1, <2>2
<1>5. /\ DOMAIN typeDelta \subseteq 0 .. Entries - 1 /\ typeDelta \in [DOMAIN typeDelta -> Int]
      /\ Aligned => EntriesProposed
  <2>1. typeDelta = CacheTypeScores(network, localScore)
    BY DEF Init
  <2>2. QED BY <1>1, <1>2, <1>3, <2>1, CacheTypesTyped DEF EntriesProposed
<1>6. QED BY <1>1, <1>2, <1>3, <1>4, <1>5 DEF IInv, TypeOK

\* The entries after an update: those outside are as before, those inside were
\* written for the one node of that index.
LEMMA EntriesUpdated ==
    ASSUME TypeOK, NEW g \in Networks, NEW c \in [OwnNodes -> Int], NEW changed,
           InBounds(changed), UpdateTypeScores(g, c, changed)
    PROVE  /\ DOMAIN typeDelta' \subseteq 0 .. Entries - 1
           /\ typeDelta' \in [DOMAIN typeDelta' -> Int]
           /\ (\A n \in Nodes \ changed : g.type[n] = network.type[n]) /\ EntriesProposed
              => \A n \in TypeNodes : CollapsedIndex[n] \in DOMAIN typeDelta' => Proposed(g, n)
<1> DEFINE nodes == changed \cap TypeNodes
           written == {CollapsedIndex[n] : n \in nodes}
           filled == {CollapsedIndex[n] : n \in {m \in nodes : Proposed(g, m)}}
           D == (DOMAIN typeDelta \ written) \cup filled
           node(i) == CHOOSE n \in nodes : CollapsedIndex[n] = i
<1>1. typeDelta' = [i \in D |-> IF i \in filled THEN TypeGain(g, c, node(i)) ELSE typeDelta[i]]
  BY DEF UpdateTypeScores
<1>2. /\ DOMAIN typeDelta \subseteq 0 .. Entries - 1 /\ typeDelta \in [DOMAIN typeDelta -> Int]
      /\ problem \in Problems
  BY DEF TypeOK
<1>3. \A n \in nodes : n \in Nodes /\ n \in OwnNodes /\ CollapsedIndex[n] \in 0 .. Entries - 1
  <2>1. Cardinality(Nodes) \in Nat
    BY NodesAssumption, FS_CardinalityType
  <2>2. Entries \in Nat
    BY NodesAssumption, FS_Subset, FS_CardinalityType DEF Entries, TypeNodes, OwnNodes
  <2>3. \A n \in nodes : n \in Nodes /\ n \in OwnNodes /\ CollapsedIndex[n] < Entries
    BY DEF InBounds, TypeNodes, OwnNodes
  <2>4. \A n \in nodes : CollapsedIndex[n] \in 0 .. Cardinality(Nodes) - 1
    BY <2>3, CollapsedIndexAssumption
  <2> HIDE DEF nodes
  <2>5. QED BY <2>1, <2>2, <2>3, <2>4
<1>4. ASSUME NEW i \in filled
      PROVE  TypeGain(g, c, node(i)) \in Int
  <2>1. PICK n \in nodes : Proposed(g, n) /\ CollapsedIndex[n] = i
    BY <1>4
  <2>2. node(i) \in nodes /\ CollapsedIndex[node(i)] = i
    BY <2>1
  <2> HIDE DEF node, nodes
  <2>3. node(i) = n /\ n \in OwnNodes
    BY <1>3, <2>1, <2>2, CollapsedIndexAssumption
  <2>4. QED BY <1>2, <2>1, <2>3, ScoreTypes
<1>5. D \subseteq 0 .. Entries - 1
  BY <1>2, <1>3
<1>6. ASSUME \A n \in Nodes \ changed : g.type[n] = network.type[n], EntriesProposed,
             NEW n \in TypeNodes, CollapsedIndex[n] \in D
      PROVE  Proposed(g, n)
  <2>1. n \in Nodes
    BY DEF TypeNodes, OwnNodes
  <2>2. CASE CollapsedIndex[n] \in filled
    <3>1. PICK m \in nodes : Proposed(g, m) /\ CollapsedIndex[m] = CollapsedIndex[n]
      BY <2>2
    <3>2. m = n
      BY <1>3, <2>1, <3>1, CollapsedIndexAssumption
    <3>3. QED BY <3>1, <3>2
  <2>3. CASE CollapsedIndex[n] \in DOMAIN typeDelta \ written
    <3>1. n \notin changed
      BY <2>3
    <3>2. Proposed(network, n) /\ g.type[n] = network.type[n]
      BY <1>6, <2>1, <2>3, <3>1 DEF EntriesProposed
    <3>3. QED BY <3>2 DEF Proposed
  <2>4. QED BY <1>6, <2>2, <2>3
<1> HIDE DEF D, filled, node
<1>7. \A i \in D : i \notin filled => i \in DOMAIN typeDelta
  BY DEF D
<1>8. QED BY <1>1, <1>2, <1>4, <1>5, <1>6, <1>7

\* The caches keep their types when an operator is applied.
LEMMA CachesTyped ==
    ASSUME TypeOK, NEW g \in Networks, NEW changed,
           \A n \in problem.interface : g.parents[n] = {}
    PROVE  /\ UpdateVLocalScores(g, changed) \in [OwnNodes -> Int]
           /\ UpdateScores(g, changed) =>
                 localScore' \in [OwnNodes -> Int] /\ delta' \in [ValidSlots -> Int]
<1>1. problem \in Problems /\ localScore \in [OwnNodes -> Int] /\ vlocalScore \in [OwnNodes -> Int]
      /\ delta \in [ValidSlots -> Int]
  BY DEF TypeOK
<1>2. \A n \in Nodes : LocalScore(problem.score, g, n) \in Int /\ LocalScore(problem.val, g, n) \in Int
  BY <1>1, ScoreTypes
<1>3. UpdateVLocalScores(g, changed) \in [OwnNodes -> Int]
  BY <1>1, <1>2, ProblemType DEF UpdateVLocalScores
<1> DEFINE scores == UpdateLocalScores(g, changed)
<1>4. scores \in [OwnNodes -> Int]
  BY <1>1, <1>2, ProblemType DEF UpdateLocalScores
<1> HIDE DEF scores
<1>5. \A a \in ValidSlots : SlotDelta(g, scores, a[1], a[2]) \in Int
  BY <1>1, <1>4, ScoreTypes
<1>6. ASSUME UpdateScores(g, changed)
      PROVE  localScore' \in [OwnNodes -> Int] /\ delta' \in [ValidSlots -> Int]
  <2>1. localScore' = scores
    BY <1>6 DEF UpdateScores, scores
  <2>2. delta' = [a \in ValidSlots |-> IF a \in Refreshed(g, changed)
                                       THEN SlotDelta(g, scores, a[1], a[2]) ELSE delta[a]]
    BY <1>6, <2>1 DEF UpdateScores, UpdateArcScores
  <2>3. QED BY <1>1, <1>4, <1>5, <2>1, <2>2
<1>7. QED BY <1>3, <1>6

LEMMA GainTyped ==
    ASSUME TypeOK, Allowed(network), NEW offer, ChosenOp(offer.op), offer.delta \in Int,
           Apply(offer.op, network) \in Networks
    PROVE  ValidationDelta(offer) \in Int
<1> DEFINE op == offer.op
           g == Apply(op, network)
           gain(n) == LocalScore(problem.val, g, n) - vlocalScore[n]
<1>1. problem \in Problems /\ vlocalScore \in [OwnNodes -> Int]
  BY DEF TypeOK
<1> HIDE DEF g
<1>2. \A n \in OwnNodes : gain(n) \in Int
  BY <1>1, ScoreTypes, ProblemType DEF g
<1>3. \/ op.kind = "ChangeNodeType" /\ op.node \in OwnNodes
      \/ op.kind = "FlipArc" /\ op.source \in OwnNodes /\ op.target \in OwnNodes
      \/ op.kind \in {"AddArc", "RemoveArc"} /\ op.target \in OwnNodes
  <2>1. op \in ArcOperators => op.source \in Nodes /\ op.target \in Nodes
    BY DEF ArcOperators
  <2>2. \A n \in Nodes : n \in OwnNodes \/ network.parents[n] = {}
    BY DEF Allowed, OwnNodes
  <2>3. QED BY <2>1, <2>2 DEF ChosenOp, ChosenArcOp, ChosenTypeOp, TypeNodes, ValidOp
<1>4. ValidationDelta(offer) =
         IF ~problem.validated THEN offer.delta
         ELSE CASE op.kind = "FlipArc" -> gain(op.source) + gain(op.target)
                [] op.kind = "ChangeNodeType" -> gain(op.node)
                [] OTHER -> gain(op.target)
  BY DEF ValidationDelta, g
<1> HIDE DEF gain
<1>5. CASE op.kind = "ChangeNodeType"
  BY <1>2, <1>3, <1>4, <1>5
<1>6. CASE op.kind = "FlipArc"
  BY <1>2, <1>3, <1>4, <1>6
<1>7. CASE op.kind \in {"AddArc", "RemoveArc"}
  BY <1>2, <1>3, <1>4, <1>7
<1>8. QED BY <1>3, <1>5, <1>6, <1>7

\* An operator reports every node whose type it changes.
LEMMA TypesReported ==
    ASSUME TypeOK, NEW op, ChosenOp(op), NEW n \in Nodes, n \notin NodesChanged(op)
    PROVE  Apply(op, network).type[n] = network.type[n]
<1>1. network \in Networks
  BY DEF TypeOK
<1>2. CASE ChosenArcOp(op)
  <2>1. Apply(op, network).type = network.type
    BY <1>1, <1>2 DEF ChosenArcOp, Apply, Networks
  <2>2. QED BY <2>1
<1>3. CASE ChosenTypeOp(op)
  <2>1. Apply(op, network) = [network EXCEPT !.type[op.node] = op.type] /\ n # op.node
    BY <1>3 DEF ChosenTypeOp, Apply, NodesChanged
  <2>2. QED BY <1>1, <2>1 DEF Networks
<1>4. QED BY <1>2, <1>3 DEF ChosenOp

\* One iteration, whichever way it ends.
LEMMA IterationKeeps ==
    ASSUME IInv, status = "searching", NEW offer \in BestOffers,
           ApplyToCurrent(offer.op), UNCHANGED problem,
           \/ /\ prevNetwork' = Apply(offer.op, prevNetwork)
              /\ InBounds(NodesChanged(offer.op))
              /\ UpdateScores(network', NodesChanged(offer.op))
              /\ status' = "searching"
           \/ /\ prevNetwork' = prevNetwork /\ UNCHANGED <<delta, typeDelta, localScore>>
              /\ status' = "finished",
           snapshot' \in {snapshot, prevNetwork},
           bestRef' \in {"current", "prev", "snapshot"}, p' \in Nat,
           offset' \in Int, tabu' \subseteq Operators
    PROVE  IInv'
<1> DEFINE op == offer.op
           g == Apply(op, network)
           changed == NodesChanged(op)
<1>1. /\ TypeOK /\ Allowed(network) /\ Allowed(prevNetwork) /\ Allowed(snapshot)
      /\ prevNetwork = network /\ (Aligned => EntriesProposed)
  BY DEF IInv
<1>2. ChosenOp(op)
  BY <1>1, BestIsChosen
<1> HIDE DEF op
<1>3. Allowed(g) /\ g \in Networks /\ \A n \in problem.interface : g.parents[n] = {}
  BY <1>1, <1>2, ApplyAllowed DEF Allowed
<1>4. network' = g /\ vlocalScore' = UpdateVLocalScores(g, changed)
  BY DEF ApplyToCurrent, op
<1>5. prevNetwork' \in {g, prevNetwork} /\ (status' = "searching" => prevNetwork' = g)
      /\ status' \in {"searching", "finished"}
  BY <1>1 DEF op
<1>6. \A n \in Nodes \ changed : g.type[n] = network.type[n]
  BY <1>1, <1>2, TypesReported
<1> HIDE DEF g, changed
<1>7. \/ UNCHANGED <<delta, typeDelta, localScore>> /\ status' = "finished"
      \/ UpdateScores(g, changed) /\ InBounds(changed)
  BY <1>4 DEF op, g, changed
<1>8. vlocalScore' \in [OwnNodes -> Int]
  BY <1>1, <1>3, <1>4, CachesTyped
<1>9. localScore' \in [OwnNodes -> Int] /\ delta' \in [ValidSlots -> Int]
  <2>1. CASE UNCHANGED <<delta, typeDelta, localScore>>
    BY <1>1, <2>1 DEF TypeOK
  <2>2. CASE UpdateScores(g, changed)
    BY <1>1, <1>3, <2>2, CachesTyped
  <2>3. QED BY <1>7, <2>1, <2>2
<1>10. /\ DOMAIN typeDelta' \subseteq 0 .. Entries - 1 /\ typeDelta' \in [DOMAIN typeDelta' -> Int]
       /\ status' = "searching" /\ Aligned =>
             \A n \in TypeNodes : CollapsedIndex[n] \in DOMAIN typeDelta' => Proposed(g, n)
  <2>1. CASE UNCHANGED <<delta, typeDelta, localScore>> /\ status' = "finished"
    BY <1>1, <2>1 DEF TypeOK
  <2>2. CASE UpdateScores(g, changed) /\ InBounds(changed)
    <3>1. UpdateTypeScores(g, localScore', changed)
      BY <2>2 DEF UpdateScores
    <3>2. QED BY <1>1, <1>3, <1>6, <1>9, <2>2, <3>1, EntriesUpdated
  <2>3. QED BY <1>7, <2>1, <2>2
<1>11. /\ ValidSlots' = ValidSlots /\ TypeNodes' = TypeNodes /\ Entries' = Entries
       /\ (Aligned' <=> Aligned) /\ (\A h, n : Proposed(h, n)' <=> Proposed(h, n))
       /\ OwnNodes' = OwnNodes
  BY DEF ValidSlots, ValidOp, OwnNodes, TypeNodes, Entries, Aligned, Appended, Proposed, ForbiddenTypes
<1>12. network' \in Networks /\ prevNetwork' \in Networks /\ snapshot' \in Networks
  BY <1>1, <1>3, <1>4, <1>5 DEF Allowed
<1>13. TypeOK'
  BY <1>1, <1>5, <1>8, <1>9, <1>10, <1>11, <1>12 DEF TypeOK
<1>14. \A h : Allowed(h)' <=> Allowed(h)
  BY <1>11 DEF Allowed, ArcAllowed, TypesAllowed
<1>15. Allowed(network') /\ Allowed(prevNetwork') /\ Allowed(snapshot')
  BY <1>1, <1>3, <1>4, <1>5
<1>16. status' = "searching" /\ Aligned' => EntriesProposed'
  BY <1>4, <1>10, <1>11 DEF EntriesProposed
<1>17. QED BY <1>4, <1>5, <1>13, <1>14, <1>15, <1>16 DEF IInv

LEMMA OppositeTyped ==
    ASSUME NEW op \in Operators, NEW g \in Networks
    PROVE  Opposite(op, g) \in Operators
<1>1. CASE op \in ArcOperators
  BY <1>1 DEF Opposite, Operators, ArcOperators
<1>2. CASE op \in TypeOperators
  BY <1>2 DEF Opposite, Operators, TypeOperators, Networks
<1>3. QED BY <1>1, <1>2 DEF Operators

\* A step that changes nothing but the status.
LEMMA StopKeeps ==
    ASSUME IInv, status' \in {status, "finished", "interrupted", "undefined"},
           UNCHANGED <<problem, network, delta, typeDelta, localScore, prevNetwork,
                       bestRef, snapshot, p, offset, tabu, vlocalScore>>
    PROVE  IInv'
<1>1. /\ ValidSlots' = ValidSlots /\ TypeNodes' = TypeNodes /\ Entries' = Entries
      /\ (Aligned' <=> Aligned) /\ (EntriesProposed' <=> EntriesProposed)
      /\ OwnNodes' = OwnNodes
  BY DEF ValidSlots, ValidOp, OwnNodes, TypeNodes, Entries, Aligned, Appended, EntriesProposed,
         Proposed, ForbiddenTypes
<1>2. \A h : Allowed(h)' <=> Allowed(h)
  BY <1>1 DEF Allowed, ArcAllowed, TypesAllowed
<1>3. TypeOK'
  BY <1>1 DEF IInv, TypeOK
<1>4. QED BY <1>1, <1>2, <1>3 DEF IInv

LEMMA IterateIInv == IInv /\ Iterate => IInv'
<1> SUFFICES ASSUME IInv, Iterate PROVE IInv'
  OBVIOUS
<1>1. /\ bestRef \in {"current", "prev", "snapshot"} /\ p \in Nat /\ offset \in Int
      /\ tabu \subseteq Operators /\ TypeOK /\ Allowed(network)
  BY DEF IInv, TypeOK
<1>2. CASE NoOperator
  BY <1>2, StopKeeps DEF NoOperator
<1>3. CASE MissingType
  BY <1>3, StopKeeps DEF MissingType, Undefined
<1>4. ASSUME NEW offer \in BestOffers, status = "searching"
      PROVE  /\ offer.op \in Operators /\ Apply(offer.op, network) \in Networks
             /\ Opposite(offer.op, Apply(offer.op, network)) \in Operators
             /\ ValidationDelta(offer) \in Int
  <2>1. ChosenOp(offer.op) /\ offer.op \in Operators /\ offer.delta \in Int
    BY <1>1, <1>4, BestIsChosen
  <2>2. Apply(offer.op, network) \in Networks
    BY <1>1, <1>4, <2>1, ApplyAllowed DEF Allowed, IInv
  <2>3. QED BY <1>1, <2>1, <2>2, GainTyped, OppositeTyped
<1>5. ASSUME NEW offer \in BestOffers, Improve(offer)
      PROVE  IInv'
  <2> DEFINE op == offer.op
  <2>1. /\ status = "searching" /\ ApplyToCurrent(op) /\ UNCHANGED problem
        /\ prevNetwork' = Apply(op, prevNetwork) /\ InBounds(NodesChanged(op))
        /\ UpdateScores(network', NodesChanged(op)) /\ status' = status
        /\ snapshot' = snapshot /\ tabu' \in {tabu, {}}
    BY <1>5 DEF Improve, GoOn
  <2>2. bestRef' \in {bestRef, "current"} /\ p' \in {p, 0} /\ offset' \in {offset, 0}
    BY <1>5 DEF Improve
  <2> HIDE DEF op
  <2>3. bestRef' \in {"current", "prev", "snapshot"} /\ p' \in Nat /\ offset' \in Int
        /\ tabu' \subseteq Operators
    BY <1>1, <2>1, <2>2
  <2>4. QED BY <2>1, <2>3, IterationKeeps DEF op
<1>6. ASSUME NEW offer \in BestOffers, Tolerate(offer)
      PROVE  IInv'
  <2> DEFINE op == offer.op
  <2>1. /\ status = "searching" /\ ApplyToCurrent(op) /\ UNCHANGED problem
        /\ prevNetwork' = Apply(op, prevNetwork) /\ InBounds(NodesChanged(op))
        /\ UpdateScores(network', NodesChanged(op)) /\ status' = status
        /\ p' = p + 1 /\ offset' = offset + ValidationDelta(offer)
        /\ tabu' = tabu \cup {Opposite(op, network')}
    BY <1>6 DEF Tolerate, GoOn
  <2>2. bestRef' \in {bestRef, "snapshot"} /\ snapshot' \in {snapshot, prevNetwork}
    BY <1>6 DEF Tolerate, KeepBest
  <2>3. Opposite(op, network') \in Operators /\ ValidationDelta(offer) \in Int
    BY <1>4, <2>1 DEF ApplyToCurrent
  <2> HIDE DEF op
  <2>4. bestRef' \in {"current", "prev", "snapshot"} /\ p' \in Nat /\ offset' \in Int
        /\ tabu' \subseteq Operators
    BY <1>1, <2>1, <2>2, <2>3
  <2>5. QED BY <2>1, <2>2, <2>4, IterationKeeps DEF op
<1>7. ASSUME NEW offer \in BestOffers, GiveUp(offer)
      PROVE  IInv'
  <2>1. /\ status = "searching" /\ ApplyToCurrent(offer.op)
        /\ UNCHANGED <<problem, delta, typeDelta, localScore, prevNetwork, offset, tabu>>
        /\ status' = "finished"
    BY <1>7 DEF GiveUp
  <2>2. /\ bestRef' \in {bestRef, "prev", "snapshot"} /\ snapshot' \in {snapshot, prevNetwork}
        /\ p' \in {p, p + 1}
    BY <1>7 DEF GiveUp, KeepBest
  <2>3. bestRef' \in {"current", "prev", "snapshot"} /\ p' \in Nat /\ offset' \in Int
        /\ tabu' \subseteq Operators
    BY <1>1, <2>1, <2>2
  <2>4. QED BY <2>1, <2>2, <2>3, IterationKeeps
<1>8. ASSUME NEW offer \in BestOffers, MissingEntry(offer)
      PROVE  IInv'
  BY <1>8, StopKeeps DEF MissingEntry, Undefined
<1>9. QED BY <1>2, <1>3, <1>5, <1>6, <1>7, <1>8 DEF Iterate

LEMMA NextIInv == IInv /\ [Next]_vars => IInv'
<1> SUFFICES ASSUME IInv, [Next]_vars PROVE IInv'
  OBVIOUS
<1>1. CASE OutOfIterations
  BY <1>1, StopKeeps DEF OutOfIterations
<1>2. CASE UNCHANGED vars
  BY <1>2, StopKeeps DEF vars, searchVars
<1>3. QED BY <1>1, <1>2, IterateIInv DEF Next

LEMMA Invariance == Spec => []IInv
<1>1. Init => IInv
  BY InitIInv
<1>2. IInv /\ [Next]_vars => IInv'
  BY NextIInv
<1>3. QED BY <1>1, <1>2, PTL DEF Spec

-------------------------------------------------------------------------------
(* The caches.                                                             *)

\* The local scores of a network.
Exact(g) == [n \in OwnNodes |-> LocalScore(problem.score, g, n)]

Joined(g, a) == a[1] \in g.parents[a[2]] \/ a[2] \in g.parents[a[1]]

LocalScoresExact ==
    \A n \in OwnNodes : /\ localScore[n] = LocalScore(problem.score, network, n)
                        /\ vlocalScore[n] = LocalScore(problem.val, network, n)

SlotsExact ==
    \A a \in ValidSlots : Joined(network, a) /\ CanHaveArc(network, a[1], a[2])
                          => SlotExact(a, network, delta)

\* An entry stands where it is looked for unless a whitelisted node shifts it.
EntriesExact ==
    Aligned => \A n \in TypeNodes :
        /\ CollapsedIndex[n] \in DOMAIN typeDelta <=> Proposed(network, n)
        /\ Proposed(network, n) =>
              typeDelta[CollapsedIndex[n]] = TypeGain(network, Exact(network), n)

\* Networks that differ in the nodes x and y only.
DifferIn(g, h, x, y) ==
    \A n \in Nodes : n # x /\ n # y => h.parents[n] = g.parents[n] /\ h.type[n] = g.type[n]

SameDiscrete(g, h) ==
    \A n \in Nodes : h.type[n] = "Discrete" <=> g.type[n] = "Discrete"

\* What an operator of find_max changes: one node or two, which it reports.
LEMMA Effect ==
    ASSUME TypeOK, Allowed(network), NEW op, ChosenOp(op)
    PROVE  /\ SameDiscrete(network, Apply(op, network))
           /\ \E x, y \in OwnNodes : /\ NodesChanged(op) = {x, y}
                                     /\ DifferIn(network, Apply(op, network), x, y)
                                     /\ IF op.kind = "FlipArc"
                                        THEN x = op.source /\ y = op.target /\ x # y
                                        ELSE IF op.kind = "ChangeNodeType"
                                             THEN x = op.node /\ y = op.node
                                             ELSE x = op.target /\ y = op.target
<1> DEFINE g == Apply(op, network)
<1>1. network \in Networks /\ OwnNodes \subseteq Nodes
  BY ProblemType DEF TypeOK
<1>2. CASE ChosenTypeOp(op)
  <2>1. /\ op.kind = "ChangeNodeType" /\ op.node \in OwnNodes
        /\ g = [network EXCEPT !.type[op.node] = op.type] /\ NodesChanged(op) = {op.node}
        /\ network.type[op.node] # "Discrete" /\ op.type # "Discrete"
    BY <1>2 DEF ChosenTypeOp, Apply, NodesChanged, TypeNodes, OtherType
  <2>2. /\ g.parents = network.parents
        /\ \A n \in Nodes : g.type[n] = IF n = op.node THEN op.type ELSE network.type[n]
    BY <1>1, <2>1 DEF Networks
  <2> HIDE DEF g
  <2>3. SameDiscrete(network, g)
    BY <2>1, <2>2 DEF SameDiscrete
  <2>4. DifferIn(network, g, op.node, op.node) /\ NodesChanged(op) = {op.node, op.node}
    BY <2>1, <2>2 DEF DifferIn
  <2>5. QED BY <2>1, <2>3, <2>4 DEF g
<1>3. CASE ChosenArcOp(op) /\ op.kind = "FlipArc"
  <2> DEFINE s == op.source
             t == op.target
  <2>1. /\ s \in OwnNodes /\ t \in OwnNodes /\ s # t /\ NodesChanged(op) = {s, t}
        /\ g = [network EXCEPT !.parents[t] = @ \ {s}, !.parents[s] = @ \cup {t}]
    <3>1. s \in OwnNodes
      BY <1>3 DEF ChosenArcOp, ValidOp
    <3>2. t \in Nodes /\ network.parents[t] # {}
      BY <1>3 DEF ChosenArcOp, ArcOperators
    <3>3. t \in OwnNodes
      BY <3>2 DEF Allowed, OwnNodes
    <3>4. QED BY <1>3, <3>1, <3>3 DEF ChosenArcOp, Apply, NodesChanged
  <2>2. /\ g.type = network.type
        /\ \A n \in Nodes : n # s /\ n # t => g.parents[n] = network.parents[n]
    BY <1>1, <2>1 DEF Networks
  <2> HIDE DEF g
  <2>3. SameDiscrete(network, g) /\ DifferIn(network, g, s, t)
    BY <2>2 DEF SameDiscrete, DifferIn
  <2>4. QED BY <1>3, <2>1, <2>3 DEF g
<1>4. CASE ChosenArcOp(op) /\ op.kind # "FlipArc"
  <2> DEFINE t == op.target
  <2>1. /\ t \in OwnNodes /\ NodesChanged(op) = {t} /\ op.kind \in {"AddArc", "RemoveArc"}
        /\ \E P : g = [network EXCEPT !.parents[t] = P]
    BY <1>4 DEF ChosenArcOp, ValidOp, Apply, NodesChanged
  <2>2. /\ g.type = network.type
        /\ \A n \in Nodes : n # t => g.parents[n] = network.parents[n]
    BY <1>1, <2>1 DEF Networks
  <2> HIDE DEF g
  <2>3. SameDiscrete(network, g) /\ DifferIn(network, g, t, t) /\ NodesChanged(op) = {t, t}
    BY <2>1, <2>2 DEF SameDiscrete, DifferIn
  <2>4. QED BY <2>1, <2>3 DEF g
<1>5. QED BY <1>2, <1>3, <1>4 DEF ChosenOp

\* The score of a network is the sum of the scores of its nodes, of which an
\* operator changes one or two.
LEMMA TotalChange ==
    ASSUME problem \in Problems, NEW table \in {problem.score, problem.val},
           NEW g \in Networks, NEW h \in Networks, NEW x \in OwnNodes, NEW y \in OwnNodes,
           DifferIn(g, h, x, y)
    PROVE  /\ Total(table, g) \in Int /\ Total(table, h) \in Int
           /\ LocalScore(table, g, x) \in Int /\ LocalScore(table, h, x) \in Int
           /\ LocalScore(table, g, y) \in Int /\ LocalScore(table, h, y) \in Int
           /\ Total(table, h) - Total(table, g) =
                 IF x = y THEN LocalScore(table, h, x) - LocalScore(table, g, x)
                 ELSE (LocalScore(table, h, x) - LocalScore(table, g, x))
                        + (LocalScore(table, h, y) - LocalScore(table, g, y))
<1> DEFINE old == [n \in OwnNodes |-> LocalScore(table, g, n)]
           new == [n \in OwnNodes |-> LocalScore(table, h, n)]
<1>1. OwnNodes \subseteq Nodes /\ IsFiniteSet(OwnNodes)
  BY NodesAssumption, FS_Subset DEF OwnNodes
<1>2. \A n \in OwnNodes : LocalScore(table, g, n) \in Int /\ LocalScore(table, h, n) \in Int
  <2>1. [n \in OwnNodes |-> 0] \in [OwnNodes -> Int]
    OBVIOUS
  <2>2. QED BY <1>1, <2>1, ScoreTypes
<1>3. old \in [OwnNodes -> Int] /\ new \in [OwnNodes -> Int]
  BY <1>2
<1>4. \A n \in OwnNodes : n # x /\ n # y => old[n] = new[n]
  BY <1>1 DEF DifferIn, LocalScore
<1>5. /\ old[x] = LocalScore(table, g, x) /\ new[x] = LocalScore(table, h, x)
      /\ old[y] = LocalScore(table, g, y) /\ new[y] = LocalScore(table, h, y)
      /\ Total(table, g) = SumFunction(old) /\ Total(table, h) = SumFunction(new)
  BY DEF Total
<1> HIDE DEF old, new
<1>6. ChangeOf(SumFunction(old), SumFunction(new), old, new, x, y)
  BY <1>1, <1>3, <1>4, SumChange
<1>7. QED BY <1>2, <1>5, <1>6 DEF ChangeOf

LEMMA TotalTyped ==
    ASSUME problem \in Problems, NEW g \in Networks
    PROVE  Score(g) \in Int /\ Validation(g) \in Int
<1>1. IsFiniteSet(OwnNodes) /\ OwnNodes \subseteq Nodes
  BY NodesAssumption, FS_Subset DEF OwnNodes
<1>2. \A n \in OwnNodes : LocalScore(problem.score, g, n) \in Int /\ LocalScore(problem.val, g, n) \in Int
  <2>1. [n \in OwnNodes |-> 0] \in [OwnNodes -> Int]
    OBVIOUS
  <2>2. QED BY <1>1, <2>1, ScoreTypes
<1>3. /\ [n \in OwnNodes |-> LocalScore(problem.score, g, n)] \in [OwnNodes -> Int]
      /\ [n \in OwnNodes |-> LocalScore(problem.val, g, n)] \in [OwnNodes -> Int]
  BY <1>2
<1>4. QED BY <1>1, <1>3, SumTyped DEF Score, Validation, Total

\* A slot depends on the parents and the type of its two nodes; the slot of an arc
\* to be removed or added only on those of its target.
LEMMA SlotDepends ==
    ASSUME NEW g, NEW h, NEW a \in ValidSlots,
           \A n \in problem.interface : g.parents[n] = {} /\ h.parents[n] = {},
           h.parents[a[2]] = g.parents[a[2]], h.type[a[2]] = g.type[a[2]],
           \/ h.parents[a[1]] = g.parents[a[1]] /\ h.type[a[1]] = g.type[a[1]]
           \/ a[1] \in g.parents[a[2]]
           \/ a[2] \notin g.parents[a[1]] /\ a[2] \notin h.parents[a[1]]
    PROVE  SlotDelta(h, Exact(h), a[1], a[2]) = SlotDelta(g, Exact(g), a[1], a[2])
<1> DEFINE s == a[1]
           t == a[2]
<1>1. s \in Nodes /\ t \in OwnNodes /\ t \in Nodes
  BY DEF ValidSlots, ValidOp, OwnNodes
<1>2. \A P : ScoreWith(problem.score, h, t, P) = ScoreWith(problem.score, g, t, P)
  BY DEF ScoreWith
<1>3. Exact(h)[t] = Exact(g)[t]
  BY <1>1 DEF Exact, LocalScore
<1>4. CASE s \in g.parents[t]
  BY <1>2, <1>3, <1>4 DEF SlotDelta
<1>5. CASE s \notin g.parents[t] /\ t \notin g.parents[s] /\ t \notin h.parents[s]
  BY <1>2, <1>3, <1>5 DEF SlotDelta
<1>6. CASE /\ h.parents[s] = g.parents[s] /\ h.type[s] = g.type[s]
           /\ s \notin g.parents[t] /\ t \in g.parents[s]
  <2>1. s \in OwnNodes
    BY <1>1, <1>6 DEF OwnNodes
  <2>2. Exact(h)[s] = Exact(g)[s]
    BY <1>6, <2>1 DEF Exact, LocalScore
  <2>3. \A P : ScoreWith(problem.score, h, s, P) = ScoreWith(problem.score, g, s, P)
    BY <1>6 DEF ScoreWith
  <2>4. QED BY <1>2, <1>3, <1>6, <2>2, <2>3 DEF SlotDelta
<1>7. QED BY <1>4, <1>5, <1>6

\* After an operator the caches of local scores are those of the new network.
LEMMA LocalScoresUpdated ==
    ASSUME TypeOK, LocalScoresExact, NEW g, NEW x \in OwnNodes, NEW y \in OwnNodes,
           DifferIn(network, g, x, y)
    PROVE  /\ UpdateLocalScores(g, {x, y}) = Exact(g)
           /\ \A n \in OwnNodes :
                 UpdateVLocalScores(g, {x, y})[n] = LocalScore(problem.val, g, n)
<1>1. OwnNodes \subseteq Nodes
  BY DEF OwnNodes
<1>2. ASSUME NEW n \in OwnNodes, n # x, n # y
      PROVE  /\ LocalScore(problem.score, g, n) = localScore[n]
             /\ LocalScore(problem.val, g, n) = vlocalScore[n]
  BY <1>1, <1>2 DEF DifferIn, LocalScore, LocalScoresExact
<1>3. QED BY <1>2 DEF UpdateLocalScores, UpdateVLocalScores, Exact

\* update_scores refreshes every slot that the operator has made wrong, except the
\* slot opposite to an arc it has removed.
LEMMA SlotsUpdated ==
    ASSUME TypeOK, Allowed(network), NEW g, Allowed(g), SameDiscrete(network, g),
           NEW x \in OwnNodes, NEW y \in OwnNodes, DifferIn(network, g, x, y),
           NEW d, d = [a \in ValidSlots |-> IF a \in Refreshed(g, {x, y})
                                            THEN SlotDelta(g, Exact(g), a[1], a[2])
                                            ELSE delta[a]],
           NEW a \in ValidSlots, CanHaveArc(network, a[1], a[2])
    PROVE  /\ SlotExact(a, network, delta)
              => \/ SlotExact(a, g, d)
                 \/ /\ a[2] \in network.parents[a[1]]
                    /\ a[2] \notin g.parents[a[1]] /\ a[1] \notin g.parents[a[2]]
           /\ Joined(g, a) /\ (Joined(network, a) => SlotExact(a, network, delta))
              => SlotExact(a, g, d)
<1> DEFINE s == a[1]
           t == a[2]
<1>1. /\ s \in Nodes /\ t \in OwnNodes /\ t \in Nodes /\ s # t
      /\ \A n \in problem.interface : network.parents[n] = {} /\ g.parents[n] = {}
  BY DEF ValidSlots, ValidOp, OwnNodes, Allowed
<1>2. CanHaveArc(g, s, t)
  BY <1>1 DEF CanHaveArc, SameDiscrete
<1>3. \A h, c : SlotExact(a, h, c) <=> c[a] = SlotDelta(h, Exact(h), s, t)
  BY DEF SlotExact, Exact
<1>4. CASE a \in Refreshed(g, {x, y})
  BY <1>3, <1>4
<1>5. CASE a \notin Refreshed(g, {x, y})
  <2>1. d[a] = delta[a]
    BY <1>5
  <2>2. t # x /\ t # y
    BY <1>2, <1>5 DEF Refreshed
  <2>3. g.parents[t] = network.parents[t] /\ g.type[t] = network.type[t]
    BY <1>1, <2>2 DEF DifferIn
  <2>4. t \in g.parents[s] => ValidOp(t, s)
    <3> SUFFICES ASSUME t \in g.parents[s] PROVE ValidOp(t, s)
      OBVIOUS
    <3>1. s \in OwnNodes
      BY <1>1 DEF OwnNodes
    <3>2. <<t, s>> \notin problem.blacklist
      BY DEF Allowed
    <3>3. <<t, s>> \notin problem.whitelist /\ <<s, t>> \notin problem.whitelist
      BY DEF ValidSlots, ValidOp
    <3>4. QED BY <1>1, <3>1, <3>2, <3>3 DEF ValidOp
  <2>5. t \in g.parents[s] => s # x /\ s # y
    BY <1>2, <1>5, <2>4 DEF Refreshed
  <2>6. s # x /\ s # y => g.parents[s] = network.parents[s] /\ g.type[s] = network.type[s]
    BY <1>1 DEF DifferIn
  <2>7. Joined(g, a) => Joined(network, a)
    BY <2>3, <2>5, <2>6 DEF Joined
  <2>8. \/ SlotDelta(g, Exact(g), s, t) = SlotDelta(network, Exact(network), s, t)
        \/ t \in network.parents[s] /\ t \notin g.parents[s] /\ s \notin g.parents[t]
    BY <1>1, <2>3, <2>5, <2>6, SlotDepends
  <2>9. Joined(g, a) => SlotDelta(g, Exact(g), s, t) = SlotDelta(network, Exact(network), s, t)
    BY <2>8 DEF Joined
  <2>10. QED BY <1>3, <2>1, <2>7, <2>8, <2>9
<1>6. QED BY <1>4, <1>5

\* The entries that cache_scores appends stand where they are looked for.
LEMMA EntriesCached ==
    ASSUME NEW g, NEW d, d = CacheTypeScores(g, Exact(g)), Aligned, NEW n \in TypeNodes
    PROVE  /\ CollapsedIndex[n] \in DOMAIN d <=> Proposed(g, n)
           /\ Proposed(g, n) => d[CollapsedIndex[n]] = TypeGain(g, Exact(g), n)
<1> DEFINE node(i) == CHOOSE m \in TypeNodes : Proposed(g, m) /\ Appended(m) = i
           D == {Appended(m) : m \in {k \in TypeNodes : Proposed(g, k)}}
           i == CollapsedIndex[n]
<1>1. d = [k \in D |-> TypeGain(g, Exact(g), node(k))]
  BY DEF CacheTypeScores
<1>2. \A m \in TypeNodes : Appended(m) = CollapsedIndex[m] /\ m \in Nodes
  BY DEF Aligned, TypeNodes, OwnNodes
<1>3. \A m \in TypeNodes : Appended(m) = i => m = n
  BY <1>2, CollapsedIndexAssumption
<1>4. i \in D <=> Proposed(g, n)
  BY <1>2, <1>3
<1>5. ASSUME Proposed(g, n)
      PROVE  node(i) = n
  <2>1. \E m \in TypeNodes : Proposed(g, m) /\ Appended(m) = i
    BY <1>2, <1>5
  <2>2. node(i) \in TypeNodes /\ Appended(node(i)) = i
    BY <2>1
  <2>3. QED BY <1>3, <2>2
<1> HIDE DEF D, node
<1>6. QED BY <1>1, <1>4, <1>5

\* An update writes the entries of the nodes it is given and no other.
LEMMA EntriesRewritten ==
    ASSUME TypeOK, EntriesExact, Aligned, NEW g,
           NEW x \in OwnNodes, NEW y \in OwnNodes, DifferIn(network, g, x, y),
           UpdateTypeScores(g, Exact(g), {x, y}), NEW n \in TypeNodes
    PROVE  /\ CollapsedIndex[n] \in DOMAIN typeDelta' <=> Proposed(g, n)
           /\ Proposed(g, n) => typeDelta'[CollapsedIndex[n]] = TypeGain(g, Exact(g), n)
<1> DEFINE nodes == {x, y} \cap TypeNodes
           written == {CollapsedIndex[m] : m \in nodes}
           filled == {CollapsedIndex[m] : m \in {k \in nodes : Proposed(g, k)}}
           D == (DOMAIN typeDelta \ written) \cup filled
           node(k) == CHOOSE m \in nodes : CollapsedIndex[m] = k
           i == CollapsedIndex[n]
<1>1. typeDelta' = [k \in D |-> IF k \in filled THEN TypeGain(g, Exact(g), node(k)) ELSE typeDelta[k]]
  BY DEF UpdateTypeScores
<1>2. \A m \in TypeNodes : CollapsedIndex[m] = i => m = n
  BY CollapsedIndexAssumption DEF TypeNodes, OwnNodes
<1>3. CASE n \in {x, y}
  <2>1. /\ n \in nodes /\ i \in written /\ (i \in filled <=> Proposed(g, n))
        /\ node(i) = n
    <3>1. n \in nodes /\ i \in written
      BY <1>3
    <3>2. i \in filled <=> Proposed(g, n)
      BY <1>2, <3>1
    <3>3. node(i) \in nodes /\ CollapsedIndex[node(i)] = i
      BY <3>1
    <3>4. QED BY <1>2, <3>1, <3>2, <3>3
  <2> HIDE DEF filled, written, node
  <2>2. i \in D <=> Proposed(g, n)
    BY <2>1
  <2> HIDE DEF D
  <2>3. QED BY <1>1, <2>1, <2>2
<1>4. CASE n \notin {x, y}
  <2>1. i \notin written /\ i \notin filled
    BY <1>2, <1>4
  <2> HIDE DEF filled, written, node
  <2>2. i \in D <=> i \in DOMAIN typeDelta
    BY <2>1
  <2>3. n \in OwnNodes /\ n \in Nodes
    BY DEF TypeNodes, OwnNodes
  <2>4. g.parents[n] = network.parents[n] /\ g.type[n] = network.type[n]
    BY <1>4, <2>3 DEF DifferIn
  <2>5. Proposed(g, n) <=> Proposed(network, n)
    BY <2>4 DEF Proposed
  <2>6. TypeGain(g, Exact(g), n) = TypeGain(network, Exact(network), n)
    BY <2>3, <2>4 DEF TypeGain, Exact, LocalScore
  <2>7. /\ i \in DOMAIN typeDelta <=> Proposed(network, n)
        /\ Proposed(network, n) => typeDelta[i] = TypeGain(network, Exact(network), n)
    BY DEF EntriesExact
  <2> HIDE DEF D
  <2>8. QED BY <1>1, <2>1, <2>2, <2>5, <2>6, <2>7
<1>5. QED BY <1>3, <1>4

\* The delta of a slot is the score difference that its operator makes.
LEMMA SlotIsDifference ==
    ASSUME TypeOK, Allowed(network), NEW a \in ValidSlots, Joined(network, a)
    PROVE  SlotDelta(network, Exact(network), a[1], a[2])
              = Score(Apply(SlotOperator(a[1], a[2]), network)) - Score(network)
<1> DEFINE s == a[1]
           t == a[2]
           g == Apply(SlotOperator(s, t), network)
           With(n, P) == ScoreWith(problem.score, network, n, P)
<1>1. /\ s \in Nodes /\ t \in OwnNodes /\ t \in Nodes /\ s # t
      /\ problem \in Problems /\ network \in Networks
  BY DEF ValidSlots, ValidOp, OwnNodes, TypeOK
<1>2. CASE s \in network.parents[t]
  <2>1. g = [network EXCEPT !.parents[t] = @ \ {s}]
    BY <1>2 DEF SlotOperator, Apply
  <2>2. /\ g \in Networks /\ g.type = network.type /\ g.parents[t] = network.parents[t] \ {s}
        /\ \A n \in Nodes : n # t => g.parents[n] = network.parents[n]
    BY <1>1, <2>1 DEF Networks
  <2> HIDE DEF g
  <2>3. DifferIn(network, g, t, t)
    BY <2>2 DEF DifferIn
  <2>4. Score(g) - Score(network) =
           LocalScore(problem.score, g, t) - LocalScore(problem.score, network, t)
    BY <1>1, <2>2, <2>3, TotalChange DEF Score
  <2>5. LocalScore(problem.score, g, t) = With(t, network.parents[t] \ {s})
    BY <2>2 DEF LocalScore, ScoreWith
  <2>6. SlotDelta(network, Exact(network), s, t) =
           With(t, network.parents[t] \ {s}) - LocalScore(problem.score, network, t)
    BY <1>1, <1>2 DEF SlotDelta, Exact
  <2>7. QED BY <2>4, <2>5, <2>6 DEF g
<1>3. CASE s \notin network.parents[t] /\ t \in network.parents[s]
  <2>1. g = [network EXCEPT !.parents[s] = @ \ {t}, !.parents[t] = @ \cup {s}]
    BY <1>3 DEF SlotOperator, Apply
  <2>2. /\ g \in Networks /\ g.type = network.type
        /\ g.parents[t] = network.parents[t] \cup {s}
        /\ g.parents[s] = network.parents[s] \ {t}
        /\ \A n \in Nodes : n # s /\ n # t => g.parents[n] = network.parents[n]
    <3> DEFINE f == [network EXCEPT !.parents[s] = @ \ {t}]
    <3>1. /\ f \in Networks /\ f.type = network.type /\ f.parents[s] = network.parents[s] \ {t}
          /\ \A n \in Nodes : n # s => f.parents[n] = network.parents[n]
      BY <1>1 DEF Networks
    <3>2. g = [f EXCEPT !.parents[t] = network.parents[t] \cup {s}]
      <4> HIDE DEF g
      <4>1. QED BY <2>1
    <3> HIDE DEF f, g
    <3>3. /\ g \in Networks /\ g.type = f.type
          /\ g.parents[t] = network.parents[t] \cup {s}
          /\ \A n \in Nodes : n # t => g.parents[n] = f.parents[n]
      BY <1>1, <3>1, <3>2 DEF Networks
    <3>4. QED BY <1>1, <3>1, <3>3
  <2> HIDE DEF g
  <2>3. s \in OwnNodes
    BY <1>1, <1>3 DEF OwnNodes, Allowed
  <2>4. DifferIn(network, g, s, t)
    BY <2>2 DEF DifferIn
  <2>5. /\ LocalScore(problem.score, g, s) = With(s, network.parents[s] \ {t})
        /\ LocalScore(problem.score, g, t) = With(t, network.parents[t] \cup {s})
    BY <2>2 DEF LocalScore, ScoreWith
  <2>6. /\ Score(g) - Score(network) =
             (LocalScore(problem.score, g, s) - LocalScore(problem.score, network, s))
               + (LocalScore(problem.score, g, t) - LocalScore(problem.score, network, t))
        /\ LocalScore(problem.score, g, s) \in Int /\ LocalScore(problem.score, g, t) \in Int
        /\ LocalScore(problem.score, network, s) \in Int
        /\ LocalScore(problem.score, network, t) \in Int
    BY <1>1, <2>2, <2>3, <2>4, TotalChange DEF Score
  <2>7. SlotDelta(network, Exact(network), s, t) =
           With(s, network.parents[s] \ {t}) + With(t, network.parents[t] \cup {s})
             - LocalScore(problem.score, network, s) - LocalScore(problem.score, network, t)
    BY <1>1, <1>3, <2>3 DEF SlotDelta, Exact
  <2> HIDE DEF With
  <2>8. QED BY <2>5, <2>6, <2>7 DEF g
<1>4. QED BY <1>2, <1>3 DEF Joined

\* So is the entry of a node that may change its type.
LEMMA EntryIsDifference ==
    ASSUME TypeOK, NEW n \in TypeNodes, Proposed(network, n)
    PROVE  TypeGain(network, Exact(network), n)
              = Score(Apply(TypeOperator(n), network)) - Score(network)
<1> DEFINE T == OtherType[network.type[n]]
           g == Apply(TypeOperator(n), network)
<1>1. n \in OwnNodes /\ n \in Nodes /\ problem \in Problems /\ network \in Networks
  BY DEF TypeNodes, OwnNodes, TypeOK
<1>2. T \in NodeTypes
  BY DEF Proposed, OtherType, NodeTypes
<1>3. g = [network EXCEPT !.type[n] = T]
  BY DEF TypeOperator, Apply
<1> HIDE DEF T
<1>4. /\ g \in Networks /\ g.parents = network.parents /\ g.type[n] = T
      /\ \A m \in Nodes : m # n => g.type[m] = network.type[m]
  BY <1>1, <1>2, <1>3 DEF Networks
<1> HIDE DEF g
<1>5. DifferIn(network, g, n, n)
  BY <1>4 DEF DifferIn
<1>6. Score(g) - Score(network) =
         LocalScore(problem.score, g, n) - LocalScore(problem.score, network, n)
  BY <1>1, <1>4, <1>5, TotalChange DEF Score
<1>7. TypeGain(network, Exact(network), n) =
         LocalScore(problem.score, g, n) - LocalScore(problem.score, network, n)
  BY <1>1, <1>4 DEF TypeGain, Exact, LocalScore, T
<1>8. QED BY <1>6, <1>7 DEF g

-------------------------------------------------------------------------------
(* The model that is returned.                                             *)

\* best_model is the current model, or, once the search loses, the clone made before
\* the first loss.
BestKept ==
    /\ p <= problem.patience
    /\ p = 0 => bestRef = "current" /\ offset = 0 /\ tabu = {}
    /\ p > 0 => /\ bestRef = "snapshot" /\ problem.validated
                /\ Validation(network) = Validation(snapshot) + offset /\ offset <= 0

CInv ==
    /\ IInv
    /\ status = "searching" => LocalScoresExact /\ SlotsExact /\ EntriesExact /\ BestKept

LEMMA InitCInv == Init => CInv
<1> SUFFICES ASSUME Init PROVE CInv
  OBVIOUS
<1>1. IInv
  BY InitIInv
<1>2. /\ LocalScoresExact
      /\ localScore = Exact(network) /\ delta = CacheScores(network, localScore)
      /\ typeDelta = CacheTypeScores(network, localScore)
      /\ bestRef = "current" /\ p = 0 /\ offset = 0 /\ tabu = {}
  BY DEF Init, LocalScoresExact, Exact
<1>3. SlotsExact
  BY <1>2 DEF SlotsExact, CacheScores, SlotExact, Exact
<1>4. EntriesExact
  BY <1>2, EntriesCached DEF EntriesExact
<1>5. problem.patience \in Nat
  BY <1>1, ProblemType DEF IInv, TypeOK
<1>6. QED BY <1>1, <1>2, <1>3, <1>4, <1>5 DEF CInv, BestKept

\* What validation_delta_score computes from its cache is the change of the
\* validation score.
LEMMA GainIsDifference ==
    ASSUME CInv, status = "searching", NEW offer \in BestOffers, problem.validated
    PROVE  /\ Validation(network) \in Int /\ Validation(Apply(offer.op, network)) \in Int
           /\ Validation(Apply(offer.op, network)) = Validation(network) + ValidationDelta(offer)
<1> DEFINE op == offer.op
           g == Apply(op, network)
<1>1. /\ TypeOK /\ Allowed(network) /\ ChosenOp(op) /\ problem \in Problems
      /\ LocalScoresExact /\ network \in Networks
  BY BestIsChosen DEF CInv, IInv, TypeOK
<1>2. g \in Networks
  BY <1>1, ApplyAllowed DEF CInv, IInv, Allowed
<1>3. PICK x \in OwnNodes, y \in OwnNodes :
         /\ DifferIn(network, g, x, y)
         /\ IF op.kind = "FlipArc" THEN x = op.source /\ y = op.target /\ x # y
            ELSE IF op.kind = "ChangeNodeType" THEN x = op.node /\ y = op.node
                 ELSE x = op.target /\ y = op.target
  BY <1>1, Effect
<1> DEFINE gain(n) == LocalScore(problem.val, g, n) - LocalScore(problem.val, network, n)
<1>4. /\ Validation(g) - Validation(network) = IF x = y THEN gain(x) ELSE gain(x) + gain(y)
      /\ Validation(g) \in Int /\ Validation(network) \in Int
      /\ gain(x) \in Int /\ gain(y) \in Int
  <2> HIDE DEF g
  <2>1. QED BY <1>1, <1>2, <1>3, TotalChange DEF Validation
<1>5. vlocalScore[x] = LocalScore(problem.val, network, x)
      /\ vlocalScore[y] = LocalScore(problem.val, network, y)
  BY <1>1 DEF LocalScoresExact
<1>6. ValidationDelta(offer) = IF x = y THEN gain(x) ELSE gain(x) + gain(y)
  BY <1>3, <1>5 DEF ValidationDelta
<1> HIDE DEF gain, g
<1>7. QED BY <1>4, <1>6 DEF g

\* One iteration after which the search goes on keeps the caches.
LEMMA GoOnCaches ==
    ASSUME CInv, status = "searching", NEW offer \in BestOffers,
           ApplyToCurrent(offer.op), GoOn(offer.op)
    PROVE  /\ LocalScoresExact' /\ SlotsExact' /\ EntriesExact'
           /\ \A a \in ValidSlots :
                 CanHaveArc(network, a[1], a[2]) /\ SlotExact(a, network, delta) =>
                    \/ SlotExact(a, network', delta')
                    \/ /\ a[2] \in network.parents[a[1]]
                       /\ a[2] \notin network'.parents[a[1]]
                       /\ a[1] \notin network'.parents[a[2]]
<1> DEFINE op == offer.op
           g == Apply(op, network)
<1>1. /\ TypeOK /\ Allowed(network) /\ ChosenOp(op)
      /\ LocalScoresExact /\ SlotsExact /\ EntriesExact
  BY BestIsChosen DEF CInv, IInv
<1>2. Allowed(g)
  BY <1>1, ApplyAllowed DEF CInv, IInv
<1>3. PICK x \in OwnNodes, y \in OwnNodes : DifferIn(network, g, x, y) /\ NodesChanged(op) = {x, y}
  BY <1>1, Effect
<1>4. SameDiscrete(network, g)
  BY <1>1, Effect
<1>5. /\ network' = g /\ vlocalScore' = UpdateVLocalScores(g, {x, y})
      /\ problem' = problem /\ UpdateScores(g, {x, y})
  BY <1>3 DEF ApplyToCurrent, GoOn
<1> HIDE DEF g
<1>6. /\ localScore' = Exact(g)
      /\ \A n \in OwnNodes : vlocalScore'[n] = LocalScore(problem.val, g, n)
  BY <1>1, <1>3, <1>5, LocalScoresUpdated DEF UpdateScores
<1>7. delta' = [a \in ValidSlots |-> IF a \in Refreshed(g, {x, y})
                                     THEN SlotDelta(g, Exact(g), a[1], a[2]) ELSE delta[a]]
  BY <1>5, <1>6 DEF UpdateScores, UpdateArcScores
<1>8. UpdateTypeScores(g, Exact(g), {x, y})
  BY <1>5, <1>6 DEF UpdateScores
<1>9. /\ ValidSlots' = ValidSlots /\ TypeNodes' = TypeNodes /\ OwnNodes' = OwnNodes
      /\ (Aligned' <=> Aligned)
  BY <1>5 DEF ValidSlots, ValidOp, OwnNodes, TypeNodes, Aligned, Appended
<1>10. LocalScoresExact'
  BY <1>5, <1>6, <1>9 DEF LocalScoresExact, Exact, LocalScore
<1>11. \A a \in ValidSlots : CanHaveArc(network, a[1], a[2]) =>
          /\ SlotExact(a, network, delta)
             => \/ SlotExact(a, g, delta')
                \/ /\ a[2] \in network.parents[a[1]]
                   /\ a[2] \notin g.parents[a[1]] /\ a[1] \notin g.parents[a[2]]
          /\ Joined(g, a) /\ (Joined(network, a) => SlotExact(a, network, delta))
             => SlotExact(a, g, delta')
  BY <1>1, <1>2, <1>3, <1>4, <1>7, SlotsUpdated
<1>12. SlotsExact'
  <2> SUFFICES ASSUME NEW a \in ValidSlots, Joined(g, a), CanHaveArc(g, a[1], a[2])
               PROVE  SlotExact(a, g, delta')
    BY <1>5, <1>9 DEF SlotsExact, Joined, CanHaveArc, SlotExact, SlotDelta, ScoreWith, LocalScore
  <2>1. CanHaveArc(network, a[1], a[2])
    BY <1>4 DEF CanHaveArc, SameDiscrete, ValidSlots
  <2>2. Joined(network, a) => SlotExact(a, network, delta)
    BY <1>1, <2>1 DEF SlotsExact
  <2>3. QED BY <1>11, <2>1, <2>2
<1>13. EntriesExact'
  <2>1. Aligned => \A n \in TypeNodes :
           /\ CollapsedIndex[n] \in DOMAIN typeDelta' <=> Proposed(g, n)
           /\ Proposed(g, n) => typeDelta'[CollapsedIndex[n]] = TypeGain(g, Exact(g), n)
    BY <1>1, <1>3, <1>8, EntriesRewritten
  <2>2. \A n : TypeGain(network, Exact(network), n)' = TypeGain(g, Exact(g), n)
    BY <1>5, <1>9 DEF TypeGain, Exact, LocalScore
  <2>3. \A n : Proposed(network, n)' <=> Proposed(g, n)
    BY <1>5 DEF Proposed, ForbiddenTypes
  <2>4. QED BY <1>9, <2>1, <2>2, <2>3 DEF EntriesExact
<1>14. QED BY <1>5, <1>10, <1>11, <1>12, <1>13

\* Scores are compared under the same problem before and after a step.
LEMMA ValidationSame ==
    ASSUME UNCHANGED problem
    PROVE  /\ Validation(network)' = Validation(network')
           /\ Validation(snapshot)' = Validation(snapshot')
           /\ Validation(Best)' = Validation(Best')
           /\ \A g, n : (Proposed(g, n)' <=> Proposed(g, n))
BY DEF Validation, Total, OwnNodes, LocalScore, Best, Proposed, ForbiddenTypes

\* The numbers that an iteration compares.
LEMMA OfferNumbers ==
    ASSUME CInv, status = "searching", NEW offer \in BestOffers
    PROVE  /\ p \in Nat /\ offset \in Int /\ problem.patience \in Nat /\ problem.epsilon \in Nat
           /\ offer.delta \in Int /\ ValidationDelta(offer) \in Int
           /\ Gain(offer) = ValidationDelta(offer) + offset
           /\ ~problem.validated => ValidationDelta(offer) = offer.delta
           /\ \A g \in {network, snapshot, prevNetwork, Best, Apply(offer.op, network)} :
                 Validation(g) \in Int
<1>1. TypeOK /\ Allowed(network) /\ problem \in Problems /\ prevNetwork \in Networks
      /\ network \in Networks /\ snapshot \in Networks
  BY DEF CInv, IInv, TypeOK
<1>2. ChosenOp(offer.op) /\ offer.delta \in Int
  BY <1>1, BestIsChosen
<1>3. Apply(offer.op, network) \in Networks
  BY <1>1, <1>2, ApplyAllowed DEF CInv, IInv, Allowed
<1>4. ValidationDelta(offer) \in Int
  BY <1>1, <1>2, <1>3, GainTyped
<1>5. ~problem.validated => ValidationDelta(offer) = offer.delta
  BY DEF ValidationDelta
<1>6. Best \in Networks
  BY <1>1 DEF Best, TypeOK
<1>7. \A g \in {network, snapshot, prevNetwork, Best, Apply(offer.op, network)} :
         Validation(g) \in Int
  BY <1>1, <1>3, <1>6, TotalTyped
<1>8. QED BY <1>1, <1>2, <1>4, <1>5, <1>7, ProblemType DEF Gain, TypeOK

LEMMA ImproveKeeps ==
    ASSUME CInv, NEW offer \in BestOffers, Improve(offer)
    PROVE  BestKept'
<1>1. /\ status = "searching" /\ problem' = problem
      /\ IF p > 0 THEN bestRef' = "current" /\ p' = 0 /\ offset' = 0
                  ELSE UNCHANGED <<bestRef, p, offset>>
      /\ tabu' = IF ZeroPatience THEN tabu ELSE {}
  BY DEF Improve, GoOn
<1>2. BestKept /\ p \in Nat /\ problem.patience \in Nat
  BY <1>1, OfferNumbers DEF CInv
<1>3. p' = 0 /\ bestRef' = "current" /\ offset' = 0
  BY <1>1, <1>2 DEF BestKept
<1>4. tabu' = {}
  <2>1. ZeroPatience => p = 0
    BY <1>2 DEF ZeroPatience, BestKept
  <2>2. QED BY <1>1, <1>2, <2>1 DEF BestKept
<1>5. QED BY <1>1, <1>2, <1>3, <1>4 DEF BestKept

LEMMA TolerateKeeps ==
    ASSUME CInv, NEW offer \in BestOffers, Tolerate(offer)
    PROVE  BestKept'
<1> DEFINE d == ValidationDelta(offer)
           g == Apply(offer.op, network)
<1>1. /\ status = "searching" /\ problem' = problem /\ network' = g
      /\ offer.delta > problem.epsilon /\ Gain(offer) <= 0 /\ p + 1 <= problem.patience
      /\ KeepBest /\ p' = p + 1 /\ offset' = offset + d
  BY DEF Tolerate, GoOn, ApplyToCurrent
<1>2. /\ BestKept /\ prevNetwork = network
      /\ p \in Nat /\ offset \in Int /\ problem.patience \in Nat /\ problem.epsilon \in Nat
      /\ offer.delta \in Int /\ d \in Int /\ Gain(offer) = d + offset
      /\ ~problem.validated => d = offer.delta
  BY <1>1, OfferNumbers DEF CInv, IInv
<1>3. problem.validated
  <2>1. CASE p = 0
    <3>1. offset = 0 /\ d <= 0
      BY <1>1, <1>2, <2>1 DEF BestKept
    <3>2. QED BY <1>1, <1>2, <3>1
  <2>2. CASE p > 0
    BY <1>2, <2>2 DEF BestKept
  <2>3. QED BY <1>2, <2>1, <2>2
<1>4. /\ Validation(network) \in Int /\ Validation(g) \in Int
      /\ Validation(g) = Validation(network) + d
  BY <1>1, <1>3, GainIsDifference
<1>5. bestRef' = "snapshot" /\ Validation(network) = Validation(snapshot') + offset
      /\ Validation(snapshot') \in Int
  <2>1. CASE p = 0
    <3>1. bestRef' = "snapshot" /\ snapshot' = network /\ offset = 0
      BY <1>1, <1>2, <2>1 DEF KeepBest, BestKept
    <3>2. QED BY <1>4, <3>1
  <2>2. CASE p > 0
    <3>1. bestRef' = "snapshot" /\ snapshot' = snapshot
      BY <1>1, <1>2, <2>2 DEF KeepBest, BestKept
    <3>2. Validation(snapshot) \in Int
      BY <1>1, OfferNumbers
    <3>3. QED BY <1>2, <2>2, <3>1, <3>2 DEF BestKept
  <2>3. QED BY <1>2, <2>1, <2>2
<1>6. Validation(network)' = Validation(g) /\ Validation(snapshot)' = Validation(snapshot')
  BY <1>1, ValidationSame
<1> HIDE DEF d, g
<1>7. /\ Validation(network)' = Validation(snapshot)' + offset'
      /\ offset' <= 0 /\ p' <= problem'.patience /\ p' > 0
  BY <1>1, <1>2, <1>4, <1>5, <1>6
<1>8. QED BY <1>1, <1>2, <1>3, <1>5, <1>7 DEF BestKept

LEMMA NextCInv == CInv /\ [Next]_vars => CInv'
<1> SUFFICES ASSUME CInv, [Next]_vars PROVE CInv'
  OBVIOUS
<1>1. IInv'
  BY NextIInv DEF CInv
<1>2. CASE status' # "searching"
  BY <1>1, <1>2 DEF CInv
<1>3. ASSUME NEW offer \in BestOffers, Improve(offer)
      PROVE  CInv'
  <2>1. LocalScoresExact' /\ SlotsExact' /\ EntriesExact'
    BY <1>3, GoOnCaches DEF Improve
  <2>2. QED BY <1>1, <1>3, <2>1, ImproveKeeps DEF CInv
<1>4. ASSUME NEW offer \in BestOffers, Tolerate(offer)
      PROVE  CInv'
  <2>1. LocalScoresExact' /\ SlotsExact' /\ EntriesExact'
    BY <1>4, GoOnCaches DEF Tolerate
  <2>2. QED BY <1>1, <1>4, <2>1, TolerateKeeps DEF CInv
<1>5. CASE UNCHANGED vars
  <2>1. UNCHANGED <<problem, network, delta, typeDelta, localScore, prevNetwork,
                    bestRef, snapshot, p, offset, tabu, vlocalScore, status>>
    BY <1>5 DEF vars, searchVars
  <2>2. /\ LocalScoresExact' <=> LocalScoresExact
        /\ SlotsExact' <=> SlotsExact
    BY <2>1 DEF LocalScoresExact, LocalScore, SlotsExact, OwnNodes, ValidSlots, ValidOp,
                Joined, CanHaveArc, SlotExact, SlotDelta, ScoreWith
  <2>3. EntriesExact' <=> EntriesExact
    BY <2>1 DEF EntriesExact, Aligned, Appended, TypeNodes, OwnNodes, Proposed, ForbiddenTypes,
                TypeGain, Exact, LocalScore
  <2>4. BestKept' <=> BestKept
    BY <2>1, ValidationSame DEF BestKept
  <2>5. QED BY <1>1, <2>1, <2>2, <2>3, <2>4 DEF CInv
<1>6. Next => \/ status' # "searching"
              \/ \E offer \in BestOffers : Improve(offer) \/ Tolerate(offer)
  BY DEF Next, Iterate, OutOfIterations, NoOperator, MissingType, MissingEntry, Undefined, GiveUp
<1>7. QED BY <1>2, <1>3, <1>4, <1>5, <1>6

LEMMA CachesInvariance == Spec => []CInv
<1>1. Init => CInv
  BY InitCInv
<1>2. CInv /\ [Next]_vars => CInv'
  BY NextCInv
<1>3. QED BY <1>1, <1>2, PTL DEF Spec

-------------------------------------------------------------------------------
(* The theorems.                                                           *)

\* The state of estimate_hc keeps its types.
THEOREM SearchTyping == Spec => []TypeOK
<1>1. IInv => TypeOK
  BY DEF IInv
<1>2. QED BY <1>1, Invariance, PTL

\* The current model and the one estimate_hc returns are acyclic, have every
\* whitelisted arc, no blacklisted one and no new arc that the types forbid, give
\* no interface node a parent, and respect max_indegree, whatever the
\* score, the patience and the order of operators with equal deltas.
THEOREM SearchRestricted == Spec => []RestrictionsKept
<1>1. IInv => RestrictionsKept
  <2> SUFFICES ASSUME IInv PROVE RestrictionsKept
    OBVIOUS
  <2>1. Best \in {network, prevNetwork, snapshot}
    BY DEF Best, IInv, TypeOK
  <2>2. QED BY <2>1 DEF IInv, Allowed, ArcAllowed, TypesAllowed, RestrictionsKept
<1>2. QED BY <1>1, Invariance, PTL

\* Between two iterations the score caches are those of the current network, and
\* every delta that belongs to an arc of the network, or to the type of a node
\* found at its place, is the score difference its operator makes.
THEOREM SearchCaches == Spec => []CachesExact
<1>1. CInv => CachesExact
  <2> SUFFICES ASSUME CInv, status = "searching" PROVE CachesExact
    BY DEF CachesExact
  <2>1. /\ TypeOK /\ Allowed(network) /\ LocalScoresExact /\ SlotsExact /\ EntriesExact
    BY DEF CInv, IInv
  <2>2. ASSUME NEW a \in ValidSlots, Joined(network, a), CanHaveArc(network, a[1], a[2])
        PROVE  delta[a] = Score(Apply(SlotOperator(a[1], a[2]), network)) - Score(network)
    <3>1. delta[a] = SlotDelta(network, Exact(network), a[1], a[2])
      BY <2>1, <2>2 DEF SlotsExact, SlotExact, Exact
    <3>2. QED BY <2>1, <2>2, <3>1, SlotIsDifference
  <2>3. ASSUME Aligned
        PROVE  /\ Readable = {n \in TypeNodes : Proposed(network, n)}
               /\ \A n \in Readable : typeDelta[CollapsedIndex[n]] =
                     Score(Apply(TypeOperator(n), network)) - Score(network)
    <3>1. \A n \in TypeNodes :
             /\ CollapsedIndex[n] \in DOMAIN typeDelta <=> Proposed(network, n)
             /\ Proposed(network, n) =>
                   typeDelta[CollapsedIndex[n]] = TypeGain(network, Exact(network), n)
      BY <2>1, <2>3 DEF EntriesExact
    <3>2. Readable = {n \in TypeNodes : Proposed(network, n)}
      BY <3>1 DEF Readable
    <3>3. ASSUME NEW n \in Readable
          PROVE  typeDelta[CollapsedIndex[n]] =
                    Score(Apply(TypeOperator(n), network)) - Score(network)
      <4>1. n \in TypeNodes /\ Proposed(network, n)
        BY <3>2
      <4>2. QED BY <2>1, <3>1, <4>1, EntryIsDifference
    <3>4. QED BY <3>2, <3>3
  <2>4. QED BY <2>1, <2>2, <2>3 DEF CachesExact, LocalScoresExact, Joined
<1>2. QED BY <1>1, CachesInvariance, PTL

\* best_model is the current model until the search loses validation score; then it
\* is above the current model by what was lost since.
THEOREM SearchBestAccounted == Spec => []BestAccounted
<1>1. CInv => BestAccounted
  <2> SUFFICES ASSUME CInv, status = "searching" PROVE BestAccounted
    BY DEF BestAccounted
  <2>1. BestKept
    BY DEF CInv
  <2>2. QED BY <2>1 DEF BestKept, BestAccounted, Best
<1>2. QED BY <1>1, CachesInvariance, PTL

\* update_scores, given the nodes an operator reports, makes no delta wrong except
\* that of the arc opposite to one it has just removed.
THEOREM SearchStaleness == Spec => OnlyRemovalsGoStale
<1> DEFINE Stays == status' = "searching" =>
         \A a \in ValidSlots :
            /\ CanHaveArc(network, a[1], a[2])
            /\ SlotExact(a, network, delta) /\ ~SlotExact(a, network', delta')
            => /\ a[2] \in network.parents[a[1]]
               /\ a[2] \notin network'.parents[a[1]] /\ a[1] \notin network'.parents[a[2]]
<1>1. CInv /\ [Next]_vars => [Stays]_vars
  <2> SUFFICES ASSUME CInv, Next, status' = "searching" PROVE Stays
    OBVIOUS
  <2>1. PICK offer \in BestOffers : Improve(offer) \/ Tolerate(offer)
    BY DEF Next, Iterate, OutOfIterations, NoOperator, MissingType, MissingEntry, Undefined, GiveUp
  <2>2. status = "searching" /\ ApplyToCurrent(offer.op) /\ GoOn(offer.op)
    BY <2>1 DEF Improve, Tolerate
  <2>3. QED BY <2>2, GoOnCaches
<1>2. QED BY <1>1, CachesInvariance, PTL DEF Spec, OnlyRemovalsGoStale

\* With a validated score the model to be returned never gets worse, and no network
\* the search goes through is better.
THEOREM SearchBestNeverWorse == Spec => BestNeverWorse
<1> DEFINE NotWorse == problem.validated =>
         /\ Validation(Best)' >= Validation(Best)
         /\ Validation(Best)' >= Validation(network)'
<1>1. CInv /\ [Next]_vars => [NotWorse]_vars
  <2> SUFFICES ASSUME CInv, Next, problem.validated PROVE NotWorse
    OBVIOUS
  <2>1. status = "searching" /\ problem' = problem
    BY DEF Next, Iterate, OutOfIterations, NoOperator, MissingType, MissingEntry, Undefined,
           GiveUp, Improve, Tolerate, GoOn
  <2>2. /\ BestKept /\ prevNetwork = network /\ network \in Networks /\ snapshot \in Networks
        /\ p \in Nat /\ offset \in Int /\ problem.patience \in Nat /\ problem \in Problems
    BY <2>1, ProblemType DEF CInv, IInv, TypeOK
  <2>3. /\ Validation(network)' = Validation(network')
        /\ Validation(Best)' = Validation(Best')
    BY <2>1, ValidationSame
  <2>4. Validation(network) \in Int /\ Validation(snapshot) \in Int
    BY <2>2, TotalTyped
  <2>5. \/ p = 0 /\ Best = network /\ offset = 0
        \/ p > 0 /\ Best = snapshot /\ Validation(network) = Validation(snapshot) + offset
             /\ offset <= 0
    BY <2>2 DEF BestKept, Best
  <2>6. CASE UNCHANGED <<network, prevNetwork, snapshot, bestRef>>
    <3>1. Best' = Best
      BY <2>6 DEF Best
    <3>2. /\ Validation(Best)' = Validation(Best)
          /\ Validation(network)' = Validation(network)
      BY <2>3, <2>6, <3>1
    <3>3. Validation(Best) \in Int /\ Validation(Best) >= Validation(network)
      BY <2>2, <2>4, <2>5
    <3>4. QED BY <3>2, <3>3
  <2>7. ASSUME NEW offer \in BestOffers, Improve(offer) \/ Tolerate(offer) \/ GiveUp(offer)
        PROVE  NotWorse
    <3> DEFINE d == ValidationDelta(offer)
               g == Apply(offer.op, network)
    <3>1. network' = g /\ Gain(offer) = d + offset /\ d \in Int
      BY <2>1, <2>7, OfferNumbers DEF CInv, Improve, Tolerate, GiveUp, ApplyToCurrent
    <3>2. Validation(g) = Validation(network) + d /\ Validation(g) \in Int
      BY <2>1, GainIsDifference
    <3> HIDE DEF d, g
    <3>3. CASE Improve(offer)
      <4>1. Gain(offer) > 0 /\ Best' = network'
        <5>1. Gain(offer) > 0 /\ (p > 0 => bestRef' = "current") /\ (~(p > 0) => bestRef' = bestRef)
          BY <3>3 DEF Improve
        <5>2. bestRef' = "current"
          BY <2>2, <5>1 DEF BestKept
        <5>3. QED BY <5>1, <5>2 DEF Best
      <4>2. QED BY <2>2, <2>3, <2>4, <2>5, <3>1, <3>2, <4>1
    <3>4. CASE Tolerate(offer) \/ GiveUp(offer)
      <4>1. Gain(offer) <= 0
        BY <3>4 DEF Tolerate, GiveUp
      <4>2. Best' = Best
        <5>1. CASE KeepBest /\ p = 0
          <6>1. bestRef' = "snapshot" /\ snapshot' = network
            BY <2>2, <5>1 DEF KeepBest
          <6>2. Best' = snapshot'
            BY <6>1 DEF Best
          <6>3. QED BY <2>2, <2>5, <5>1, <6>1, <6>2
        <5>2. CASE KeepBest /\ p > 0
          BY <2>2, <2>5, <5>2 DEF KeepBest, Best, BestKept
        <5>3. CASE ZeroPatience /\ GiveUp(offer)
          <6>1. bestRef' = "prev" /\ prevNetwork' = prevNetwork
            BY <5>3 DEF GiveUp
          <6>2. p = 0
            BY <2>2, <5>3 DEF ZeroPatience, BestKept
          <6>3. Best' = prevNetwork'
            BY <6>1 DEF Best
          <6>4. QED BY <2>2, <2>5, <6>1, <6>2, <6>3
        <5>4. KeepBest \/ (ZeroPatience /\ GiveUp(offer))
          BY <3>4 DEF Tolerate, GiveUp
        <5>5. QED BY <2>2, <5>1, <5>2, <5>3, <5>4
      <4>3. QED BY <2>2, <2>3, <2>4, <2>5, <3>1, <3>2, <4>1, <4>2
    <3>5. QED BY <2>7, <3>3, <3>4
  <2>8. QED
    BY <2>6, <2>7 DEF Next, Iterate, OutOfIterations, NoOperator, MissingType, MissingEntry, Undefined
<1>2. QED BY <1>1, CachesInvariance, PTL DEF Spec, BestNeverWorse

===============================================================================
