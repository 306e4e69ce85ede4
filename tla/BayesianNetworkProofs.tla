------------------------- MODULE BayesianNetworkProofs -------------------------
(***************************************************************************)
(* Theorems about BayesianNetwork for every set of names, every number of  *)
(* slots and all inputs.  The graph of the network is that of Dag, and its *)
(* invariant is the one DagProofs shows inductive; a copy through pickle   *)
(* builds the graph anew and has to establish it.  The types and CPDs      *)
(* follow the slots: IInv says what each slot may hold.                    *)
(***************************************************************************)
EXTENDS BayesianNetwork, FiniteSetTheorems, TLAPS

Graph == INSTANCE DagProofs

\* The invariant of the graph in the words of this module and in those of DagProofs.
LEMMA GraphInvariant ==
    /\ G!TypeOK /\ GraphSound <=> Graph!IInv
    /\ (G!TypeOK /\ GraphSound)' <=> Graph!IInv'
BY DEF GraphSound, Graph!IInv,
       G!TypeOK, G!IndexMapsAgree, G!FreeSlotsExact, G!AdjacencyAgrees, G!RootsLeavesExact,
       G!ArcsAcyclic, G!Live, G!Idx, G!Acyclic,
       Graph!TypeOK, Graph!IndexMapsAgree, Graph!FreeSlotsExact, Graph!AdjacencyAgrees,
       Graph!RootsLeavesExact, Graph!ArcsAcyclic, Graph!Live, Graph!Idx, Graph!Acyclic

-------------------------------------------------------------------------------
(* The graph of a constructor.                                             *)

\* The parents and children that a set of arcs gives to a node.
LEMMA ArcEnds ==
    ASSUME NEW L, NEW as \in SUBSET (L \X L), NEW i
    PROVE  /\ Into(i, as) \subseteq L /\ OutOf(i, as) \subseteq L
           /\ \A j : (j \in Into(i, as) <=> <<j, i>> \in as)
                    /\ (j \in OutOf(i, as) <=> <<i, j>> \in as)
           /\ i \notin L => Into(i, as) = {} /\ OutOf(i, as) = {}
<1>1. ASSUME NEW a \in as PROVE a[1] \in L /\ a[2] \in L /\ a = <<a[1], a[2]>>
  <2>1. a \in L \X L
    OBVIOUS
  <2>2. QED BY <2>1
<1>2. \A j : (j \in Into(i, as) <=> <<j, i>> \in as)
           /\ (j \in OutOf(i, as) <=> <<i, j>> \in as)
  BY <1>1 DEF Into, OutOf
<1>3. Into(i, as) \subseteq L /\ OutOf(i, as) \subseteq L
  BY <1>1 DEF Into, OutOf
<1>4. i \notin L => Into(i, as) = {} /\ OutOf(i, as) = {}
  BY <1>1 DEF Into, OutOf
<1>5. QED BY <1>2, <1>3, <1>4

\* The arcs among the first n slots have no cycle among all slots.
LEMMA ArcSetsAcyclic ==
    ASSUME NEW n \in 0 .. MaxRaw, NEW as \in ArcSets(n)
    PROVE  G!Acyclic(G!Idx, [i \in G!Idx |-> OutOf(i, as)])
<1> DEFINE L == 0 .. n - 1
<1>1. as \subseteq L \X L /\ G!Acyclic(L, [i \in L |-> OutOf(i, as)])
  BY DEF ArcSets
<1>2. L \subseteq G!Idx
  BY GraphAssumption DEF G!Idx
<1>3. \A i \in G!Idx : OutOf(i, as) \subseteq L /\ (i \notin L => OutOf(i, as) = {})
  BY <1>1, ArcEnds
<1> SUFFICES ASSUME NEW S \in SUBSET G!Idx, S # {}
             PROVE  \E i \in S : [j \in G!Idx |-> OutOf(j, as)][i] \cap S = {}
  BY DEF G!Acyclic
<1>4. CASE S \cap L = {}
  BY <1>3, <1>4
<1>5. CASE S \cap L # {}
  <2>1. PICK i \in S \cap L : [j \in L |-> OutOf(j, as)][i] \cap (S \cap L) = {}
    BY <1>1, <1>5 DEF G!Acyclic
  <2>2. QED BY <1>3, <2>1
<1>6. QED BY <1>4, <1>5

\* A list of different names, and arcs among them without a cycle.
Buildable(ns, as) ==
    /\ ns \in Seq(Names) /\ Len(ns) <= MaxRaw
    /\ \A j, k \in DOMAIN ns : ns[j] = ns[k] => j = k
    /\ as \in ArcSets(Len(ns))

\* The graph of the network is the one built from these names and arcs.
IsGraphOf(ns, as) ==
    LET g == GraphOf(ns, as)
    IN  /\ numRaw = g.numRaw /\ name = g.name
        /\ parents = g.parents /\ children = g.children
        /\ indices = g.indices /\ strings = g.strings /\ collapsed = g.indices
        /\ freeIndices = <<>>
        /\ arcs = as /\ roots = g.roots /\ leaves = g.leaves

Built == \E ns, as : Buildable(ns, as) /\ IsGraphOf(ns, as)

\* A graph that has just been built satisfies the invariant of the graph.
LEMMA BuiltSound == Built => G!TypeOK /\ GraphSound
<1> SUFFICES ASSUME NEW ns, NEW as, Buildable(ns, as), IsGraphOf(ns, as)
             PROVE  G!TypeOK /\ GraphSound
  BY DEF Built
<1> DEFINE n == Len(ns)
           L == 0 .. n - 1
<1>1. /\ ns \in Seq(Names) /\ n \in 0 .. MaxRaw /\ DOMAIN ns = 1 .. n
      /\ \A j, k \in 1 .. n : ns[j] = ns[k] => j = k
      /\ \A k \in 1 .. n : ns[k] \in Names
  BY GraphAssumption DEF Buildable
<1>2. as \in SUBSET (L \X L) /\ as \in ArcSets(n)
  BY DEF Buildable, ArcSets
<1>3. /\ numRaw = n /\ strings = ns /\ collapsed = indices /\ freeIndices = <<>> /\ arcs = as
      /\ name = [i \in G!Idx |-> IF i < n THEN ns[i + 1] ELSE NoName]
  BY DEF IsGraphOf, GraphOf
<1>4. /\ parents = [i \in G!Idx |-> Into(i, as)]
      /\ children = [i \in G!Idx |-> OutOf(i, as)]
  BY DEF IsGraphOf, GraphOf
<1>5. indices = [m \in {ns[k] : k \in 1 .. n} |-> CHOOSE i \in L : ns[i + 1] = m]
  BY DEF IsGraphOf, GraphOf
<1>6. roots = {i \in L : Into(i, as) = {}} /\ leaves = {i \in L : OutOf(i, as) = {}}
  BY DEF IsGraphOf, GraphOf
<1>a. roots \subseteq L /\ leaves \subseteq L
  BY <1>6
<1> HIDE DEF n
<1>7. /\ L \subseteq G!Idx /\ G!Live = L
      /\ \A i \in L : name[i] = ns[i + 1] /\ i + 1 \in 1 .. n
      /\ \A k \in 1 .. n : k - 1 \in L /\ (k - 1) + 1 = k
  BY <1>1, <1>3, GraphAssumption DEF G!Live, G!Idx
<1>8. \A i \in G!Idx : /\ parents[i] = Into(i, as) /\ children[i] = OutOf(i, as)
                       /\ parents[i] \subseteq L /\ children[i] \subseteq L
  <2> SUFFICES ASSUME NEW i \in G!Idx
               PROVE  /\ parents[i] = Into(i, as) /\ children[i] = OutOf(i, as)
                      /\ parents[i] \subseteq L /\ children[i] \subseteq L
    OBVIOUS
  <2>1. parents[i] = Into(i, as) /\ children[i] = OutOf(i, as)
    BY <1>4
  <2>2. Into(i, as) \subseteq L /\ OutOf(i, as) \subseteq L
    BY <1>2, ArcEnds
  <2>3. QED BY <2>1, <2>2
<1>9. /\ DOMAIN indices = {ns[k] : k \in 1 .. n}
      /\ \A m \in DOMAIN indices : indices[m] \in L /\ ns[indices[m] + 1] = m
  <2>1. DOMAIN indices = {ns[k] : k \in 1 .. n}
    BY <1>5
  <2>2. ASSUME NEW m \in DOMAIN indices
        PROVE  indices[m] \in L /\ ns[indices[m] + 1] = m
    <3>1. PICK k \in 1 .. n : ns[k] = m
      BY <2>1
    <3>2. \E i \in L : ns[i + 1] = m
      BY <1>7, <3>1
    <3>3. indices[m] = CHOOSE i \in L : ns[i + 1] = m
      BY <1>5, <2>1
    <3>4. QED BY <3>2, <3>3
  <2>3. QED BY <2>1, <2>2
<1>10. \A i \in L : ns[i + 1] \in DOMAIN indices /\ indices[ns[i + 1]] = i
  BY <1>1, <1>7, <1>9
<1>11. G!TypeOK
  <2>1. name \in [G!Idx -> Names \cup {NoName}]
    BY <1>1, <1>3 DEF G!Idx
  <2>2. parents \in [G!Idx -> SUBSET G!Idx] /\ children \in [G!Idx -> SUBSET G!Idx]
    BY <1>4, <1>7, <1>8
  <2>3. DOMAIN indices \subseteq Names
    BY <1>1, <1>9
  <2>4. L \subseteq Nat /\ roots \subseteq G!Idx /\ leaves \subseteq G!Idx
    BY <1>1, <1>a, <1>7
  <2>5. arcs \subseteq G!Idx \X G!Idx
    <3>1. L \X L \subseteq G!Idx \X G!Idx
      BY <1>7
    <3>2. QED BY <1>2, <1>3, <3>1
  <2>6. freeIndices \in Seq(G!Idx)
    BY <1>3
  <2>7. /\ \A m \in DOMAIN indices : indices[m] \in G!Idx
        /\ DOMAIN collapsed \subseteq Names
        /\ \A m \in DOMAIN collapsed : collapsed[m] \in Nat
    BY <1>3, <1>7, <1>9, <2>3, <2>4
  <2>8. QED BY <1>1, <1>3, <2>1, <2>2, <2>3, <2>4, <2>5, <2>6, <2>7 DEF G!TypeOK
<1>12. G!IndexMapsAgree
  <2>1. \A i \in G!Live : name[i] \in DOMAIN indices /\ indices[name[i]] = i
    BY <1>7, <1>10
  <2>2. \A m \in DOMAIN indices : name[indices[m]] = m
    BY <1>7, <1>9
  <2>3. \A m \in DOMAIN collapsed : /\ collapsed[m] \in 0 .. Len(strings) - 1
                                    /\ strings[collapsed[m] + 1] = m
    BY <1>3, <1>9 DEF n
  <2>4. \A k \in 1 .. Len(strings) :
           strings[k] \in DOMAIN collapsed /\ collapsed[strings[k]] = k - 1
    BY <1>3, <1>7, <1>10 DEF n
  <2>5. QED BY <1>3, <2>1, <2>2, <2>3, <2>4 DEF G!IndexMapsAgree
<1>13. G!FreeSlotsExact
  BY <1>1, <1>3, <1>7 DEF G!FreeSlotsExact, G!Idx
<1>14. G!AdjacencyAgrees
  <2>1. ASSUME NEW s \in G!Idx, NEW t \in G!Idx
        PROVE  /\ s \in parents[t] <=> <<s, t>> \in arcs
               /\ t \in children[s] <=> <<s, t>> \in arcs
    <3>1. s \in Into(t, as) <=> <<s, t>> \in as
      BY <1>2, ArcEnds
    <3>2. t \in OutOf(s, as) <=> <<s, t>> \in as
      BY <1>2, ArcEnds
    <3>3. QED BY <1>3, <1>8, <3>1, <3>2
  <2>2. ASSUME NEW a \in arcs PROVE a[1] \in G!Live /\ a[2] \in G!Live
    <3>1. a \in L \X L
      BY <1>2, <1>3
    <3>2. QED BY <1>7, <3>1
  <2>3. QED BY <2>1, <2>2 DEF G!AdjacencyAgrees
<1>15. G!RootsLeavesExact
  <2>1. \A i \in G!Live : /\ i \in roots <=> parents[i] = {}
                          /\ i \in leaves <=> children[i] = {}
    BY <1>6, <1>7, <1>8
  <2>2. \A i \in roots \cup leaves : i < numRaw
    BY <1>1, <1>3, <1>a
  <2>3. QED BY <2>1, <2>2 DEF G!RootsLeavesExact
<1>16. G!ArcsAcyclic
  BY <1>1, <1>2, <1>4, ArcSetsAcyclic DEF G!ArcsAcyclic
<1>17. QED BY <1>11, <1>12, <1>13, <1>14, <1>15, <1>16 DEF GraphSound

-------------------------------------------------------------------------------
(* The order of the nodes in a copy.                                       *)

\* The number of smaller members numbers a finite set of naturals from 0 on.
LEMMA Ranks ==
    ASSUME NEW S \in SUBSET Nat, IsFiniteSet(S)
    PROVE  /\ Cardinality(S) \in Nat
           /\ \A i \in S : Cardinality({j \in S : j < i}) \in 0 .. Cardinality(S) - 1
           /\ \A i, k \in S :
                 Cardinality({j \in S : j < i}) = Cardinality({j \in S : j < k}) => i = k
           /\ \A r \in 0 .. Cardinality(S) - 1 :
                 \E i \in S : Cardinality({j \in S : j < i}) = r
<1> DEFINE below(i) == {j \in S : j < i}
           rank == [i \in S |-> Cardinality(below(i))]
           c == Cardinality(S)
<1>1. c \in Nat /\ \A i \in S : IsFiniteSet(below(i)) /\ Cardinality(below(i)) \in Nat
  <2>1. \A i \in S : below(i) \in SUBSET S
    OBVIOUS
  <2>2. QED BY <2>1, FS_Subset, FS_CardinalityType
<1>2. ASSUME NEW i \in S, NEW T \in SUBSET S, below(i) \cup {i} \subseteq T
      PROVE  Cardinality(below(i)) + 1 <= Cardinality(T)
  <2>1. i \notin below(i)
    OBVIOUS
  <2>2. /\ IsFiniteSet(below(i) \cup {i})
        /\ Cardinality(below(i) \cup {i}) = Cardinality(below(i)) + 1
    BY <1>1, <2>1, FS_AddElement
  <2>3. IsFiniteSet(T) /\ Cardinality(below(i) \cup {i}) <= Cardinality(T)
    BY <1>2, FS_Subset
  <2>4. QED BY <2>2, <2>3
<1>3. \A i \in S : Cardinality(below(i)) \in 0 .. c - 1
  <2> SUFFICES ASSUME NEW i \in S PROVE Cardinality(below(i)) \in 0 .. c - 1
    OBVIOUS
  <2>1. Cardinality(below(i)) + 1 <= c
    BY <1>2
  <2>2. QED BY <1>1, <2>1
<1>4. ASSUME NEW i \in S, NEW k \in S, i < k
      PROVE  Cardinality(below(i)) < Cardinality(below(k))
  <2>1. below(k) \in SUBSET S /\ below(i) \cup {i} \subseteq below(k)
    <3>1. i \in Nat /\ k \in Nat /\ \A j \in S : j \in Nat
      OBVIOUS
    <3>2. \A j \in S : j < i => j < k
      BY <1>4, <3>1
    <3>3. QED BY <1>4, <3>2
  <2>2. Cardinality(below(i)) + 1 <= Cardinality(below(k))
    BY <1>2, <2>1
  <2> HIDE DEF below
  <2>3. QED BY <1>1, <2>2
<1>5. \A i, k \in S : Cardinality(below(i)) = Cardinality(below(k)) => i = k
  <2> SUFFICES ASSUME NEW i \in S, NEW k \in S,
                      Cardinality(below(i)) = Cardinality(below(k)), i # k
               PROVE  FALSE
    OBVIOUS
  <2>1. i < k \/ k < i
    OBVIOUS
  <2> HIDE DEF below
  <2>2. QED BY <1>1, <1>4, <2>1
<1>6. \A r \in 0 .. c - 1 : \E i \in S : Cardinality(below(i)) = r
  <2> HIDE DEF below, c
  <2>1. rank \in Injection(S, 0 .. c - 1)
    BY <1>3, <1>5 DEF Injection, IsInjective
  <2>2. IsFiniteSet(0 .. c - 1) /\ Cardinality(0 .. c - 1) = c
    BY <1>1, FS_Interval
  <2>3. rank \in Surjection(S, 0 .. c - 1)
    BY <2>1, <2>2, FS_Injection DEF c
  <2>4. QED BY <2>3 DEF Surjection
<1>7. QED BY <1>1, <1>3, <1>5, <1>6

\* NodeOrder lists the nodes, and NewIndexOf is the place of a node in it.
LEMMA OrderOfNodes ==
    ASSUME G!TypeOK
    PROVE  /\ Cardinality(G!Live) \in 0 .. MaxRaw
           /\ NodeOrder \in [1 .. Cardinality(G!Live) -> G!Live]
           /\ \A k \in 1 .. Cardinality(G!Live) : NewIndexOf(NodeOrder[k]) = k - 1
           /\ \A i \in G!Live : /\ NewIndexOf(i) \in 0 .. Cardinality(G!Live) - 1
                               /\ NodeOrder[NewIndexOf(i) + 1] = i
<1> DEFINE c == Cardinality(G!Live)
<1>1. G!Live \in SUBSET G!Idx /\ G!Idx \subseteq Nat
  BY GraphAssumption DEF G!Live, G!Idx
<1>2. IsFiniteSet(G!Idx) /\ Cardinality(G!Idx) = MaxRaw
  BY GraphAssumption, FS_Interval DEF G!Idx
<1>3. IsFiniteSet(G!Live) /\ c \in 0 .. MaxRaw
  <2>1. IsFiniteSet(G!Live) /\ c <= MaxRaw
    BY <1>1, <1>2, FS_Subset
  <2>2. c \in Nat
    BY <2>1, FS_CardinalityType
  <2>3. QED BY <2>1, <2>2, GraphAssumption
<1>4. /\ \A i \in G!Live : NewIndexOf(i) \in 0 .. c - 1
      /\ \A i, k \in G!Live : NewIndexOf(i) = NewIndexOf(k) => i = k
      /\ \A r \in 0 .. c - 1 : \E i \in G!Live : NewIndexOf(i) = r
  BY <1>1, <1>3, Ranks DEF NewIndexOf, Preceding
<1>5. NodeOrder = [k \in 1 .. c |-> CHOOSE i \in G!Live : NewIndexOf(i) = k - 1]
  BY DEF NodeOrder, NewIndexOf
<1> HIDE DEF c
<1>6. \A k \in 1 .. c : NodeOrder[k] \in G!Live /\ NewIndexOf(NodeOrder[k]) = k - 1
  <2> SUFFICES ASSUME NEW k \in 1 .. c
               PROVE  NodeOrder[k] \in G!Live /\ NewIndexOf(NodeOrder[k]) = k - 1
    OBVIOUS
  <2>1. k - 1 \in 0 .. c - 1
    BY <1>3
  <2>2. \E i \in G!Live : NewIndexOf(i) = k - 1
    BY <1>4, <2>1
  <2>3. NodeOrder[k] = CHOOSE i \in G!Live : NewIndexOf(i) = k - 1
    BY <1>5
  <2>4. QED BY <2>2, <2>3
<1>7. NodeOrder \in [1 .. c -> G!Live]
  BY <1>5, <1>6
<1>8. ASSUME NEW i \in G!Live PROVE NodeOrder[NewIndexOf(i) + 1] = i
  <2>1. NewIndexOf(i) + 1 \in 1 .. c /\ (NewIndexOf(i) + 1) - 1 = NewIndexOf(i)
    BY <1>3, <1>4
  <2>2. QED BY <1>4, <1>6, <2>1
<1>9. QED BY <1>3, <1>4, <1>6, <1>7, <1>8 DEF c

BuiltNext == Built' => (G!TypeOK /\ GraphSound)'

LEMMA BuiltSoundNext == BuiltNext
BY BuiltSound, PTL DEF BuiltNext

\* The names of the copy and its arcs.
CopyNames == [k \in DOMAIN NodeOrder |-> name[NodeOrder[k]]]
CopyArcs == {<<NewIndexOf(a[1]), NewIndexOf(a[2])>> : a \in arcs}

\* The nodes of a copy can be given to a constructor: their names differ, and the
\* arcs have no cycle after the change of the indices.
LEMMA CopyBuildable ==
    ASSUME G!TypeOK, GraphSound
    PROVE  Buildable(CopyNames, CopyArcs) /\ Len(CopyNames) = Cardinality(G!Live)
<1> DEFINE c == Cardinality(G!Live)
           L == 0 .. c - 1
<1>1. /\ c \in 0 .. MaxRaw /\ NodeOrder \in [1 .. c -> G!Live]
      /\ \A k \in 1 .. c : NewIndexOf(NodeOrder[k]) = k - 1
      /\ \A i \in G!Live : NewIndexOf(i) \in L /\ NodeOrder[NewIndexOf(i) + 1] = i
  BY OrderOfNodes
<1> HIDE DEF c
<1>2. \A i \in G!Live : name[i] \in Names /\ i \in G!Idx
  BY DEF G!Live, G!TypeOK
<1>3. \A i, j \in G!Live : name[i] = name[j] => i = j
  BY DEF GraphSound, G!IndexMapsAgree
<1>4. /\ CopyNames \in [1 .. c -> Names]
      /\ \A k \in 1 .. c : CopyNames[k] = name[NodeOrder[k]]
  BY <1>1, <1>2 DEF CopyNames
<1>5. CopyNames \in Seq(Names) /\ Len(CopyNames) = c /\ DOMAIN CopyNames = 1 .. c
  BY <1>1, <1>4
<1>6. ASSUME NEW j \in DOMAIN CopyNames, NEW k \in DOMAIN CopyNames,
             CopyNames[j] = CopyNames[k]
      PROVE  j = k
  <2>1. j \in 1 .. c /\ k \in 1 .. c
    BY <1>5
  <2>2. NodeOrder[j] = NodeOrder[k]
    <3>1. NodeOrder[j] \in G!Live /\ NodeOrder[k] \in G!Live
      BY <1>1, <2>1
    <3>2. name[NodeOrder[j]] = name[NodeOrder[k]]
      BY <1>4, <1>6, <2>1
    <3>3. QED BY <1>3, <3>1, <3>2
  <2>3. j - 1 = k - 1
    BY <1>1, <2>1, <2>2
  <2>4. QED BY <2>1, <2>3
<1>7. \A a \in arcs : /\ a[1] \in G!Live /\ a[2] \in G!Live
                      /\ a = <<a[1], a[2]>> /\ a[2] \in children[a[1]]
  BY <1>2 DEF GraphSound, G!AdjacencyAgrees, G!TypeOK
<1>8. ASSUME NEW b \in CopyArcs
      PROVE  \E a \in arcs : b[1] = NewIndexOf(a[1]) /\ b[2] = NewIndexOf(a[2]) /\ b \in L \X L
  <2>1. PICK a \in arcs : b = <<NewIndexOf(a[1]), NewIndexOf(a[2])>>
    BY DEF CopyArcs
  <2>2. NewIndexOf(a[1]) \in L /\ NewIndexOf(a[2]) \in L
    BY <1>1, <1>7
  <2>3. QED BY <2>1, <2>2
<1>9. CopyArcs \in SUBSET (L \X L)
  BY <1>8
<1>10. ASSUME NEW S \in SUBSET L, S # {}
       PROVE  \E i \in S : OutOf(i, CopyArcs) \cap S = {}
  <2> DEFINE S0 == {NodeOrder[r + 1] : r \in S}
  <2>1. \A r \in S : /\ NodeOrder[r + 1] \in G!Live /\ NodeOrder[r + 1] \in G!Idx
                     /\ NewIndexOf(NodeOrder[r + 1]) = r
    <3>1. \A r \in L : r + 1 \in 1 .. c /\ (r + 1) - 1 = r
      BY <1>1
    <3>2. QED BY <1>1, <1>2, <3>1
  <2>2. S0 \in SUBSET G!Idx /\ S0 # {}
    BY <1>10, <2>1
  <2>3. PICK i \in S0 : children[i] \cap S0 = {}
    BY <2>2 DEF GraphSound, G!ArcsAcyclic, G!Acyclic
  <2>4. i \in G!Live /\ NewIndexOf(i) \in S
    BY <2>1
  <2>5. ASSUME NEW t \in S, t \in OutOf(NewIndexOf(i), CopyArcs) PROVE FALSE
    <3>1. PICK b \in CopyArcs : b[1] = NewIndexOf(i) /\ b[2] = t
      BY <2>5 DEF OutOf
    <3>2. PICK a \in arcs : b[1] = NewIndexOf(a[1]) /\ b[2] = NewIndexOf(a[2])
      BY <1>8
    <3>3. a[1] = i
      BY <1>1, <1>7, <2>4, <3>1, <3>2
    <3>4. a[2] = NodeOrder[t + 1]
      BY <1>1, <1>7, <3>1, <3>2
    <3>5. QED BY <1>7, <2>3, <3>3, <3>4
  <2>6. QED BY <2>4, <2>5
<1>11. CopyArcs \in ArcSets(c)
  BY <1>9, <1>10 DEF ArcSets, G!Acyclic
<1>12. QED BY <1>1, <1>5, <1>6, <1>11 DEF Buildable, c

-------------------------------------------------------------------------------
(* The invariant.                                                          *)

\* The types and CPDs of all slots, as far as their values go.
Vectors ==
    /\ nodeTypes \in [1 .. numRaw -> FactorTypes \cup {Unknown}]
    /\ cpds = <<>> \/ cpds \in [1 .. numRaw -> Cpds \cup {NoCpd}]

IInv == TypeOK /\ GraphSound /\ CpdsBelong

\* The vectors reach the slot of each node.
LEMMA NodeSlots ==
    ASSUME G!TypeOK, GraphSound
    PROVE  /\ numRaw \in Nat
           /\ \A i \in G!Live : /\ i \in 0 .. numRaw - 1 /\ i + 1 \in 1 .. numRaw
                               /\ i \in G!Idx /\ name[i] \in Names
                               /\ ParentNames(i) \subseteq Names
                               /\ parents[i] \subseteq G!Live
<1>1. numRaw \in Nat /\ \A i \in G!Idx : i \in Nat
  BY GraphAssumption DEF G!TypeOK, G!Idx
<1>2. \A i \in G!Live : i < numRaw
  BY DEF GraphSound, G!FreeSlotsExact, G!Live
<1>3. \A i \in G!Live : i \in G!Idx /\ name[i] \in Names
  BY DEF G!Live, G!TypeOK
<1>4. ASSUME NEW i \in G!Live PROVE parents[i] \subseteq G!Live
  <2> SUFFICES ASSUME NEW p \in parents[i] PROVE p \in G!Live
    OBVIOUS
  <2>1. p \in G!Idx
    BY <1>3 DEF G!TypeOK
  <2>2. <<p, i>> \in arcs
    BY <1>3, <2>1 DEF GraphSound, G!AdjacencyAgrees
  <2>3. QED BY <2>2 DEF GraphSound, G!AdjacencyAgrees
<1>5. \A i \in G!Live : ParentNames(i) \subseteq Names
  BY <1>3, <1>4 DEF ParentNames
<1>6. QED BY <1>1, <1>2, <1>3, <1>4, <1>5

\* A vector of CPDs that is not empty is looked up slot by slot.
LEMMA SlotCpd ==
    ASSUME NEW n \in Nat, NEW S, NEW v \in [1 .. n -> S], NEW i \in 0 .. n - 1
    PROVE  v # <<>> /\ v[i + 1] \in S /\ i + 1 \in 1 .. n
<1>1. i + 1 \in 1 .. n /\ DOMAIN v = 1 .. n
  OBVIOUS
<1>2. DOMAIN <<>> = {}
  OBVIOUS
<1>3. QED BY <1>1, <1>2

\* Allocated has the CPD of each slot.
LEMMA AllocatedCpds ==
    ASSUME numRaw \in Nat, Vectors
    PROVE  /\ Allocated \in [1 .. numRaw -> Cpds \cup {NoCpd}]
           /\ DOMAIN Allocated = 1 .. numRaw
           /\ \A i \in 0 .. numRaw - 1 : /\ Allocated[i + 1] = Cpd(i) /\ i + 1 \in 1 .. numRaw
                                        /\ Cpd(i) \in Cpds \cup {NoCpd}
                                        /\ Type(i) \in FactorTypes \cup {Unknown}
<1>1. Allocated \in [1 .. numRaw -> Cpds \cup {NoCpd}]
  BY DEF Vectors, Allocated
<1>2. \A i \in 0 .. numRaw - 1 : i + 1 \in 1 .. numRaw
  OBVIOUS
<1>3. \A i \in 0 .. numRaw - 1 : Allocated[i + 1] = Cpd(i)
  BY <1>2 DEF Allocated, Cpd
<1>4. \A i \in 0 .. numRaw - 1 : Type(i) \in FactorTypes \cup {Unknown}
  BY <1>2 DEF Vectors, Type
<1>5. QED BY <1>1, <1>2, <1>3, <1>4

\* What Retyped and DropOthers do to a slot.
LEMMA Retyping ==
    ASSUME numRaw \in Nat, Vectors, NEW given,
           \A i \in DOMAIN given : given[i] \in FactorTypes \cup {Unknown},
           NEW cs \in [1 .. numRaw -> Cpds \cup {NoCpd}]
    PROVE  /\ Retyped(given) \in [1 .. numRaw -> FactorTypes \cup {Unknown}]
           /\ \A i \in 0 .. numRaw - 1 :
                 Retyped(given)[i + 1] = IF i \in DOMAIN given THEN given[i] ELSE Type(i)
           /\ DropOthers(cs, given) \in [1 .. numRaw -> Cpds \cup {NoCpd}]
           /\ \A i \in 0 .. numRaw - 1 :
                 DropOthers(cs, given)[i + 1] =
                    IF i \in DOMAIN given /\ cs[i + 1] # NoCpd /\ cs[i + 1].type # given[i]
                    THEN NoCpd ELSE cs[i + 1]
<1>1. DOMAIN nodeTypes = 1 .. numRaw /\ DOMAIN cs = 1 .. numRaw
  BY DEF Vectors
<1>2. \A i \in 0 .. numRaw - 1 : i + 1 \in 1 .. numRaw /\ (i + 1) - 1 = i
  OBVIOUS
<1>3. Retyped(given) \in [1 .. numRaw -> FactorTypes \cup {Unknown}]
  BY <1>1 DEF Vectors, Retyped
<1>4. ASSUME NEW i \in 0 .. numRaw - 1
      PROVE  Retyped(given)[i + 1] = IF i \in DOMAIN given THEN given[i] ELSE Type(i)
  BY <1>1, <1>2 DEF Retyped, Type
<1>5. DropOthers(cs, given) \in [1 .. numRaw -> Cpds \cup {NoCpd}]
  BY <1>1 DEF DropOthers
<1>6. ASSUME NEW i \in 0 .. numRaw - 1
      PROVE  DropOthers(cs, given)[i + 1] =
                IF i \in DOMAIN given /\ cs[i + 1] # NoCpd /\ cs[i + 1].type # given[i]
                THEN NoCpd ELSE cs[i + 1]
  BY <1>1, <1>2 DEF DropOthers
<1>7. QED BY <1>3, <1>4, <1>5, <1>6

\* The initial network satisfies the invariant.
LEMMA InitIInv == Init => IInv
<1> SUFFICES ASSUME Init PROVE IInv
  OBVIOUS
<1>1. PICK ns \in NodeLists : \E as \in ArcSets(Len(ns)) : IsGraphOf(ns, as)
  BY Zenon DEF Init, IsGraphOf
<1>2. PICK as \in ArcSets(Len(ns)) : IsGraphOf(ns, as)
  BY <1>1
<1>3. Buildable(ns, as)
  BY <1>1, <1>2, NodeListsAssumption DEF Buildable
<1>4. G!TypeOK /\ GraphSound
  BY <1>2, <1>3, BuiltSound DEF Built
<1>5. Vectors /\ outcome \in Outcomes /\ edits \in Nat
  BY DEF Init, Vectors, Outcomes
<1>6. \A i : Cpd(i) = NoCpd
  BY DEF Init, Cpd
<1>7. \A i \in 0 .. numRaw - 1 : i \in G!Live
  <2>1. ns \in Seq(Names) /\ Len(ns) <= MaxRaw /\ numRaw = Len(ns)
        /\ name = [i \in G!Idx |-> IF i < Len(ns) THEN ns[i + 1] ELSE NoName]
    BY <1>2, <1>3 DEF Buildable, IsGraphOf, GraphOf
  <2>2. QED BY <2>1, GraphAssumption DEF G!Live, G!Idx
<1>8. CpdsBelong
  BY <1>6, <1>7 DEF CpdsBelong
<1>9. QED BY <1>4, <1>5, <1>8 DEF IInv, TypeOK, Vectors

-------------------------------------------------------------------------------
(* Edits of the graph.                                                     *)

graphVars == <<numRaw, name, parents, children, indices, strings, collapsed,
               freeIndices, arcs, roots, leaves>>

\* The edits of Dag, as DagProofs names them.
LEMMA GraphEdits ==
    /\ \A n : G!AddNode(n) => Graph!AddNode(n)
    /\ \A i : G!RemoveNode(i) => Graph!RemoveNode(i)
    /\ \A s, t : G!AddArc(s, t) => Graph!AddArc(s, t)
    /\ \A s, t : G!RemoveArc(s, t) => Graph!RemoveArc(s, t)
    /\ \A s, t : G!FlipArc(s, t) => Graph!FlipArc(s, t)
<1> USE DEF G!Live, Graph!Live, G!Idx, Graph!Idx, G!HasArc, Graph!HasArc,
            G!nodeVars, Graph!nodeVars
<1>1. \A n : G!AddNode(n) => Graph!AddNode(n)
  BY Zenon DEF G!AddNode, Graph!AddNode, G!NewIndex, Graph!NewIndex, G!TakeSlot,
               Graph!TakeSlot, G!InsertElem, Graph!InsertElem
<1>2. \A i : G!RemoveNode(i) => Graph!RemoveNode(i)
  BY Zenon DEF G!RemoveNode, Graph!RemoveNode, G!ArcsWithout, Graph!ArcsWithout,
               G!RootsWithout, Graph!RootsWithout, G!LeavesWithout, Graph!LeavesWithout,
               G!SwapRemoveElem, Graph!SwapRemoveElem
<1>3. \A s, t : G!AddArc(s, t) => Graph!AddArc(s, t)
  BY Zenon DEF G!AddArc, Graph!AddArc, G!CanAddArc, Graph!CanAddArc, G!AddArcUnsafe,
               Graph!AddArcUnsafe, G!HasPath, Graph!HasPath, G!Closure, Graph!Closure,
               G!IsClosed, Graph!IsClosed
<1>4. \A s, t : G!RemoveArc(s, t) => Graph!RemoveArc(s, t)
  BY Zenon DEF G!RemoveArc, Graph!RemoveArc, G!RootsCut, Graph!RootsCut,
               G!LeavesCut, Graph!LeavesCut
<1>5. \A s, t : G!FlipArc(s, t) => Graph!FlipArc(s, t)
  <2>1. \A N, ch, s, t : G!HasPath(N, ch, s, t) = Graph!HasPath(N, ch, s, t)
    BY Zenon DEF G!HasPath, Graph!HasPath, G!Closure, Graph!Closure, G!IsClosed,
                 Graph!IsClosed
  <2>2. \A s, t : G!HasPathNoDirectArc(s, t) = Graph!HasPathNoDirectArc(s, t)
    BY Zenon, <2>1 DEF G!HasPathNoDirectArc, Graph!HasPathNoDirectArc
  <2>3. \A s, t : G!CanFlipArc(s, t) => Graph!CanFlipArc(s, t)
    BY Zenon, <2>1, <2>2 DEF G!CanFlipArc, Graph!CanFlipArc
  <2>4. \A s, t : /\ G!RootsCut(s, t) = Graph!RootsCut(s, t)
                 /\ G!LeavesCut(s, t) = Graph!LeavesCut(s, t)
    BY Zenon DEF G!RootsCut, Graph!RootsCut, G!LeavesCut, Graph!LeavesCut
  <2>5. QED BY Zenon, <2>3, <2>4 DEF G!FlipArc, Graph!FlipArc
<1>6. QED BY <1>1, <1>2, <1>3, <1>4, <1>5

\* An edit of the graph through the network keeps the graph sound.
LEMMA GraphEdited ==
    ASSUME G!TypeOK, GraphSound,
           \/ \E n \in Names : G!AddNode(n)
           \/ \E i \in G!Idx : G!RemoveNode(i)
           \/ \E s, t \in G!Idx : \/ G!AddArc(s, t)
                                 \/ G!RemoveArc(s, t)
                                 \/ G!FlipArc(s, t)
           \/ UNCHANGED graphVars
    PROVE  (G!TypeOK /\ GraphSound)'
<1>1. Graph!IInv
  BY GraphInvariant
<1>2. G!Idx = Graph!Idx
  BY DEF G!Idx, Graph!Idx
<1>3. CASE \E n \in Names : G!AddNode(n)
  <2>1. PICK n \in Names : Graph!AddNode(n)
    BY <1>3, GraphEdits
  <2>2. Graph!IInv'
    BY <1>1, <2>1, Graph!AddNodeIInv, GraphAssumption
  <2>3. QED BY <2>2, GraphInvariant
<1>4. CASE \E i \in G!Idx : G!RemoveNode(i)
  <2>1. PICK i \in Graph!Idx : Graph!RemoveNode(i)
    BY <1>2, <1>4, GraphEdits
  <2>2. Graph!IInv'
    BY <1>1, <2>1, Graph!RemoveNodeIInv, GraphAssumption
  <2>3. QED BY <2>2, GraphInvariant
<1>5. CASE \E s, t \in G!Idx : G!AddArc(s, t)
  <2>1. PICK s, t \in Graph!Idx : Graph!AddArc(s, t)
    BY <1>2, <1>5, GraphEdits
  <2>2. Graph!IInv'
    BY <1>1, <2>1, Graph!AddArcIInv, GraphAssumption
  <2>3. QED BY <2>2, GraphInvariant
<1>6. CASE \E s, t \in G!Idx : G!RemoveArc(s, t)
  <2>1. PICK s, t \in Graph!Idx : Graph!RemoveArc(s, t)
    BY <1>2, <1>6, GraphEdits
  <2>2. Graph!IInv'
    BY <1>1, <2>1, Graph!RemoveArcIInv, GraphAssumption
  <2>3. QED BY <2>2, GraphInvariant
<1>7. CASE \E s, t \in G!Idx : G!FlipArc(s, t)
  <2>1. PICK s, t \in Graph!Idx : Graph!FlipArc(s, t)
    BY <1>2, <1>7, GraphEdits
  <2>2. Graph!IInv'
    BY <1>1, <2>1, Graph!FlipArcIInv, GraphAssumption
  <2>3. QED BY <2>2, GraphInvariant
<1>8. CASE UNCHANGED graphVars
  BY <1>8 DEF graphVars, GraphSound, G!TypeOK, G!IndexMapsAgree, G!FreeSlotsExact,
              G!AdjacencyAgrees, G!RootsLeavesExact, G!ArcsAcyclic, G!Live
<1>9. QED BY <1>3, <1>4, <1>5, <1>6, <1>7, <1>8

\* The slots of a vector of m elements.
LEMMA Slots ==
    /\ \A m \in Nat : \A i : i \in 0 .. m - 1 <=> i \in Nat /\ i < m
    /\ \A m, i \in Nat : /\ i < m <=> i + 1 \in 1 .. m
                         /\ i = m - 1 <=> i + 1 = m
OBVIOUS

\* The slot of a new node: unused so far, the last or a reused one.
LEMMA NewSlot ==
    ASSUME G!TypeOK, GraphSound, NEW n \in Names, G!AddNode(n)
    PROVE  /\ numRaw' \in Nat /\ G!NewIndex \in Nat /\ G!NewIndex < numRaw'
           /\ G!NewIndex \notin G!Live
           /\ numRaw' = numRaw \/ (numRaw' = numRaw + 1 /\ G!NewIndex = numRaw)
           /\ G!Live' = G!Live \cup {G!NewIndex}
<1>1. Graph!IInv
  BY GraphInvariant
<1>2. /\ G!NewIndex = Graph!NewIndex /\ G!Live = Graph!Live /\ G!Idx = Graph!Idx
      /\ (G!TakeSlot => Graph!TakeSlot)
  BY DEF G!NewIndex, Graph!NewIndex, G!Live, Graph!Live, G!Idx, Graph!Idx, G!TakeSlot,
         Graph!TakeSlot
<1>3. /\ Graph!NewIndex < MaxRaw /\ Graph!TakeSlot
      /\ name' = [name EXCEPT ![G!NewIndex] = n]
  BY <1>2 DEF G!AddNode
<1>4. G!NewIndex \in G!Idx /\ G!NewIndex \notin G!Live
  BY <1>1, <1>2, <1>3, Graph!NewIndexUnused, GraphAssumption
<1>5. numRaw' \in 0 .. MaxRaw /\ G!NewIndex < numRaw'
  BY <1>1, <1>2, <1>3, Graph!TakeSlotEffect, GraphAssumption
<1>6. numRaw' = numRaw \/ (numRaw' = numRaw + 1 /\ G!NewIndex = numRaw)
  BY <1>1, <1>2, <1>3, Graph!TakeSlotEffect, GraphAssumption
<1>7. G!Live' = G!Live \cup {G!NewIndex}
  BY <1>3, <1>4, GraphAssumption DEF G!Live, G!TypeOK
<1>8. QED BY <1>4, <1>5, <1>6, <1>7, GraphAssumption DEF G!Idx

\* add_node: the new node has neither type nor CPD, the others keep theirs.
LEMMA AddNodeSlots ==
    ASSUME IInv, NEW n \in Names, AddNode(n), NEW i, i = G!NewIndex
    PROVE  /\ Vectors'
           /\ Type(i)' = Unknown /\ Cpd(i)' = NoCpd
           /\ \A j \in Nat : j < numRaw' =>
                 \/ j = i
                 \/ j < numRaw /\ Type(j)' = Type(j) /\ Cpd(j)' = Cpd(j)
<1>1. G!TypeOK /\ GraphSound /\ Vectors /\ CpdsBelong /\ numRaw \in Nat
  BY NodeSlots DEF IInv, TypeOK, Vectors
<1>2. G!AddNode(n)
  BY DEF AddNode
<1>3. /\ numRaw' \in Nat /\ i \in Nat /\ i < numRaw' /\ i \notin G!Live
      /\ numRaw' = numRaw \/ (numRaw' = numRaw + 1 /\ i = numRaw)
  BY <1>1, <1>2, NewSlot
<1>4. i < numRaw => Type(i) = Unknown /\ Cpd(i) = NoCpd
  BY <1>1, <1>3 DEF CpdsBelong
<1>5. i = numRaw' - 1 <=> i + 1 = numRaw'
  BY <1>3, Slots
<1>6. /\ cpds' = IF i + 1 = numRaw' /\ cpds # <<>> THEN Resize(cpds, i + 1, NoCpd) ELSE cpds
      /\ nodeTypes' = IF i + 1 = numRaw'
                      THEN [Resize(nodeTypes, i + 1, Unknown) EXCEPT ![i + 1] = Unknown]
                      ELSE nodeTypes
  BY <1>5 DEF AddNode
<1>7. CASE i + 1 = numRaw'
  <2>1. i + 1 = numRaw \/ i = numRaw
    BY <1>1, <1>3, <1>7
  <2>2. \A j \in Nat : j < numRaw' =>
            /\ j = i \/ j < numRaw
            /\ j + 1 \in 1 .. i + 1 /\ (j < numRaw <=> j + 1 <= numRaw)
            /\ (j # i => j + 1 # i + 1)
    BY <1>1, <1>3, <1>7
  <2>3. nodeTypes' = [k \in 1 .. i + 1 |-> IF k <= numRaw /\ k # i + 1 THEN nodeTypes[k] ELSE Unknown]
    <3>1. Len(nodeTypes) = numRaw
      BY <1>1 DEF Vectors
    <3>2. QED BY <1>3, <1>6, <1>7, <3>1 DEF Resize
  <2>4. cpds' = IF cpds = <<>> THEN <<>>
                ELSE [k \in 1 .. i + 1 |-> IF k <= numRaw THEN cpds[k] ELSE NoCpd]
    <3>1. cpds # <<>> => Len(cpds) = numRaw
      BY <1>1 DEF Vectors
    <3>2. QED BY <1>6, <1>7, <3>1 DEF Resize
  <2>5. Vectors'
    <3>1. \A k \in 1 .. i + 1 : k <= numRaw => k \in 1 .. numRaw
      BY <1>1, <1>3
    <3>2. nodeTypes' \in [1 .. i + 1 -> FactorTypes \cup {Unknown}]
      BY <1>1, <2>3, <3>1 DEF Vectors
    <3>3. cpds # <<>> => cpds' \in [1 .. i + 1 -> Cpds \cup {NoCpd}]
      BY <1>1, <2>4, <3>1 DEF Vectors
    <3>4. cpds = <<>> => cpds' = <<>>
      BY <2>4
    <3>5. QED BY <1>7, <3>2, <3>3, <3>4 DEF Vectors
  <2>6. Type(i)' = Unknown
    BY <1>3, <2>2, <2>3 DEF Type
  <2>7. \A j \in Nat : j < numRaw' => (j = i \/ Type(j)' = Type(j))
    BY <2>2, <2>3 DEF Type
  <2>8. \A j \in Nat : j < numRaw' => Cpd(j)' = IF j < numRaw THEN Cpd(j) ELSE NoCpd
    <3> SUFFICES ASSUME NEW j \in Nat, j < numRaw'
                 PROVE  Cpd(j)' = IF j < numRaw THEN Cpd(j) ELSE NoCpd
      OBVIOUS
    <3>1. CASE cpds = <<>>
      BY <2>4, <3>1 DEF Cpd
    <3>2. CASE cpds # <<>>
      <4>1. j + 1 \in 1 .. i + 1 /\ DOMAIN cpds' = 1 .. i + 1
        BY <2>2, <2>4, <3>2
      <4>2. cpds' # <<>>
        <5>1. DOMAIN <<>> = {}
          OBVIOUS
        <5>2. QED BY <4>1, <5>1
      <4>3. QED BY <2>2, <2>4, <3>2, <4>1, <4>2 DEF Cpd
    <3>3. QED BY <3>1, <3>2
  <2>9. QED BY <1>3, <1>4, <2>2, <2>5, <2>6, <2>7, <2>8
<1>8. CASE i + 1 # numRaw'
  <2>1. numRaw' = numRaw /\ nodeTypes' = nodeTypes /\ cpds' = cpds
    BY <1>1, <1>3, <1>6, <1>8
  <2>2. QED BY <1>1, <1>3, <1>4, <2>1 DEF Vectors, Type, Cpd
<1>9. QED BY <1>7, <1>8

\* What the invariant says of the vectors.
LEMMA IInvParts ==
    ASSUME IInv
    PROVE  /\ G!TypeOK /\ GraphSound /\ Vectors /\ CpdsBelong /\ numRaw \in Nat
           /\ outcome \in Outcomes /\ edits \in Nat
           /\ \A i \in G!Live : /\ i \in Nat /\ i < numRaw /\ i \in 0 .. numRaw - 1
                               /\ i \in G!Idx
<1>1. G!TypeOK /\ GraphSound /\ Vectors /\ CpdsBelong /\ outcome \in Outcomes /\ edits \in Nat
  BY DEF IInv, TypeOK, Vectors
<1>2. numRaw \in Nat /\ \A i \in G!Live : i \in G!Idx /\ i \in 0 .. numRaw - 1
  BY <1>1, NodeSlots
<1>3. QED BY <1>1, <1>2

\* The same, with the slots of CpdsBelong as natural numbers.
LEMMA Belonging ==
    ASSUME numRaw' \in Nat,
           \A i \in Nat : i < numRaw' /\ i \notin G!Live' => Type(i)' = Unknown /\ Cpd(i)' = NoCpd,
           \A i \in G!Live' : Cpd(i)' # NoCpd => Cpd(i)'.type = Type(i)'
    PROVE  CpdsBelong'
<1>1. \A i : i \in 0 .. numRaw' - 1 <=> i \in Nat /\ i < numRaw'
  BY Slots
<1>2. QED BY <1>1 DEF CpdsBelong

\* Every edit of the graph keeps the invariant.
LEMMA EditIInv ==
    ASSUME IInv,
           \/ \E n \in Names : AddNode(n)
           \/ \E i \in G!Idx : RemoveNode(i)
           \/ \E s, t \in G!Idx : AddArc(s, t) \/ RemoveArc(s, t) \/ FlipArc(s, t)
    PROVE  IInv'
<1>1. /\ G!TypeOK /\ GraphSound /\ Vectors /\ CpdsBelong /\ numRaw \in Nat /\ edits \in Nat
      /\ \A i \in G!Live : i \in Nat /\ i < numRaw
  BY IInvParts
<1>2. outcome' \in Outcomes /\ edits' \in Nat
  <2>1. Edit
    BY DEF AddNode, RemoveNode, AddArc, RemoveArc, FlipArc
  <2>2. QED BY <1>1, <2>1 DEF Edit, Outcomes
<1>3. G!TypeOK' /\ GraphSound'
  BY <1>1, GraphEdited DEF AddNode, RemoveNode, AddArc, RemoveArc, FlipArc
<1>4. CASE \E n \in Names : AddNode(n)
  <2>1. PICK n \in Names : AddNode(n)
    BY <1>4
  <2>2. PICK i : i = G!NewIndex
    OBVIOUS
  <2>3. /\ Vectors'
        /\ Type(i)' = Unknown /\ Cpd(i)' = NoCpd
        /\ \A j \in Nat : j < numRaw' =>
              \/ j = i
              \/ j < numRaw /\ Type(j)' = Type(j) /\ Cpd(j)' = Cpd(j)
    BY <2>1, <2>2, AddNodeSlots
  <2>4. numRaw' \in Nat /\ G!Live' = G!Live \cup {i}
    BY <1>1, <2>1, <2>2, NewSlot DEF AddNode
  <2>5. \A j \in G!Live' : j \in Nat /\ j < numRaw'
    <3>1. numRaw' = numRaw \/ numRaw' = numRaw + 1
      BY <1>1, <2>1, NewSlot DEF AddNode
    <3>2. i \in Nat /\ i < numRaw'
      BY <1>1, <2>1, <2>2, NewSlot DEF AddNode
    <3>3. QED BY <1>1, <2>4, <3>1, <3>2
  <2>6. \A j \in Nat : j < numRaw /\ j \notin G!Live => Type(j) = Unknown /\ Cpd(j) = NoCpd
    BY <1>1, Slots DEF CpdsBelong
  <2>7. \A j \in Nat : j < numRaw' /\ j \notin G!Live' => Type(j)' = Unknown /\ Cpd(j)' = NoCpd
    BY <2>3, <2>4, <2>6
  <2>8. \A j \in G!Live : Cpd(j) # NoCpd => Cpd(j).type = Type(j)
    BY <1>1 DEF CpdsBelong
  <2>9. ASSUME NEW j \in G!Live', Cpd(j)' # NoCpd PROVE Cpd(j)'.type = Type(j)'
    <3>1. j # i
      BY <2>3, <2>9
    <3>2. j \in G!Live /\ Type(j)' = Type(j) /\ Cpd(j)' = Cpd(j)
      BY <2>3, <2>4, <2>5, <3>1
    <3>3. Cpd(j).type = Type(j)
      BY <2>8, <2>9, <3>2
    <3>4. QED BY <3>2, <3>3
  <2>10. CpdsBelong'
    BY <2>4, <2>7, <2>9, Belonging
  <2>11. QED BY <1>2, <1>3, <2>3, <2>10 DEF IInv, TypeOK, Vectors
<1>5. CASE \E i \in G!Idx : RemoveNode(i)
  <2>1. PICK i \in G!Idx : RemoveNode(i)
    BY <1>5
  <2>2. /\ i \in G!Live /\ numRaw' = numRaw /\ name' = [name EXCEPT ![i] = NoName]
        /\ nodeTypes' = [nodeTypes EXCEPT ![i + 1] = Unknown]
        /\ cpds' = IF cpds = <<>> THEN cpds ELSE [cpds EXCEPT ![i + 1] = NoCpd]
    BY <2>1 DEF RemoveNode, G!RemoveNode, ClearCpd
  <2>3. G!Live' = G!Live \ {i}
    BY <1>1, <2>2, GraphAssumption DEF G!Live, G!TypeOK
  <2>4. \A j \in Nat : j < numRaw => j + 1 \in 1 .. numRaw /\ (j # i => j + 1 # i + 1)
    BY <1>1, <2>2
  <2>5. Vectors'
    BY <1>1, <2>2 DEF Vectors
  <2>6. \A j \in Nat : j < numRaw =>
           /\ Type(j)' = IF j = i THEN Unknown ELSE Type(j)
           /\ Cpd(j)' = IF j = i THEN NoCpd ELSE Cpd(j)
    <3> SUFFICES ASSUME NEW j \in Nat, j < numRaw
                 PROVE  /\ Type(j)' = IF j = i THEN Unknown ELSE Type(j)
                        /\ Cpd(j)' = IF j = i THEN NoCpd ELSE Cpd(j)
      OBVIOUS
    <3>1. j + 1 \in 1 .. numRaw /\ (j # i => j + 1 # i + 1)
      BY <2>4
    <3>2. Type(j)' = IF j = i THEN Unknown ELSE Type(j)
      BY <1>1, <2>2, <3>1 DEF Vectors, Type
    <3>3. CASE cpds = <<>>
      BY <2>2, <3>2, <3>3 DEF Cpd
    <3>4. CASE cpds # <<>>
      <4>1. cpds \in [1 .. numRaw -> Cpds \cup {NoCpd}]
        BY <1>1, <3>4 DEF Vectors
      <4>2. cpds' # <<>> /\ cpds'[j + 1] = IF j = i THEN NoCpd ELSE cpds[j + 1]
        <5>1. DOMAIN cpds' = 1 .. numRaw /\ DOMAIN <<>> = {}
          BY <2>2, <3>4, <4>1
        <5>2. QED BY <2>2, <3>1, <3>4, <4>1, <5>1
      <4>3. QED BY <3>2, <3>4, <4>2 DEF Cpd
    <3>5. QED BY <3>3, <3>4
  <2>7. \A j \in Nat : j < numRaw' /\ j \notin G!Live' => Type(j)' = Unknown /\ Cpd(j)' = NoCpd
    <3>1. \A j \in Nat : j < numRaw /\ j \notin G!Live => Type(j) = Unknown /\ Cpd(j) = NoCpd
      BY <1>1, Slots DEF CpdsBelong
    <3>2. QED BY <2>2, <2>3, <2>6, <3>1
  <2>8. ASSUME NEW j \in G!Live', Cpd(j)' # NoCpd PROVE Cpd(j)'.type = Type(j)'
    <3>1. j \in G!Live /\ Type(j)' = Type(j) /\ Cpd(j)' = Cpd(j)
      BY <1>1, <2>3, <2>6
    <3>2. Cpd(j).type = Type(j)
      BY <1>1, <2>8, <3>1 DEF CpdsBelong
    <3>3. QED BY <3>1, <3>2
  <2>9. CpdsBelong'
    BY <1>1, <2>2, <2>7, <2>8, Belonging
  <2>10. QED BY <1>2, <1>3, <2>5, <2>9 DEF IInv, TypeOK, Vectors
<1>6. CASE \E s, t \in G!Idx : AddArc(s, t) \/ RemoveArc(s, t) \/ FlipArc(s, t)
  <2>1. UNCHANGED <<nodeTypes, cpds, numRaw, name>>
    BY <1>6 DEF AddArc, RemoveArc, FlipArc, G!AddArc, G!RemoveArc, G!FlipArc, G!nodeVars
  <2>2. Vectors' /\ CpdsBelong'
    BY <1>1, <2>1 DEF Vectors, CpdsBelong, Type, Cpd, G!Live
  <2>3. QED BY <1>2, <1>3, <2>2 DEF IInv, TypeOK, Vectors
<1>7. QED BY <1>4, <1>5, <1>6

-------------------------------------------------------------------------------
(* Types, CPDs and fits leave the graph alone.                             *)

\* What a call that touches only the vectors has to show.
LEMMA VectorStep ==
    ASSUME IInv, UNCHANGED <<graphVars, edits>>, outcome' \in Outcomes, Vectors',
           \A i \in Nat : i < numRaw /\ i \notin G!Live =>
                            Type(i)' = Type(i) /\ Cpd(i)' \in {Cpd(i), NoCpd},
           \A i \in G!Live : Cpd(i)' # NoCpd => Cpd(i)'.type = Type(i)'
    PROVE  IInv'
<1>1. /\ G!TypeOK /\ GraphSound /\ Vectors /\ CpdsBelong /\ numRaw \in Nat /\ edits \in Nat
  BY IInvParts
<1>2. G!TypeOK' /\ GraphSound'
  BY <1>1, GraphEdited
<1>3. numRaw' = numRaw /\ G!Live' = G!Live /\ edits' = edits
  BY DEF graphVars, G!Live
<1>4. \A i \in Nat : i < numRaw /\ i \notin G!Live => Type(i) = Unknown /\ Cpd(i) = NoCpd
  BY <1>1, Slots DEF CpdsBelong
<1>5. CpdsBelong'
  BY <1>1, <1>3, <1>4, Belonging
<1>6. QED BY <1>1, <1>2, <1>3, <1>5 DEF IInv, TypeOK, Vectors

\* Types for some of the nodes.
TypesFor(given) ==
    /\ DOMAIN given \subseteq G!Live
    /\ \A i \in DOMAIN given : given[i] \in FactorTypes \cup {Unknown}

\* The data gives types to nodes that have none.
LEMMA InferredTypes ==
    ASSUME NEW kinds
    PROVE  /\ TypesFor(Inferred(kinds))
           /\ \A i \in G!Live : i \in DOMAIN Inferred(kinds) <=> Type(i) = Unknown
           /\ \A i \in DOMAIN Inferred(kinds) : Inferred(kinds)[i] \in FactorTypes
<1>1. \A k : DefaultType(k) \in FactorTypes
  BY DEF DefaultType, FactorTypes
<1>2. QED BY <1>1 DEF Inferred, TypesFor

\* force_type_whitelist retypes nodes and drops the CPDs of another type.
LEMMA ForceTypesSlots ==
    ASSUME IInv, NEW given, TypesFor(given), ForceTypes(given)
    PROVE  /\ Vectors'
           /\ \A i \in Nat : i < numRaw =>
                 /\ Type(i)' = IF i \in DOMAIN given THEN given[i] ELSE Type(i)
                 /\ Cpd(i)' = IF i \in DOMAIN given /\ Cpd(i) # NoCpd /\ Cpd(i).type # given[i]
                              THEN NoCpd ELSE Cpd(i)
<1>1. Vectors /\ numRaw \in Nat
  BY IInvParts
<1>2. nodeTypes' = Retyped(given) /\ cpds' = DropOthers(cpds, given) /\ numRaw' = numRaw
  BY DEF ForceTypes
<1>3. \A i \in Nat : i < numRaw => i \in 0 .. numRaw - 1 /\ i + 1 \in 1 .. numRaw
  BY <1>1
<1>4. CASE cpds = <<>>
  <2>1. cpds' = <<>>
    BY <1>2, <1>4 DEF DropOthers
  <2>2. \A i : Cpd(i) = NoCpd /\ Cpd(i)' = NoCpd
    BY <1>4, <2>1 DEF Cpd
  <2>3. /\ Retyped(given) \in [1 .. numRaw -> FactorTypes \cup {Unknown}]
        /\ \A i \in 0 .. numRaw - 1 :
              Retyped(given)[i + 1] = IF i \in DOMAIN given THEN given[i] ELSE Type(i)
    <3>1. [k \in 1 .. numRaw |-> NoCpd] \in [1 .. numRaw -> Cpds \cup {NoCpd}]
      OBVIOUS
    <3>2. QED BY <1>1, <3>1, Retyping DEF TypesFor
  <2>4. QED BY <1>2, <1>3, <2>1, <2>2, <2>3 DEF Vectors, Type
<1>5. CASE cpds # <<>>
  <2>1. cpds \in [1 .. numRaw -> Cpds \cup {NoCpd}]
    BY <1>1, <1>5 DEF Vectors
  <2>2. /\ Retyped(given) \in [1 .. numRaw -> FactorTypes \cup {Unknown}]
        /\ \A i \in 0 .. numRaw - 1 :
              Retyped(given)[i + 1] = IF i \in DOMAIN given THEN given[i] ELSE Type(i)
        /\ DropOthers(cpds, given) \in [1 .. numRaw -> Cpds \cup {NoCpd}]
        /\ \A i \in 0 .. numRaw - 1 :
              DropOthers(cpds, given)[i + 1] =
                 IF i \in DOMAIN given /\ cpds[i + 1] # NoCpd /\ cpds[i + 1].type # given[i]
                 THEN NoCpd ELSE cpds[i + 1]
    BY <1>1, <2>1, Retyping DEF TypesFor
  <2>3. Vectors'
    BY <1>2, <2>2 DEF Vectors
  <2>4. ASSUME NEW i \in Nat, i < numRaw
        PROVE  /\ Type(i)' = IF i \in DOMAIN given THEN given[i] ELSE Type(i)
               /\ Cpd(i)' = IF i \in DOMAIN given /\ Cpd(i) # NoCpd /\ Cpd(i).type # given[i]
                            THEN NoCpd ELSE Cpd(i)
    <3>1. i \in 0 .. numRaw - 1
      BY <1>3, <2>4
    <3>2. cpds' # <<>>
      BY <1>1, <1>2, <2>2, <3>1, SlotCpd
    <3>3. QED BY <1>2, <1>5, <2>2, <3>1, <3>2 DEF Type, Cpd
  <2>5. QED BY <2>3, <2>4
<1>6. QED BY <1>4, <1>5

LEMMA ForceTypesIInv ==
    ASSUME IInv, NEW given, TypesFor(given), ForceTypes(given)
    PROVE  IInv'
<1>1. /\ Vectors'
      /\ \A i \in Nat : i < numRaw =>
            /\ Type(i)' = IF i \in DOMAIN given THEN given[i] ELSE Type(i)
            /\ Cpd(i)' = IF i \in DOMAIN given /\ Cpd(i) # NoCpd /\ Cpd(i).type # given[i]
                         THEN NoCpd ELSE Cpd(i)
  BY ForceTypesSlots
<1>2. UNCHANGED <<graphVars, edits>> /\ outcome' \in Outcomes
  BY DEF ForceTypes, graphVars, Outcomes
<1>3. \A i \in Nat : i < numRaw /\ i \notin G!Live =>
         Type(i)' = Type(i) /\ Cpd(i)' \in {Cpd(i), NoCpd}
  BY <1>1 DEF TypesFor
<1>4. ASSUME NEW i \in G!Live, Cpd(i)' # NoCpd PROVE Cpd(i)'.type = Type(i)'
  <2>1. i \in Nat /\ i < numRaw /\ (Cpd(i) # NoCpd => Cpd(i).type = Type(i))
    BY IInvParts DEF CpdsBelong
  <2>2. QED BY <1>1, <1>4, <2>1
<1>5. QED BY <1>1, <1>2, <1>3, <1>4, VectorStep

\* The types add_cpds gives to nodes without one.
TypesOf(given) == [i \in {j \in DOMAIN given : Type(j) = Unknown} |-> given[i].type]

\* CPDs for some of the nodes.
CpdsFor(given) == DOMAIN given \subseteq G!Live /\ \A i \in DOMAIN given : given[i] \in Cpds

\* add_cpds: a node gets the CPD of the call; no other node with a type changes.
LEMMA AddCpdsSlots ==
    ASSUME IInv, NEW given, CpdsFor(given), AddCpds(given)
    PROVE  /\ Vectors'
           /\ \A i \in Nat : i < numRaw =>
                 /\ Type(i)' = IF i \in DOMAIN given /\ Type(i) = Unknown
                               THEN given[i].type ELSE Type(i)
                 /\ Cpd(i)' = IF i \in DOMAIN given THEN given[i] ELSE Cpd(i)
<1>1. Vectors /\ numRaw \in Nat
  BY IInvParts
<1>2. /\ nodeTypes' = Retyped(TypesOf(given)) /\ numRaw' = numRaw
      /\ cpds' = [k \in DOMAIN Allocated |->
                     IF k - 1 \in DOMAIN given THEN given[k - 1]
                     ELSE DropOthers(Allocated, TypesOf(given))[k]]
  BY DEF AddCpds, TypesOf
<1>3. /\ Allocated \in [1 .. numRaw -> Cpds \cup {NoCpd}] /\ DOMAIN Allocated = 1 .. numRaw
      /\ \A i \in 0 .. numRaw - 1 : Allocated[i + 1] = Cpd(i)
  BY <1>1, AllocatedCpds
<1>4. /\ DOMAIN TypesOf(given) = {j \in DOMAIN given : Type(j) = Unknown}
      /\ \A i \in DOMAIN TypesOf(given) : /\ TypesOf(given)[i] = given[i].type
                                         /\ TypesOf(given)[i] \in FactorTypes \cup {Unknown}
  BY DEF TypesOf, CpdsFor, Cpds
<1>5. /\ Retyped(TypesOf(given)) \in [1 .. numRaw -> FactorTypes \cup {Unknown}]
      /\ \A i \in 0 .. numRaw - 1 :
            Retyped(TypesOf(given))[i + 1] =
               IF i \in DOMAIN TypesOf(given) THEN TypesOf(given)[i] ELSE Type(i)
      /\ DropOthers(Allocated, TypesOf(given)) \in [1 .. numRaw -> Cpds \cup {NoCpd}]
      /\ \A i \in 0 .. numRaw - 1 :
            i \notin DOMAIN TypesOf(given) =>
               DropOthers(Allocated, TypesOf(given))[i + 1] = Allocated[i + 1]
  <2> DEFINE types == TypesOf(given)
             cs == Allocated
  <2>1. \A i \in DOMAIN types : types[i] \in FactorTypes \cup {Unknown}
    BY <1>4
  <2>2. cs \in [1 .. numRaw -> Cpds \cup {NoCpd}]
    BY <1>3
  <2> HIDE DEF types, cs
  <2>3. /\ Retyped(types) \in [1 .. numRaw -> FactorTypes \cup {Unknown}]
        /\ \A i \in 0 .. numRaw - 1 :
              Retyped(types)[i + 1] = IF i \in DOMAIN types THEN types[i] ELSE Type(i)
        /\ DropOthers(cs, types) \in [1 .. numRaw -> Cpds \cup {NoCpd}]
        /\ \A i \in 0 .. numRaw - 1 :
              DropOthers(cs, types)[i + 1] =
                 IF i \in DOMAIN types /\ cs[i + 1] # NoCpd /\ cs[i + 1].type # types[i]
                 THEN NoCpd ELSE cs[i + 1]
    BY <1>1, <2>1, <2>2, Retyping
  <2>4. QED BY <2>3 DEF types, cs
<1>6. cpds' \in [1 .. numRaw -> Cpds \cup {NoCpd}]
  BY <1>2, <1>3, <1>5 DEF CpdsFor
<1>7. Vectors'
  BY <1>2, <1>5, <1>6 DEF Vectors
<1>8. ASSUME NEW i \in Nat, i < numRaw
      PROVE  /\ Type(i)' = IF i \in DOMAIN given /\ Type(i) = Unknown
                           THEN given[i].type ELSE Type(i)
             /\ Cpd(i)' = IF i \in DOMAIN given THEN given[i] ELSE Cpd(i)
  <2>1. i \in 0 .. numRaw - 1 /\ i + 1 \in 1 .. numRaw /\ (i + 1) - 1 = i
    BY <1>1, <1>8
  <2>2. cpds' # <<>>
    BY <1>1, <1>6, <2>1, SlotCpd
  <2>3. Cpd(i)' = cpds'[i + 1]
    BY <2>2 DEF Cpd
  <2>4. cpds'[i + 1] = IF i \in DOMAIN given THEN given[i]
                       ELSE DropOthers(Allocated, TypesOf(given))[i + 1]
    BY <1>2, <1>3, <2>1
  <2>5. i \notin DOMAIN given => DropOthers(Allocated, TypesOf(given))[i + 1] = Cpd(i)
    BY <1>3, <1>4, <1>5, <2>1
  <2>6. Type(i)' = IF i \in DOMAIN given /\ Type(i) = Unknown THEN given[i].type ELSE Type(i)
    BY <1>2, <1>4, <1>5, <2>1 DEF Type
  <2>7. QED BY <2>3, <2>4, <2>5, <2>6
<1>9. QED BY <1>7, <1>8

LEMMA AddCpdsIInv ==
    ASSUME IInv, NEW given, CpdsFor(given), AddCpds(given)
    PROVE  IInv'
<1>1. /\ Vectors'
      /\ \A i \in Nat : i < numRaw =>
            /\ Type(i)' = IF i \in DOMAIN given /\ Type(i) = Unknown
                          THEN given[i].type ELSE Type(i)
            /\ Cpd(i)' = IF i \in DOMAIN given THEN given[i] ELSE Cpd(i)
  BY AddCpdsSlots
<1>2. UNCHANGED <<graphVars, edits>> /\ outcome' \in Outcomes
  BY DEF AddCpds, graphVars, Outcomes
<1>3. \A i \in Nat : i < numRaw /\ i \notin G!Live =>
         Type(i)' = Type(i) /\ Cpd(i)' \in {Cpd(i), NoCpd}
  BY <1>1 DEF CpdsFor
<1>4. ASSUME NEW i \in G!Live, Cpd(i)' # NoCpd PROVE Cpd(i)'.type = Type(i)'
  <2>1. i \in Nat /\ i < numRaw /\ (Cpd(i) # NoCpd => Cpd(i).type = Type(i))
    BY IInvParts DEF CpdsBelong
  <2>2. \A j \in DOMAIN given : Type(j) \in {Unknown, given[j].type}
    BY DEF AddCpds, CompatibleCpd
  <2>3. QED BY <1>1, <1>4, <2>1, <2>2
<1>5. QED BY <1>1, <1>2, <1>3, <1>4, VectorStep

\* The CPDs that Next gives to add_cpds.
LEMMA GivenCpds ==
    ASSUME IInv, NEW S \in SomeNodes, NEW shape \in [S -> Shapes]
    PROVE  CpdsFor(Given(shape))
<1>1. \A i \in S : shape[i] \in [type : FactorTypes, mixed : BOOLEAN, fitted : BOOLEAN]
  BY InputsAssumption DEF FactorTypes
<1>2. \A i \in S : i \in G!Live /\ ParentNames(i) \in SUBSET Names
  BY IInvParts, NodeSlots DEF SomeNodes
<1>3. QED BY <1>1, <1>2 DEF CpdsFor, Given, Cpds

-------------------------------------------------------------------------------
(* fit.                                                                    *)

TypesAfter(kinds) == Retyped(Inferred(kinds))
CpdBefore(kinds, i) == DropOthers(Allocated, Inferred(kinds))[i + 1]
CpdUsed(kinds, i) ==
    IF MustConstruct(CpdBefore(kinds, i), i, TypesAfter(kinds))
    THEN NewFactor(i, TypesAfter(kinds)) ELSE CpdBefore(kinds, i)
Throwing(kinds) == {i \in G!Live : /\ ~CpdUsed(kinds, i).fitted
                                  /\ ~Fits(CpdUsed(kinds, i), name[i], kinds)}
Reached(kinds) ==
    {i \in G!Live : \A j \in Throwing(kinds) : collapsed[name[i]] <= collapsed[name[j]]}

\* The CPD fit works on is one for the type and the parents of the node.
LEMMA UsedCpd ==
    ASSUME IInv, NEW kinds, NEW i \in G!Live
    PROVE  /\ TypesAfter(kinds) \in [1 .. numRaw -> FactorTypes \cup {Unknown}]
           /\ TypesAfter(kinds)[i + 1] \in FactorTypes
           /\ Type(i) # Unknown => TypesAfter(kinds)[i + 1] = Type(i)
           /\ CpdBefore(kinds, i) = Cpd(i)
           /\ CpdUsed(kinds, i) \in Cpds
           /\ CpdUsed(kinds, i).type = TypesAfter(kinds)[i + 1]
           /\ CpdUsed(kinds, i).evidence = ParentNames(i)
<1>1. /\ Vectors /\ numRaw \in Nat /\ i \in 0 .. numRaw - 1 /\ i + 1 \in 1 .. numRaw
      /\ Cpd(i) # NoCpd => Cpd(i).type = Type(i)
      /\ ParentNames(i) \in SUBSET Names
  BY IInvParts, NodeSlots DEF CpdsBelong
<1>2. /\ Allocated \in [1 .. numRaw -> Cpds \cup {NoCpd}] /\ Allocated[i + 1] = Cpd(i)
      /\ Cpd(i) \in Cpds \cup {NoCpd} /\ Type(i) \in FactorTypes \cup {Unknown}
  BY <1>1, AllocatedCpds
<1>3. /\ \A j \in DOMAIN Inferred(kinds) : /\ Inferred(kinds)[j] \in FactorTypes
                                          /\ Inferred(kinds)[j] \in FactorTypes \cup {Unknown}
      /\ i \in DOMAIN Inferred(kinds) <=> Type(i) = Unknown
  BY InferredTypes
<1>4. /\ TypesAfter(kinds) \in [1 .. numRaw -> FactorTypes \cup {Unknown}]
      /\ TypesAfter(kinds)[i + 1] =
            IF i \in DOMAIN Inferred(kinds) THEN Inferred(kinds)[i] ELSE Type(i)
      /\ CpdBefore(kinds, i) =
            IF /\ i \in DOMAIN Inferred(kinds) /\ Allocated[i + 1] # NoCpd
               /\ Allocated[i + 1].type # Inferred(kinds)[i]
            THEN NoCpd ELSE Allocated[i + 1]
  BY <1>1, <1>2, <1>3, Retyping DEF TypesAfter, CpdBefore
<1>5. /\ TypesAfter(kinds)[i + 1] \in FactorTypes
      /\ Type(i) # Unknown => TypesAfter(kinds)[i + 1] = Type(i)
  BY <1>2, <1>3, <1>4
<1>6. CpdBefore(kinds, i) = Cpd(i)
  <2>1. Cpd(i) # NoCpd => Cpd(i).type \in FactorTypes
    BY <1>2 DEF Cpds
  <2>2. Unknown \notin FactorTypes
    BY TypesAssumption DEF FactorTypes
  <2>3. QED BY <1>1, <1>2, <1>3, <1>4, <2>1, <2>2
<1>7. CASE MustConstruct(CpdBefore(kinds, i), i, TypesAfter(kinds))
  <2>1. CpdUsed(kinds, i) = NewFactor(i, TypesAfter(kinds))
    BY <1>7 DEF CpdUsed
  <2>2. QED BY <1>1, <1>4, <1>5, <1>6, <2>1 DEF NewFactor, Cpds
<1>8. CASE ~MustConstruct(CpdBefore(kinds, i), i, TypesAfter(kinds))
  <2>1. CpdUsed(kinds, i) = Cpd(i)
    BY <1>6, <1>8 DEF CpdUsed
  <2>2. QED BY <1>2, <1>4, <1>5, <1>6, <1>8, <2>1 DEF MustConstruct
<1>9. QED BY <1>7, <1>8

\* fit, whether or not it throws.
LEMMA FitSlots ==
    ASSUME IInv, NEW kinds, Fit(kinds)
    PROVE  /\ UNCHANGED <<graphVars, edits>> /\ Vectors'
           /\ \/ /\ outcome' = "fit threw"
                 /\ \A i \in Nat : i < numRaw => Type(i)' = Type(i) /\ Cpd(i)' = Cpd(i)
              \/ /\ TypesAllowed(Inferred(kinds))
                 /\ outcome' = IF Throwing(kinds) = {} THEN "fitted" ELSE "fit threw"
                 /\ nodeTypes' = TypesAfter(kinds)
                 /\ \A i \in Nat : i < numRaw =>
                       /\ Type(i)' = TypesAfter(kinds)[i + 1]
                       /\ Cpd(i)' = IF i \in Reached(kinds)
                                    THEN [CpdUsed(kinds, i) EXCEPT !.fitted = i \notin Throwing(kinds)]
                                    ELSE CpdBefore(kinds, i)
<1>1. Vectors /\ numRaw \in Nat
  BY IInvParts
<1>2. /\ Allocated \in [1 .. numRaw -> Cpds \cup {NoCpd}] /\ DOMAIN Allocated = 1 .. numRaw
      /\ \A i \in 0 .. numRaw - 1 : Allocated[i + 1] = Cpd(i)
  BY <1>1, AllocatedCpds
<1>3. UNCHANGED <<graphVars, edits>> /\ numRaw' = numRaw
  BY DEF Fit, graphVars
<1>4. \A i \in Nat : i < numRaw => /\ i \in 0 .. numRaw - 1 /\ i + 1 \in 1 .. numRaw
                                 /\ (i + 1) - 1 = i
  BY <1>1
<1>5. CASE ~TypesAllowed(Inferred(kinds))
  <2>1. cpds' = Allocated /\ outcome' = "fit threw" /\ nodeTypes' = nodeTypes
    BY <1>5 DEF Fit
  <2>2. Vectors'
    BY <1>1, <1>2, <1>3, <2>1 DEF Vectors
  <2>3. ASSUME NEW i \in Nat, i < numRaw PROVE Type(i)' = Type(i) /\ Cpd(i)' = Cpd(i)
    <3>1. i \in 0 .. numRaw - 1
      BY <1>4, <2>3
    <3>2. Allocated # <<>>
      BY <1>1, <1>2, <3>1, SlotCpd
    <3>3. Cpd(i)' = Allocated[i + 1]
      BY <2>1, <3>2 DEF Cpd
    <3>4. QED BY <1>2, <2>1, <3>1, <3>3 DEF Type
  <2>4. QED BY <1>3, <2>1, <2>2, <2>3
<1>6. CASE TypesAllowed(Inferred(kinds))
  <2>1. /\ nodeTypes' = TypesAfter(kinds)
        /\ cpds' = [k \in DOMAIN Allocated |->
                       IF k - 1 \in Reached(kinds)
                       THEN [CpdUsed(kinds, k - 1) EXCEPT !.fitted = k - 1 \notin Throwing(kinds)]
                       ELSE DropOthers(Allocated, Inferred(kinds))[k]]
        /\ outcome' = IF Throwing(kinds) = {} THEN "fitted" ELSE "fit threw"
    BY Zenon, <1>6 DEF Fit, TypesAfter, CpdBefore, CpdUsed, Throwing, Reached
  <2>2. /\ TypesAfter(kinds) \in [1 .. numRaw -> FactorTypes \cup {Unknown}]
        /\ DropOthers(Allocated, Inferred(kinds)) \in [1 .. numRaw -> Cpds \cup {NoCpd}]
    <3>1. \A j \in DOMAIN Inferred(kinds) : Inferred(kinds)[j] \in FactorTypes \cup {Unknown}
      BY InferredTypes
    <3>2. QED BY <1>1, <1>2, <3>1, Retyping DEF TypesAfter
  <2>3. ASSUME NEW i \in Reached(kinds)
        PROVE  [CpdUsed(kinds, i) EXCEPT !.fitted = i \notin Throwing(kinds)] \in Cpds
    <3>1. CpdUsed(kinds, i) \in Cpds
      BY UsedCpd DEF Reached
    <3>2. (i \notin Throwing(kinds)) \in BOOLEAN
      OBVIOUS
    <3>3. QED BY <3>1, <3>2 DEF Cpds
  <2>4. cpds' \in [1 .. numRaw -> Cpds \cup {NoCpd}]
    BY <1>2, <2>1, <2>2, <2>3
  <2>5. Vectors'
    BY <1>3, <2>1, <2>2, <2>4 DEF Vectors
  <2>6. ASSUME NEW i \in Nat, i < numRaw
        PROVE  /\ Type(i)' = TypesAfter(kinds)[i + 1]
               /\ Cpd(i)' = IF i \in Reached(kinds)
                            THEN [CpdUsed(kinds, i) EXCEPT !.fitted = i \notin Throwing(kinds)]
                            ELSE CpdBefore(kinds, i)
    <3>1. i \in 0 .. numRaw - 1 /\ i + 1 \in 1 .. numRaw /\ (i + 1) - 1 = i
      BY <1>4, <2>6
    <3>2. cpds' # <<>>
      BY <1>1, <2>4, <3>1, SlotCpd
    <3>3. Cpd(i)' = cpds'[i + 1]
      BY <3>2 DEF Cpd
    <3>4. QED BY <1>2, <2>1, <3>1, <3>3 DEF Type, CpdBefore
  <2>7. QED BY <1>3, <1>6, <2>1, <2>5, <2>6
<1>7. QED BY <1>5, <1>6

LEMMA FitIInv ==
    ASSUME IInv, NEW kinds, Fit(kinds)
    PROVE  IInv'
<1>1. UNCHANGED <<graphVars, edits>> /\ Vectors' /\ outcome' \in Outcomes
  BY FitSlots DEF Outcomes
<1>2. \A i \in G!Live : i \in Nat /\ i < numRaw /\ (Cpd(i) # NoCpd => Cpd(i).type = Type(i))
  BY IInvParts DEF CpdsBelong
<1>3. CASE \A i \in Nat : i < numRaw => Type(i)' = Type(i) /\ Cpd(i)' = Cpd(i)
  BY <1>1, <1>2, <1>3, VectorStep
<1>4. CASE \A i \in Nat : i < numRaw =>
             /\ Type(i)' = TypesAfter(kinds)[i + 1]
             /\ Cpd(i)' = IF i \in Reached(kinds)
                          THEN [CpdUsed(kinds, i) EXCEPT !.fitted = i \notin Throwing(kinds)]
                          ELSE CpdBefore(kinds, i)
  <2>1. ASSUME NEW i \in Nat, i < numRaw, i \notin G!Live
        PROVE  Type(i)' = Type(i) /\ Cpd(i)' \in {Cpd(i), NoCpd}
    <3>1. i \in 0 .. numRaw - 1 /\ i \notin Reached(kinds) /\ i \notin DOMAIN Inferred(kinds)
      BY <2>1, IInvParts, InferredTypes DEF Reached, TypesFor
    <3>2. /\ Vectors /\ numRaw \in Nat
          /\ Allocated \in [1 .. numRaw -> Cpds \cup {NoCpd}] /\ Allocated[i + 1] = Cpd(i)
      BY <3>1, IInvParts, AllocatedCpds
    <3>3. \A j \in DOMAIN Inferred(kinds) : Inferred(kinds)[j] \in FactorTypes \cup {Unknown}
      BY InferredTypes
    <3>4. TypesAfter(kinds)[i + 1] = Type(i) /\ CpdBefore(kinds, i) = Cpd(i)
      BY <3>1, <3>2, <3>3, Retyping DEF TypesAfter, CpdBefore
    <3>5. QED BY <1>4, <2>1, <3>1, <3>4
  <2>2. ASSUME NEW i \in G!Live, Cpd(i)' # NoCpd PROVE Cpd(i)'.type = Type(i)'
    <3>1. /\ CpdUsed(kinds, i) \in Cpds /\ CpdUsed(kinds, i).type = TypesAfter(kinds)[i + 1]
          /\ CpdBefore(kinds, i) = Cpd(i)
          /\ Type(i) # Unknown => TypesAfter(kinds)[i + 1] = Type(i)
      BY UsedCpd
    <3>2. CASE i \in Reached(kinds)
      <4>1. [CpdUsed(kinds, i) EXCEPT !.fitted = i \notin Throwing(kinds)].type
               = CpdUsed(kinds, i).type
        BY <3>1 DEF Cpds
      <4>2. QED BY <1>2, <1>4, <3>1, <3>2, <4>1
    <3>3. CASE i \notin Reached(kinds)
      <4>1. Cpd(i) # NoCpd /\ Cpd(i).type = Type(i) /\ Cpd(i)' = Cpd(i)
        BY <1>2, <1>4, <2>2, <3>1, <3>3
      <4>2. Cpd(i) \in Cpds
        <5>1. Vectors /\ numRaw \in Nat /\ i \in 0 .. numRaw - 1
          BY IInvParts
        <5>2. Cpd(i) \in Cpds \cup {NoCpd}
          BY <5>1, AllocatedCpds
        <5>3. QED BY <4>1, <5>2
      <4>3. Type(i) # Unknown
        BY <4>1, <4>2, TypesAssumption DEF Cpds, FactorTypes
      <4>4. QED BY <1>2, <1>4, <3>1, <4>1, <4>3
    <3>4. QED BY <3>2, <3>3
  <2>3. QED BY <1>1, <2>1, <2>2, VectorStep
<1>5. QED BY <1>3, <1>4, FitSlots

-------------------------------------------------------------------------------
(* Copies through pickle.                                                  *)

\* A copy, or a constructor that throws.
LEMMA LoadEffect ==
    ASSUME IInv, NEW includeCpd, Load(includeCpd), NEW c, c = Cardinality(G!Live)
    PROVE  \/ /\ outcome' = "load threw" /\ UNCHANGED <<graphVars, nodeTypes, cpds, edits>>
              /\ Forbidden # {}
           \/ /\ outcome' = "loaded" /\ edits' = edits /\ Built'
              /\ numRaw' = c
              /\ name' = [i \in G!Idx |-> IF i < c THEN CopyNames[i + 1] ELSE NoName]
              /\ parents' = [i \in G!Idx |-> Into(i, CopyArcs)]
              /\ nodeTypes' = [k \in 1 .. c |-> Type(NodeOrder[k])]
              /\ \/ cpds' = <<>>
                 \/ cpds' = [k \in 1 .. c |-> IF Stores(NodeOrder[k]) THEN Cpd(NodeOrder[k])
                                              ELSE NoCpd]
<1>1. G!TypeOK /\ GraphSound
  BY IInvParts
<1>2. /\ Buildable(CopyNames, CopyArcs) /\ Len(CopyNames) = c
      /\ DOMAIN NodeOrder = 1 .. c
  BY <1>1, CopyBuildable, OrderOfNodes
<1> DEFINE accepted == /\ \A i \in G!Live : Type(i) # Unknown => Compatible(nodeTypes, i)
                       /\ includeCpd => \A i \in G!Live : Stores(i) => CompatibleCpd(Cpd(i), i)
<1>3. CASE accepted
  <2>1. PICK ns, as : ns = CopyNames /\ as = CopyArcs
    OBVIOUS
  <2>2. LET g == GraphOf(ns, as)
        IN  /\ numRaw' = g.numRaw /\ name' = g.name
            /\ parents' = g.parents /\ children' = g.children
            /\ indices' = g.indices /\ strings' = g.strings /\ collapsed' = g.indices
            /\ freeIndices' = <<>>
            /\ arcs' = as /\ roots' = g.roots /\ leaves' = g.leaves
    BY Zenon, <1>3, <2>1 DEF Load, CopyNames, CopyArcs
  <2>3. /\ nodeTypes' = [k \in 1 .. c |-> Type(NodeOrder[k])]
        /\ cpds' = IF includeCpd
                   THEN [k \in 1 .. c |-> IF Stores(NodeOrder[k]) THEN Cpd(NodeOrder[k])
                                         ELSE NoCpd]
                   ELSE <<>>
        /\ outcome' = "loaded" /\ edits' = edits
    BY <1>2, <1>3 DEF Load
  <2>4. IsGraphOf(ns, as)' /\ Buildable(ns, as)
    BY <1>2, <2>1, <2>2 DEF IsGraphOf
  <2>5. Built'
    BY <2>4 DEF Built
  <2>6. /\ numRaw' = c
        /\ name' = [i \in G!Idx |-> IF i < c THEN CopyNames[i + 1] ELSE NoName]
        /\ parents' = [i \in G!Idx |-> Into(i, CopyArcs)]
    BY <1>2, <2>1, <2>2 DEF GraphOf
  <2>7. QED BY <2>3, <2>5, <2>6
<1>4. CASE ~accepted
  <2>1. /\ outcome' = "load threw"
        /\ UNCHANGED <<numRaw, name, parents, children, indices, strings, collapsed,
                       freeIndices, arcs, roots, leaves, nodeTypes, cpds, edits>>
    BY Zenon, <1>4 DEF Load
  <2>2. PICK i \in G!Live : Type(i) # Unknown /\ ~Compatible(nodeTypes, i)
    BY <1>4 DEF Stores
  <2>3. PICK p \in parents[i] : Type(i) = Discrete /\ Type(p) # Discrete
    BY <2>2 DEF Compatible, Type
  <2>4. <<p, i>> \in arcs
    <3>1. i \in G!Idx /\ p \in G!Idx
      BY <1>1, <2>2, <2>3, NodeSlots DEF G!TypeOK
    <3>2. QED BY <1>1, <2>3, <3>1 DEF GraphSound, G!AdjacencyAgrees
  <2>5. <<p, i>> \in Forbidden
    BY <2>3, <2>4 DEF Forbidden
  <2>6. QED BY <2>1, <2>5 DEF graphVars
<1>5. QED BY <1>3, <1>4

LEMMA LoadIInv ==
    ASSUME IInv, NEW includeCpd, Load(includeCpd)
    PROVE  IInv'
<1>1. PICK c : c = Cardinality(G!Live)
  OBVIOUS
<1>2. /\ G!TypeOK /\ GraphSound /\ Vectors /\ CpdsBelong /\ numRaw \in Nat /\ edits \in Nat
      /\ \A i \in G!Live : i \in Nat /\ i < numRaw /\ i \in 0 .. numRaw - 1
  BY IInvParts
<1>3. c \in 0 .. MaxRaw /\ NodeOrder \in [1 .. c -> G!Live]
  BY <1>1, <1>2, OrderOfNodes
<1>4. ASSUME NEW o \in G!Live
      PROVE  /\ Type(o) \in FactorTypes \cup {Unknown} /\ Cpd(o) \in Cpds \cup {NoCpd}
             /\ Cpd(o) # NoCpd => Cpd(o).type = Type(o)
  BY <1>2, AllocatedCpds DEF CpdsBelong
<1>5. CASE outcome' = "load threw" /\ UNCHANGED <<graphVars, nodeTypes, cpds, edits>>
  <2>1. Vectors' /\ CpdsBelong' /\ edits' \in Nat /\ outcome' \in Outcomes
    BY <1>2, <1>5 DEF graphVars, Vectors, CpdsBelong, Type, Cpd, G!Live, Outcomes
  <2>2. G!TypeOK' /\ GraphSound'
    BY <1>2, <1>5, GraphEdited
  <2>3. QED BY <2>1, <2>2 DEF IInv, TypeOK, Vectors
<1>6. CASE /\ outcome' = "loaded" /\ edits' = edits /\ Built'
           /\ numRaw' = c
           /\ name' = [i \in G!Idx |-> IF i < c THEN CopyNames[i + 1] ELSE NoName]
           /\ parents' = [i \in G!Idx |-> Into(i, CopyArcs)]
           /\ nodeTypes' = [k \in 1 .. c |-> Type(NodeOrder[k])]
           /\ \/ cpds' = <<>>
              \/ cpds' = [k \in 1 .. c |-> IF Stores(NodeOrder[k]) THEN Cpd(NodeOrder[k])
                                           ELSE NoCpd]
  <2>1. G!TypeOK' /\ GraphSound'
    BY <1>6, BuiltSoundNext DEF BuiltNext
  <2>2. outcome' \in Outcomes /\ edits' \in Nat
    BY <1>2, <1>6 DEF Outcomes
  <2>3. Vectors'
    <3>1. \A k \in 1 .. c : NodeOrder[k] \in G!Live
      BY <1>3
    <3>2. \A k \in 1 .. c : /\ Type(NodeOrder[k]) \in FactorTypes \cup {Unknown}
                            /\ Cpd(NodeOrder[k]) \in Cpds \cup {NoCpd}
      BY <1>4, <3>1
    <3>3. nodeTypes' \in [1 .. c -> FactorTypes \cup {Unknown}]
      BY <1>6, <3>2
    <3>4. cpds' = <<>> \/ cpds' \in [1 .. c -> Cpds \cup {NoCpd}]
      BY <1>6, <3>2
    <3>5. QED BY <1>6, <3>3, <3>4 DEF Vectors
  <2>4. G!Live' = {i \in G!Idx : name'[i] # NoName} /\ \A i \in G!Idx : i \in Nat
    BY GraphAssumption DEF G!Live, G!Idx
  <2>5. \A k \in 1 .. c : CopyNames[k] \in Names
    BY <1>1, <1>2, CopyBuildable DEF Buildable
  <2>6. \A i \in Nat : i < c => i \in G!Idx /\ i + 1 \in 1 .. c
    BY <1>3, GraphAssumption DEF G!Idx
  <2>7. \A i \in Nat : i < c <=> i \in G!Live'
    BY <1>6, <2>4, <2>5, <2>6, GraphAssumption
  <2>8. ASSUME NEW i \in G!Live', Cpd(i)' # NoCpd PROVE Cpd(i)'.type = Type(i)'
    <3>1. i \in Nat /\ i + 1 \in 1 .. c
      BY <2>4, <2>6, <2>7
    <3>2. PICK o \in G!Live : o = NodeOrder[i + 1]
      BY <1>3, <3>1
    <3>3. Type(i)' = Type(o)
      BY <1>6, <3>1, <3>2 DEF Type
    <3>4. Cpd(i)' = Cpd(o)
      BY <1>6, <2>8, <3>1, <3>2 DEF Cpd
    <3>5. Cpd(o) # NoCpd
      BY <2>8, <3>4
    <3>6. Cpd(o).type = Type(o)
      BY <1>4, <3>5
    <3>7. QED BY <3>3, <3>4, <3>6
  <2>9. CpdsBelong'
    BY <1>3, <1>6, <2>7, <2>8, Belonging
  <2>10. QED BY <2>1, <2>2, <2>3, <2>9 DEF IInv, TypeOK, Vectors
<1>7. QED BY <1>1, <1>5, <1>6, LoadEffect

-------------------------------------------------------------------------------
(* The theorems.                                                           *)

LEMMA NextIInv == IInv /\ [Next]_vars => IInv'
<1> SUFFICES ASSUME IInv, [Next]_vars PROVE IInv'
  OBVIOUS
<1>1. CASE \/ \E n \in Names : AddNode(n)
           \/ \E i \in G!Idx : RemoveNode(i)
           \/ \E s, t \in G!Idx : AddArc(s, t) \/ RemoveArc(s, t) \/ FlipArc(s, t)
  BY <1>1, EditIInv
<1>2. CASE \E S \in SomeNodes : \E given \in [S -> FactorTypes \cup {Unknown}] : ForceTypes(given)
  BY <1>2, ForceTypesIInv DEF SomeNodes, TypesFor
<1>3. CASE \E kinds \in DataSets : ForceTypes(Inferred(kinds))
  BY <1>3, ForceTypesIInv, InferredTypes
<1>4. CASE \E S \in SomeNodes : \E shape \in [S -> Shapes] : AddCpds(Given(shape))
  BY <1>4, AddCpdsIInv, GivenCpds
<1>5. CASE \E kinds \in DataSets : Fit(kinds)
  BY <1>5, FitIInv
<1>6. CASE \E includeCpd \in BOOLEAN : Load(includeCpd)
  BY <1>6, LoadIInv
<1>7. CASE UNCHANGED vars
  <2>1. G!TypeOK' /\ GraphSound'
    BY <1>7, IInvParts, GraphEdited DEF vars, graphVars
  <2>2. QED BY <1>7, <2>1 DEF vars, IInv, TypeOK, CpdsBelong, Type, Cpd, G!Live
<1>8. QED BY <1>1, <1>2, <1>3, <1>4, <1>5, <1>6, <1>7 DEF Next

LEMMA NetworkInvariant == Spec => []IInv
BY InitIInv, NextIInv, PTL DEF Spec

\* The vectors of types and CPDs have a slot for each slot of the graph, whatever
\* is edited, given, fitted and copied.
THEOREM NetworkTyping == Spec => []TypeOK
<1>1. IInv => TypeOK
  BY DEF IInv
<1>2. QED BY <1>1, NetworkInvariant, PTL

\* The maps, adjacency sets, roots and leaves of the graph agree and it has no
\* cycle, also in a copy that gives the nodes other indices.
THEOREM NetworkGraphSound == Spec => []GraphSound
<1>1. IInv => GraphSound
  BY DEF IInv
<1>2. QED BY <1>1, NetworkInvariant, PTL

\* No slot keeps the type or the CPD of a node that was removed, and a CPD has
\* the type of its node.
THEOREM NetworkCpds == Spec => []CpdsBelong
<1>1. IInv => CpdsBelong
  BY DEF IInv
<1>2. QED BY <1>1, NetworkInvariant, PTL

-------------------------------------------------------------------------------
(* fit leaves nothing over and changes nothing that is current.            *)

\* Every other call says that it is another one.
LEMMA OtherOutcomes ==
    ASSUME [Next]_vars
    PROVE  \/ \E kinds \in DataSets : Fit(kinds)
           \/ outcome' \notin {"fitted", "fit threw"}
           \/ UNCHANGED vars
BY DEF Next, AddNode, RemoveNode, AddArc, RemoveArc, FlipArc, Edit, ForceTypes, AddCpds, Load

\* A fit that returns has left a current CPD and a type for each node.
LEMMA FitEffect ==
    ASSUME IInv, NEW kinds, Fit(kinds), outcome' = "fitted"
    PROVE  FitCompletes'
<1>1. /\ UNCHANGED graphVars /\ Throwing(kinds) = {}
      /\ \A i \in Nat : i < numRaw =>
            /\ Type(i)' = TypesAfter(kinds)[i + 1]
            /\ Cpd(i)' = IF i \in Reached(kinds)
                         THEN [CpdUsed(kinds, i) EXCEPT !.fitted = i \notin Throwing(kinds)]
                         ELSE CpdBefore(kinds, i)
  BY FitSlots
<1>2. Reached(kinds) = G!Live
  BY <1>1 DEF Reached
<1>3. G!Live' = G!Live /\ \A i \in G!Live : ParentNames(i)' = ParentNames(i)
  BY <1>1 DEF graphVars, G!Live, ParentNames
<1>4. ASSUME NEW i \in G!Live PROVE Type(i)' # Unknown /\ Current(i)'
  <2>1. i \in Nat /\ i < numRaw
    BY IInvParts
  <2>2. PICK c \in Cpds : c = CpdUsed(kinds, i)
    BY UsedCpd
  <2>3. c.evidence = ParentNames(i) /\ TypesAfter(kinds)[i + 1] \in FactorTypes
    BY <2>2, UsedCpd
  <2>4. Type(i)' = TypesAfter(kinds)[i + 1] /\ Cpd(i)' = [c EXCEPT !.fitted = TRUE]
    BY <1>1, <1>2, <2>1, <2>2
  <2>5. [c EXCEPT !.fitted = TRUE] \in Cpds
    BY DEF Cpds
  <2>6. [c EXCEPT !.fitted = TRUE].fitted /\ [c EXCEPT !.fitted = TRUE].evidence = c.evidence
    BY DEF Cpds
  <2>7. Cpd(i)' # NoCpd
    BY <2>4, <2>5, NoCpdAssumption
  <2>8. Type(i)' # Unknown
    BY <2>3, <2>4, TypesAssumption DEF FactorTypes
  <2>9. Cpd(i)'.fitted /\ Cpd(i)'.evidence = ParentNames(i)'
    BY <1>3, <2>3, <2>4, <2>6
  <2>10. QED BY <2>7, <2>8, <2>9 DEF Current
<1>5. QED BY <1>3, <1>4 DEF FitCompletes

LEMMA FitCompletesNext == IInv /\ FitCompletes /\ [Next]_vars => FitCompletes'
<1> SUFFICES ASSUME IInv, FitCompletes, [Next]_vars PROVE FitCompletes'
  OBVIOUS
<1>1. CASE \E kinds \in DataSets : Fit(kinds)
  BY <1>1, FitEffect DEF FitCompletes
<1>2. CASE outcome' \notin {"fitted", "fit threw"}
  BY <1>2 DEF FitCompletes
<1>3. CASE UNCHANGED vars
  BY <1>3 DEF vars, FitCompletes, Type, Cpd, G!Live, Current, ParentNames
<1>4. QED BY <1>1, <1>2, <1>3, OtherOutcomes

\* After a fit that returned, every node has a type and a fitted CPD with the
\* parents the node has as evidence, whatever happened before.
THEOREM NetworkFitted == Spec => []FitCompletes
<1>1. Init => FitCompletes
  BY DEF Init, FitCompletes
<1>2. QED BY <1>1, FitCompletesNext, NetworkInvariant, PTL DEF Spec

\* fit uses a current CPD as it is.
LEMMA CurrentUsed ==
    ASSUME IInv, NEW kinds, NEW i \in G!Live, Current(i)
    PROVE  /\ CpdUsed(kinds, i) = Cpd(i) /\ i \notin Throwing(kinds)
           /\ [Cpd(i) EXCEPT !.fitted = TRUE] = Cpd(i)
<1>1. i \in 0 .. numRaw - 1 /\ Vectors /\ CpdsBelong /\ numRaw \in Nat
  BY IInvParts
<1>2. Cpd(i) # NoCpd /\ Cpd(i).fitted /\ Cpd(i).evidence = ParentNames(i)
  BY DEF Current
<1>3. PICK c \in Cpds : c = Cpd(i)
  BY <1>1, <1>2, AllocatedCpds
<1>4. c.type = Type(i) /\ c.type \in FactorTypes
  BY <1>1, <1>2, <1>3 DEF CpdsBelong, Cpds
<1>5. Type(i) # Unknown
  BY <1>4, TypesAssumption DEF FactorTypes
<1>6. TypesAfter(kinds)[i + 1] = Type(i) /\ CpdBefore(kinds, i) = Cpd(i)
  BY <1>5, UsedCpd
<1>7. ~MustConstruct(c, i, TypesAfter(kinds))
  BY <1>2, <1>3, <1>4, <1>6 DEF MustConstruct
<1>8. CpdUsed(kinds, i) = Cpd(i)
  BY <1>3, <1>6, <1>7 DEF CpdUsed
<1>9. i \notin Throwing(kinds)
  BY <1>2, <1>8 DEF Throwing
<1>10. [c EXCEPT !.fitted = TRUE] = c
  BY <1>2, <1>3 DEF Cpds
<1>11. QED BY <1>3, <1>8, <1>9, <1>10

LEMMA FitKeeps ==
    ASSUME IInv, NEW kinds, Fit(kinds), NEW i \in G!Live
    PROVE  /\ Current(i) => Cpd(i)' = Cpd(i)
           /\ Type(i) # Unknown => Type(i)' = Type(i)
<1>1. i \in Nat /\ i < numRaw
  BY IInvParts
<1>2. CASE Type(i)' = Type(i) /\ Cpd(i)' = Cpd(i)
  BY <1>2
<1>3. CASE /\ Type(i)' = TypesAfter(kinds)[i + 1]
           /\ Cpd(i)' = IF i \in Reached(kinds)
                        THEN [CpdUsed(kinds, i) EXCEPT !.fitted = i \notin Throwing(kinds)]
                        ELSE CpdBefore(kinds, i)
  <2>1. Type(i) # Unknown => Type(i)' = Type(i)
    BY <1>3, UsedCpd
  <2>2. ASSUME Current(i) PROVE Cpd(i)' = Cpd(i)
    <3>1. /\ CpdUsed(kinds, i) = Cpd(i) /\ i \notin Throwing(kinds)
          /\ [Cpd(i) EXCEPT !.fitted = TRUE] = Cpd(i)
      BY <2>2, CurrentUsed
    <3>2. CpdBefore(kinds, i) = Cpd(i)
      BY UsedCpd
    <3>3. (i \notin Throwing(kinds)) = TRUE
      BY <3>1
    <3>4. QED BY <1>3, <3>1, <3>2, <3>3
  <2>3. QED BY <2>1, <2>2
<1>4. QED BY <1>1, <1>2, <1>3, FitSlots

\* A fit, also one that throws midway, changes no CPD that is current and no
\* type that is known.
THEOREM NetworkFitKeeps == Spec => FitKeepsFitted
<1> DEFINE Keeps == outcome' \in {"fitted", "fit threw"} =>
                      \A i \in G!Live : /\ Current(i) => Cpd(i)' = Cpd(i)
                                        /\ Type(i) # Unknown => Type(i)' = Type(i)
<1>1. IInv /\ [Next]_vars => [Keeps]_vars
  BY OtherOutcomes, FitKeeps
<1>2. FitKeepsFitted <=> [][Keeps]_vars
  BY DEF FitKeepsFitted
<1> HIDE DEF Keeps
<1>3. QED BY <1>1, <1>2, NetworkInvariant, PTL DEF Spec

-------------------------------------------------------------------------------
(* Forbidden arcs.                                                         *)

\* Both ends of an arc are nodes, and the source is a parent of the target.
LEMMA EndsOfArc ==
    ASSUME IInv, NEW a \in arcs
    PROVE  /\ a = <<a[1], a[2]>> /\ a[1] \in G!Live /\ a[2] \in G!Live
           /\ a[1] \in parents[a[2]]
<1>1. a \in G!Idx \X G!Idx /\ G!AdjacencyAgrees /\ G!TypeOK
  BY IInvParts DEF GraphSound, G!TypeOK
<1>2. a = <<a[1], a[2]>> /\ a[1] \in G!Idx /\ a[2] \in G!Idx
  BY <1>1
<1>3. a[1] \in parents[a[2]] /\ a[2] \in children[a[1]]
  BY <1>1, <1>2 DEF G!AdjacencyAgrees
<1>4. QED BY <1>1, <1>2, <1>3 DEF G!AdjacencyAgrees

\* New types that are allowed forbid an arc only through its source.
LEMMA RetypedForbids ==
    ASSUME IInv, NEW given, TypesFor(given), TypesAllowed(given), arcs' = arcs,
           \A i \in Nat : i < numRaw =>
              Type(i)' = IF i \in DOMAIN given THEN given[i] ELSE Type(i),
           NEW a \in Forbidden' \ Forbidden
    PROVE  Type(a[1])' # Type(a[1])
<1>1. a \in arcs /\ Type(a[2])' = Discrete /\ Type(a[1])' # Discrete
  BY DEF Forbidden
<1>2. PICK s, t : s = a[1] /\ t = a[2]
  OBVIOUS
<1>3. s \in G!Live /\ t \in G!Live /\ s \in parents[t] /\ G!TypeOK /\ GraphSound /\ Vectors
  BY <1>1, <1>2, EndsOfArc, IInvParts
<1>4. /\ s \in Nat /\ s < numRaw /\ t \in Nat /\ t < numRaw /\ numRaw \in Nat
      /\ s \in 0 .. numRaw - 1 /\ t \in 0 .. numRaw - 1
  BY <1>3, IInvParts
<1>5. ~(Type(t) = Discrete /\ Type(s) # Discrete)
  BY <1>1, <1>2 DEF Forbidden
<1> SUFFICES ASSUME Type(s)' = Type(s) PROVE FALSE
  BY <1>2
<1>6. Type(t)' = Discrete /\ Type(s) # Discrete /\ Type(t) # Discrete
  BY <1>1, <1>2, <1>5
<1>7. t \in DOMAIN given /\ given[t] = Discrete
  BY <1>4, <1>6
<1>8. Compatible(Retyped(given), t)
  BY <1>7, TypesAssumption DEF TypesAllowed
<1>9. \A i \in 0 .. numRaw - 1 :
         Retyped(given)[i + 1] = IF i \in DOMAIN given THEN given[i] ELSE Type(i)
  BY <1>3, <1>4, AllocatedCpds, Retyping DEF TypesFor
<1>10. Retyped(given)[t + 1] = Discrete
  BY <1>4, <1>7, <1>9
<1>11. Retyped(given)[s + 1] = Discrete
  BY <1>3, <1>8, <1>10 DEF Compatible
<1>12. Type(s)' = Discrete
  BY <1>4, <1>9, <1>11
<1>13. QED BY <1>6, <1>12

\* An arc is put in only where the types allow it.
LEMMA EditForbids ==
    ASSUME IInv, NEW a \in Forbidden' \ Forbidden,
           \/ \E n \in Names : AddNode(n)
           \/ \E i \in G!Idx : RemoveNode(i)
           \/ \E s, t \in G!Idx : AddArc(s, t) \/ RemoveArc(s, t) \/ FlipArc(s, t)
    PROVE  Type(a[1]) = Unknown \/ Type(a[1])' # Type(a[1])
<1>1. a \in arcs' /\ Type(a[2])' = Discrete /\ Type(a[1])' # Discrete
  BY DEF Forbidden
<1>2. a \in arcs => ~(Type(a[2]) = Discrete /\ Type(a[1]) # Discrete)
  BY DEF Forbidden
<1>3. a \in arcs => /\ a[1] \in G!Live /\ a[2] \in G!Live
                    /\ a[1] \in 0 .. numRaw - 1 /\ a[2] \in 0 .. numRaw - 1
  BY EndsOfArc, IInvParts
<1>4. CASE \E n \in Names : AddNode(n)
  <2>1. PICK n \in Names : AddNode(n)
    BY <1>4
  <2>2. PICK i : i = G!NewIndex
    OBVIOUS
  <2>3. arcs' = arcs
    BY <2>1 DEF AddNode, G!AddNode
  <2>4. i \notin G!Live /\ numRaw \in Nat /\ (numRaw' = numRaw \/ numRaw' = numRaw + 1)
    BY <2>1, <2>2, IInvParts, NewSlot DEF AddNode
  <2>5. \A j \in G!Live : Type(j)' = Type(j)
    <3>1. /\ Vectors'
          /\ Type(i)' = Unknown /\ Cpd(i)' = NoCpd
          /\ \A j \in Nat : j < numRaw' =>
                \/ j = i
                \/ j < numRaw /\ Type(j)' = Type(j) /\ Cpd(j)' = Cpd(j)
      BY <2>1, <2>2, AddNodeSlots
    <3>2. \A j \in G!Live : j \in Nat /\ j < numRaw'
      BY <2>4, IInvParts
    <3>3. QED BY <2>4, <3>1, <3>2
  <2>6. QED BY <1>1, <1>2, <1>3, <2>3, <2>5
<1>5. CASE \E i \in G!Idx : RemoveNode(i)
  <2>1. PICK i \in G!Idx : RemoveNode(i)
    BY <1>5
  <2>2. a \in arcs /\ a[1] # i /\ a[2] # i /\ nodeTypes' = [nodeTypes EXCEPT ![i + 1] = Unknown]
    BY <1>1, <2>1 DEF RemoveNode, G!RemoveNode, G!ArcsWithout
  <2>3. i \in G!Live /\ i \in Nat /\ a[1] \in Nat /\ a[2] \in Nat
    BY <1>3, <2>1, <2>2, IInvParts DEF RemoveNode, G!RemoveNode
  <2>4. a[1] + 1 # i + 1 /\ a[2] + 1 # i + 1
    BY <2>2, <2>3
  <2>5. a[1] + 1 \in DOMAIN nodeTypes /\ a[2] + 1 \in DOMAIN nodeTypes
    BY <1>3, <2>2, IInvParts, Slots DEF Vectors
  <2>6. Type(a[1])' = Type(a[1]) /\ Type(a[2])' = Type(a[2])
    BY <2>2, <2>4, <2>5 DEF Type
  <2>7. QED BY <1>1, <1>2, <2>2, <2>6
<1>6. CASE \E s, t \in G!Idx : AddArc(s, t) \/ RemoveArc(s, t) \/ FlipArc(s, t)
  <2>1. PICK s, t \in G!Idx : AddArc(s, t) \/ RemoveArc(s, t) \/ FlipArc(s, t)
    BY <1>6
  <2>2. nodeTypes' = nodeTypes
    BY <2>1 DEF AddArc, RemoveArc, FlipArc
  <2>3. \A j : Type(j)' = Type(j)
    BY <2>2 DEF Type
  <2>4. a \notin arcs
    BY <1>1, <1>2, <2>3
  <2>5. \/ a = <<s, t>> /\ CanHaveArc(s, t)
        \/ a = <<t, s>> /\ CanHaveArc(t, s)
    BY <1>1, <2>1, <2>4
       DEF AddArc, RemoveArc, FlipArc, G!AddArc, G!AddArcUnsafe, G!RemoveArc, G!FlipArc
  <2>6. CanHaveArc(a[1], a[2])
    BY <2>5
  <2>7. Type(a[1]) \in FactorTypes \cup {Unknown}
    <3>1. a[1] \in G!Live
      BY <2>1, <2>5 DEF AddArc, RemoveArc, FlipArc, G!AddArc, G!RemoveArc, G!FlipArc
    <3>2. QED BY <3>1, IInvParts, AllocatedCpds
  <2>8. QED BY <1>1, <2>3, <2>6, <2>7, TypesAssumption DEF CanHaveArc, FactorTypes
<1>7. QED BY <1>4, <1>5, <1>6

LEMMA OnlyByType ==
    ASSUME IInv, [Next]_vars, NEW a \in Forbidden' \ Forbidden, outcome' # "loaded"
    PROVE  Type(a[1]) = Unknown \/ Type(a[1])' # Type(a[1])
<1>1. CASE \/ \E n \in Names : AddNode(n)
           \/ \E i \in G!Idx : RemoveNode(i)
           \/ \E s, t \in G!Idx : AddArc(s, t) \/ RemoveArc(s, t) \/ FlipArc(s, t)
  BY <1>1, EditForbids
<1>2. ASSUME NEW given, TypesFor(given), ForceTypes(given) PROVE Type(a[1])' # Type(a[1])
  <2>1. /\ TypesAllowed(given) /\ arcs' = arcs
        /\ \A i \in Nat : i < numRaw =>
              Type(i)' = IF i \in DOMAIN given THEN given[i] ELSE Type(i)
    BY <1>2, ForceTypesSlots DEF ForceTypes
  <2>2. QED BY <1>2, <2>1, RetypedForbids
<1>3. CASE \E S \in SomeNodes : \E given \in [S -> FactorTypes \cup {Unknown}] : ForceTypes(given)
  BY <1>2, <1>3 DEF SomeNodes, TypesFor
<1>4. CASE \E kinds \in DataSets : ForceTypes(Inferred(kinds))
  BY <1>2, <1>4, InferredTypes
<1>5. CASE \E S \in SomeNodes : \E shape \in [S -> Shapes] : AddCpds(Given(shape))
  <2>1. PICK given : CpdsFor(given) /\ AddCpds(given)
    BY <1>5, GivenCpds
  <2>2. TypesFor(TypesOf(given))
    BY <2>1 DEF TypesFor, TypesOf, CpdsFor, Cpds
  <2>3. TypesAllowed(TypesOf(given)) /\ arcs' = arcs
    BY <2>1 DEF AddCpds, TypesOf
  <2>4. \A i \in Nat : i < numRaw =>
           Type(i)' = IF i \in DOMAIN TypesOf(given) THEN TypesOf(given)[i] ELSE Type(i)
    BY <2>1, AddCpdsSlots DEF TypesOf
  <2>5. QED BY <2>2, <2>3, <2>4, RetypedForbids
<1>6. CASE \E kinds \in DataSets : Fit(kinds)
  <2>1. PICK kinds \in DataSets : Fit(kinds)
    BY <1>6
  <2>2. arcs' = arcs /\ a \in arcs
    BY <2>1, FitSlots DEF graphVars, Forbidden
  <2>3. /\ a[1] \in Nat /\ a[1] < numRaw /\ a[2] \in Nat /\ a[2] < numRaw
    BY <2>2, EndsOfArc, IInvParts
  <2>4. CASE \A i \in Nat : i < numRaw => Type(i)' = Type(i) /\ Cpd(i)' = Cpd(i)
    BY <2>2, <2>3, <2>4 DEF Forbidden
  <2>5. CASE TypesAllowed(Inferred(kinds)) /\ nodeTypes' = TypesAfter(kinds)
    <3>1. TypesFor(Inferred(kinds)) /\ Vectors /\ numRaw \in Nat
      BY InferredTypes, IInvParts
    <3>2. \A i \in 0 .. numRaw - 1 :
             TypesAfter(kinds)[i + 1] = IF i \in DOMAIN Inferred(kinds)
                                        THEN Inferred(kinds)[i] ELSE Type(i)
      BY <3>1, AllocatedCpds, Retyping DEF TypesFor, TypesAfter
    <3>3. \A i \in Nat : i < numRaw =>
             Type(i)' = IF i \in DOMAIN Inferred(kinds) THEN Inferred(kinds)[i] ELSE Type(i)
      <4>1. \A i : Type(i)' = TypesAfter(kinds)[i + 1]
        BY <2>5 DEF Type
      <4>2. QED BY <3>1, <3>2, <4>1, Slots
    <3>4. QED BY <2>2, <2>5, <3>1, <3>3, RetypedForbids
  <2>6. QED BY <2>1, <2>4, <2>5, FitSlots
<1>7. CASE \E includeCpd \in BOOLEAN : Load(includeCpd)
  <2>1. UNCHANGED <<graphVars, nodeTypes>>
    <3>1. PICK includeCpd : Load(includeCpd)
      BY <1>7
    <3>2. PICK c : c = Cardinality(G!Live)
      OBVIOUS
    <3>3. QED BY <3>1, <3>2, LoadEffect
  <2>2. QED BY <2>1 DEF graphVars, Forbidden, Type
<1>8. CASE UNCHANGED vars
  BY <1>8 DEF vars, Forbidden, Type
<1>9. QED BY <1>1, <1>3, <1>4, <1>5, <1>6, <1>7, <1>8 DEF Next

\* An arc from a continuous node into a discrete one comes into being only when
\* its source gets another type or had none: no edit of the arcs, no fit and no
\* CPD given by hand makes one.
THEOREM NetworkForbidden == Spec => ForbiddenOnlyByType
<1> DEFINE Only == \A a \in Forbidden' \ Forbidden :
                      outcome' # "loaded" => Type(a[1]) = Unknown \/ Type(a[1])' # Type(a[1])
<1>1. IInv /\ [Next]_vars => [Only]_vars
  BY OnlyByType
<1>2. ForbiddenOnlyByType <=> [][Only]_vars
  BY DEF ForbiddenOnlyByType
<1> HIDE DEF Only
<1>3. QED BY <1>1, <1>2, NetworkInvariant, PTL DEF Spec

-------------------------------------------------------------------------------
(* Copies through pickle.                                                  *)

\* Where a node is in the copy: its name and its parents are there.
LEMMA CopyOfNode ==
    ASSUME IInv, NEW c, c = Cardinality(G!Live), Built',
           name' = [i \in G!Idx |-> IF i < c THEN CopyNames[i + 1] ELSE NoName],
           parents' = [i \in G!Idx |-> Into(i, CopyArcs)],
           NEW i \in G!Live, NEW j, j = NewIndexOf(i)
    PROVE  /\ j \in Nat /\ j + 1 \in 1 .. c
           /\ NodeOrder[j + 1] = i
           /\ indices'[name[i]] = j
           /\ ParentNames(j)' = ParentNames(i)
<1>1. G!TypeOK /\ GraphSound /\ G!TypeOK' /\ GraphSound'
  BY IInvParts, BuiltSoundNext DEF BuiltNext
<1>2. c \in 0 .. MaxRaw /\ NodeOrder \in [1 .. c -> G!Live]
  BY <1>1, OrderOfNodes
<1>3. \A k \in G!Live : /\ NewIndexOf(k) \in 0 .. c - 1 /\ NodeOrder[NewIndexOf(k) + 1] = k
                        /\ name[k] \in Names /\ parents[k] \subseteq G!Live
  BY <1>1, OrderOfNodes, NodeSlots
<1>4. \A r \in 0 .. c - 1 : r \in Nat /\ r < c /\ r \in G!Idx /\ r + 1 \in 1 .. c
  BY <1>2, GraphAssumption DEF G!Idx
<1>5. \A k \in G!Live : name'[NewIndexOf(k)] = name[k]
  <2>1. ASSUME NEW k \in G!Live PROVE name'[NewIndexOf(k)] = name[k]
    <3>1. PICK r \in 0 .. c - 1 : r = NewIndexOf(k) /\ NodeOrder[r + 1] = k
      BY <1>3
    <3>2. CopyNames[r + 1] = name[k]
      BY <1>2, <1>4, <3>1 DEF CopyNames
    <3>3. QED BY <1>4, <3>1, <3>2
  <2>2. QED BY <2>1
<1>6. j \in G!Live'
  <2>1. j \in G!Idx /\ name'[j] \in Names
    BY <1>3, <1>4, <1>5
  <2>2. QED BY <2>1, GraphAssumption DEF G!Live
<1>7. indices'[name[i]] = j
  <2>1. \A k \in G!Live' : indices'[name'[k]] = k
    BY <1>1 DEF GraphSound, G!IndexMapsAgree
  <2>2. QED BY <1>5, <1>6, <2>1
<1>8. parents'[j] = {NewIndexOf(q) : q \in parents[i]}
  <2>1. parents'[j] = Into(j, CopyArcs)
    BY <1>3, <1>4
  <2>2. ASSUME NEW x \in Into(j, CopyArcs)
        PROVE  x \in {NewIndexOf(q) : q \in parents[i]}
    <3>1. PICK b \in CopyArcs : b[2] = j /\ x = b[1]
      BY <2>2 DEF Into
    <3>2. PICK a \in arcs : b = <<NewIndexOf(a[1]), NewIndexOf(a[2])>>
      BY <3>1 DEF CopyArcs
    <3>3. a[2] \in G!Live /\ a[1] \in parents[a[2]]
      BY <3>2, EndsOfArc
    <3>4. a[2] = i
      BY <1>3, <3>1, <3>2, <3>3
    <3>5. QED BY <3>1, <3>2, <3>3, <3>4
  <2>3. ASSUME NEW q \in parents[i] PROVE NewIndexOf(q) \in Into(j, CopyArcs)
    <3>1. q \in G!Live /\ q \in G!Idx /\ i \in G!Idx
      BY <1>1, <1>3, <2>3, IInvParts
    <3>2. <<q, i>> \in arcs
      BY <1>1, <2>3, <3>1 DEF GraphSound, G!AdjacencyAgrees
    <3>3. <<NewIndexOf(q), NewIndexOf(i)>> \in CopyArcs
      BY <3>2 DEF CopyArcs
    <3>4. QED BY <3>3 DEF Into
  <2>4. QED BY <2>1, <2>2, <2>3
<1>9. ParentNames(j)' = {name'[r] : r \in parents'[j]}
  BY DEF ParentNames
<1>10. {name'[r] : r \in {NewIndexOf(q) : q \in parents[i]}} = {name[q] : q \in parents[i]}
  <2>1. \A q \in parents[i] : name'[NewIndexOf(q)] = name[q]
    BY <1>3, <1>5
  <2>2. QED BY <2>1
<1>11. ParentNames(j)' = ParentNames(i)
  BY <1>8, <1>9, <1>10 DEF ParentNames
<1>12. j \in Nat /\ j + 1 \in 1 .. c /\ NodeOrder[j + 1] = i
  BY <1>3, <1>4
<1>13. QED BY <1>7, <1>11, <1>12

\* What the copy holds for each node, and the names it has.
LEMMA CopyEffect ==
    ASSUME IInv, NEW includeCpd, Load(includeCpd), outcome' = "loaded"
    PROVE  /\ DOMAIN indices' = DOMAIN indices
           /\ \A i \in G!Live : \A j \in {indices'[name[i]]} :
                 /\ Type(j)' = Type(i)
                 /\ ParentNames(j)' = ParentNames(i)
           /\ \/ \A j \in G!Live' : Cpd(j)' = NoCpd
              \/ \A i \in G!Live : \A j \in {indices'[name[i]]} : Current(i) => Cpd(j)' = Cpd(i)
<1>1. PICK c : c = Cardinality(G!Live)
  OBVIOUS
<1>2. /\ Built' /\ numRaw' = c
      /\ name' = [i \in G!Idx |-> IF i < c THEN CopyNames[i + 1] ELSE NoName]
      /\ parents' = [i \in G!Idx |-> Into(i, CopyArcs)]
      /\ nodeTypes' = [k \in 1 .. c |-> Type(NodeOrder[k])]
      /\ \/ cpds' = <<>>
         \/ cpds' = [k \in 1 .. c |-> IF Stores(NodeOrder[k]) THEN Cpd(NodeOrder[k]) ELSE NoCpd]
  BY <1>1, LoadEffect
<1>3. ASSUME NEW i \in G!Live
      PROVE  \E j : /\ j = indices'[name[i]] /\ j \in Nat /\ j + 1 \in 1 .. c
                    /\ NodeOrder[j + 1] = i /\ ParentNames(j)' = ParentNames(i)
  <2>1. PICK j : j = NewIndexOf(i)
    OBVIOUS
  <2>2. /\ j \in Nat /\ j + 1 \in 1 .. c
        /\ NodeOrder[j + 1] = i
        /\ indices'[name[i]] = j
        /\ ParentNames(j)' = ParentNames(i)
    BY <1>1, <1>2, <2>1, CopyOfNode
  <2>3. QED BY <2>2
<1>4. ASSUME NEW i \in G!Live, NEW j \in {indices'[name[i]]}
      PROVE  /\ Type(j)' = Type(i) /\ ParentNames(j)' = ParentNames(i)
             /\ cpds' = <<>> \/ (Current(i) => Cpd(j)' = Cpd(i))
  <2>1. j + 1 \in 1 .. c /\ NodeOrder[j + 1] = i /\ ParentNames(j)' = ParentNames(i)
    BY <1>3
  <2>2. Type(j)' = Type(i)
    BY <1>2, <2>1 DEF Type
  <2>3. ASSUME cpds' # <<>>, Current(i) PROVE Cpd(j)' = Cpd(i)
    <3>1. Cpd(i) # NoCpd /\ Cpd(i).evidence = ParentNames(i) /\ Cpd(i).type = Type(i)
      BY <2>3, IInvParts DEF Current, CpdsBelong
    <3>2. Stores(i)
      BY <3>1 DEF Stores, CompatibleCpd
    <3>3. QED BY <1>2, <2>1, <2>3, <3>2 DEF Cpd
  <2>4. QED BY <2>1, <2>2, <2>3
<1>5. DOMAIN indices' = DOMAIN indices
  <2>1. /\ G!TypeOK /\ G!IndexMapsAgree /\ G!TypeOK' /\ G!IndexMapsAgree'
    BY <1>2, IInvParts, BuiltSoundNext DEF BuiltNext, GraphSound
  <2>2. /\ DOMAIN indices = {name[i] : i \in G!Live}
        /\ DOMAIN indices' = {name'[j] : j \in G!Live'}
    <3>1. \A n \in DOMAIN indices : indices[n] \in G!Live
      BY <2>1, GraphAssumption DEF G!TypeOK, G!IndexMapsAgree, G!Live
    <3>2. \A n \in DOMAIN indices' : indices'[n] \in G!Live'
      BY <2>1, GraphAssumption DEF G!TypeOK, G!IndexMapsAgree, G!Live
    <3>3. \A i \in G!Live : name[i] \in DOMAIN indices
      BY <2>1 DEF G!IndexMapsAgree
    <3>4. \A n \in DOMAIN indices : name[indices[n]] = n
      BY <2>1 DEF G!IndexMapsAgree
    <3>5. DOMAIN indices = {name[i] : i \in G!Live}
      BY <3>1, <3>3, <3>4
    <3>6. \A i \in G!Live' : name'[i] \in DOMAIN indices'
      BY <2>1 DEF G!IndexMapsAgree
    <3>7. \A n \in DOMAIN indices' : name'[indices'[n]] = n
      BY <2>1 DEF G!IndexMapsAgree
    <3>8. DOMAIN indices' = {name'[i] : i \in G!Live'}
      BY <3>2, <3>6, <3>7
    <3>9. QED BY <3>5, <3>8
  <2>3. c \in 0 .. MaxRaw /\ NodeOrder \in [1 .. c -> G!Live]
    BY <1>1, <2>1, OrderOfNodes
  <2>4. \A k \in G!Live : \E r \in 0 .. c - 1 : NodeOrder[r + 1] = k
    BY <1>1, <2>1, OrderOfNodes
  <2>5. \A r \in 0 .. c - 1 : r + 1 \in 1 .. c /\ r \in G!Idx /\ r < c
    BY <2>3, GraphAssumption DEF G!Idx
  <2>6. \A r \in 0 .. c - 1 : name'[r] = name[NodeOrder[r + 1]]
    BY <1>2, <2>3, <2>5 DEF CopyNames
  <2>7. \A k \in G!Live : name[k] \in Names
    BY IInvParts, NodeSlots
  <2>8. \A r \in G!Idx : r \in G!Live' <=> r \in 0 .. c - 1
    <3>1. \A r \in G!Idx : r < c <=> r \in 0 .. c - 1
      BY <2>3, GraphAssumption DEF G!Idx
    <3>2. \A r \in 0 .. c - 1 : name'[r] \in Names
      BY <2>3, <2>5, <2>6, <2>7
    <3>3. QED BY <1>2, <3>1, <3>2, GraphAssumption DEF G!Live
  <2>9. G!Live' = 0 .. c - 1
    BY <2>5, <2>8 DEF G!Live
  <2>10. \A r \in 0 .. c - 1 : NodeOrder[r + 1] \in G!Live
    BY <2>3, <2>5
  <2>11. QED BY <2>2, <2>4, <2>6, <2>9, <2>10
<1>6. (\A j : Cpd(j)' = NoCpd) \/ cpds' # <<>>
  BY DEF Cpd
<1>7. QED BY <1>4, <1>5, <1>6

\* A copy through pickle is the network node by node, and it keeps every CPD that
\* is current or none at all; it fails only where an arc is forbidden.
THEOREM NetworkCopies == Spec => LoadFaithful
<1> DEFINE Copies ==
       /\ outcome' = "loaded" =>
            /\ DOMAIN indices' = DOMAIN indices
            /\ \A i \in G!Live : \A j \in {indices'[name[i]]} :
                  /\ Type(j)' = Type(i)
                  /\ ParentNames(j)' = ParentNames(i)
            /\ \/ \A j \in G!Live' : Cpd(j)' = NoCpd
               \/ \A i \in G!Live : \A j \in {indices'[name[i]]} : Current(i) => Cpd(j)' = Cpd(i)
       /\ outcome' = "load threw" => Forbidden # {}
<1>1. ASSUME IInv, Next PROVE Copies
  <2>1. CASE \E includeCpd \in BOOLEAN : Load(includeCpd)
    <3>1. PICK includeCpd : Load(includeCpd)
      BY <2>1
    <3>2. outcome' = "load threw" => Forbidden # {}
      <4>1. PICK c : c = Cardinality(G!Live)
        OBVIOUS
      <4>2. QED BY <1>1, <3>1, <4>1, LoadEffect
    <3>3. QED BY <1>1, <3>1, <3>2, CopyEffect
  <2>2. CASE ~\E includeCpd \in BOOLEAN : Load(includeCpd)
    <3>1. outcome' \notin {"loaded", "load threw"}
      BY <1>1, <2>2 DEF Next, AddNode, RemoveNode, AddArc, RemoveArc, FlipArc, Edit,
                        ForceTypes, AddCpds, Fit
    <3>2. QED BY <3>1
  <2>3. QED BY <2>1, <2>2
<1>2. LoadFaithful <=> [][Copies]_vars
  BY DEF LoadFaithful
<1> HIDE DEF Copies
<1>3. IInv /\ [Next]_vars => [Copies]_vars
  BY <1>1
<1>4. QED BY <1>2, <1>3, NetworkInvariant, PTL DEF Spec
===============================================================================
