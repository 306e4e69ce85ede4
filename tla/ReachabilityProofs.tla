-------------------------- MODULE ReachabilityProofs --------------------------
(***************************************************************************)
(* Lemmas about Reachability for every node set and every graph: what an   *)
(* arc may be added to, and when a search may be skipped.                  *)
(***************************************************************************)
EXTENDS Reachability, FiniteSetTheorems, WellFoundedInduction, TLAPS

\* A closure contains its seeds, is closed, and is the least set that does.
LEMMA ClosureIsClosed ==
    ASSUME NEW N, NEW ch \in [N -> SUBSET N], NEW S \in SUBSET N
    PROVE  /\ S \subseteq Closure(N, ch, S)
           /\ Closure(N, ch, S) \in SUBSET N
           /\ IsClosed(ch, Closure(N, ch, S))
<1>1. S \subseteq Closure(N, ch, S) /\ Closure(N, ch, S) \in SUBSET N
  BY DEF Closure
<1>2. ASSUME NEW n \in Closure(N, ch, S), NEW m \in ch[n]
      PROVE  m \in Closure(N, ch, S)
  BY <1>2 DEF Closure, IsClosed
<1>3. QED BY <1>1, <1>2 DEF IsClosed

LEMMA ClosureIsLeast ==
    ASSUME NEW N, NEW ch, NEW S, NEW C \in SUBSET N, S \subseteq C,
           IsClosed(ch, C)
    PROVE  Closure(N, ch, S) \subseteq C
BY DEF Closure

\* No path leads to a node without parents: the shortcut num_parents == 0.
LEMMA NoParentsNoPath ==
    ASSUME NEW N, NEW ch \in [N -> SUBSET N], NEW t \in N, NEW s \in N,
           \A n \in N : s \notin ch[n]
    PROVE  ~HasPath(N, ch, t, s)
<1>1. ch[t] \subseteq N \ {s} /\ IsClosed(ch, N \ {s})
  BY DEF IsClosed
<1>2. Closure(N, ch, ch[t]) \subseteq N \ {s}
  BY <1>1, ClosureIsLeast
<1>3. QED BY <1>2 DEF HasPath

\* No path leads out of a node without children: the shortcut num_children == 0.
LEMMA NoChildrenNoPath ==
    ASSUME NEW N, NEW ch, NEW t \in N, NEW s \in N, ch[t] = {}
    PROVE  ~HasPath(N, ch, t, s)
<1>1. IsClosed(ch, {})
  BY DEF IsClosed
<1>2. Closure(N, ch, ch[t]) \subseteq {}
  BY <1>1, ClosureIsLeast
<1>3. QED BY <1>2 DEF HasPath

\* Removing arcs never closes a cycle.
LEMMA SubgraphAcyclic ==
    ASSUME NEW N, NEW ch, NEW sub, Acyclic(N, ch),
           \A n \in N : sub[n] \subseteq ch[n]
    PROVE  Acyclic(N, sub)
<1>1. ASSUME NEW S \in SUBSET N, S # {}
      PROVE  \E n \in S : sub[n] \cap S = {}
  <2>1. PICK n \in S : ch[n] \cap S = {}
    BY <1>1 DEF Acyclic
  <2>2. QED BY <2>1
<1>2. QED BY <1>1 DEF Acyclic

\* An arc s -> t closes no cycle when no path leads from t to s.
LEMMA AddArcAcyclic ==
    ASSUME NEW N, NEW ch \in [N -> SUBSET N], NEW s \in N, NEW t \in N,
           Acyclic(N, ch), s # t, ~HasPath(N, ch, t, s)
    PROVE  Acyclic(N, [ch EXCEPT ![s] = @ \cup {t}])
<1> DEFINE new == [ch EXCEPT ![s] = @ \cup {t}]
           R == {t} \cup Closure(N, ch, ch[t])
<1>1. s \notin R
  BY DEF HasPath
<1>2. R \in SUBSET N /\ \A n \in R : ch[n] \subseteq R
  BY ClosureIsClosed DEF IsClosed
<1>3. ASSUME NEW S \in SUBSET N, S # {}
      PROVE  \E n \in S : new[n] \cap S = {}
  <2>1. CASE S \cap R # {}
    <3>1. PICK n \in S \cap R : ch[n] \cap (S \cap R) = {}
      BY <2>1 DEF Acyclic
    <3>2. new[n] = ch[n]
      BY <3>1, <1>1, <1>2
    <3>3. QED BY <3>1, <3>2, <1>2
  <2>2. CASE S \cap R = {}
    <3>1. PICK n \in S : ch[n] \cap S = {}
      BY <1>3 DEF Acyclic
    <3>2. new[n] \subseteq ch[n] \cup {t} /\ t \notin S
      BY <2>2
    <3>3. QED BY <3>1, <3>2
  <2>3. QED BY <2>1, <2>2
<1>4. QED BY <1>3 DEF Acyclic

\* A path of one arc or more goes through a child of its first node.
LEMMA PathThroughChild ==
    ASSUME NEW N, NEW ch \in [N -> SUBSET N], NEW n \in N, NEW s \in N,
           s \in Closure(N, ch, {n}), s # n
    PROVE  \E m \in ch[n] : s \in Closure(N, ch, {m})
<1> DEFINE C == {n} \cup {x \in N : \E m \in ch[n] : x \in Closure(N, ch, {m})}
<1>1. \A m \in ch[n] : m \in C
  BY ClosureIsClosed
<1>2. ASSUME NEW x \in C, NEW y \in ch[x], x # n
      PROVE  y \in C
  <2>1. PICK m \in ch[n] : x \in Closure(N, ch, {m})
    BY <1>2
  <2>2. y \in Closure(N, ch, {m}) /\ y \in N
    BY <2>1, ClosureIsClosed, {m} \in SUBSET N DEF IsClosed
  <2>3. QED BY <2>1, <2>2
<1>3. C \in SUBSET N /\ {n} \subseteq C /\ IsClosed(ch, C)
  BY <1>1, <1>2 DEF IsClosed
<1>4. s \in C
  BY <1>3, ClosureIsLeast
<1>5. QED BY <1>4

\* An arc s -> t closes a cycle when a path leads from t to s.
LEMMA AddArcCycle ==
    ASSUME NEW N, NEW ch \in [N -> SUBSET N], NEW s \in N, NEW t \in N,
           HasPath(N, ch, t, s)
    PROVE  ~Acyclic(N, [ch EXCEPT ![s] = @ \cup {t}])
<1> DEFINE new == [ch EXCEPT ![s] = @ \cup {t}]
           D == Closure(N, ch, {t})
           S == {n \in D : s \in Closure(N, ch, {n})}
<1>1. D \in SUBSET N /\ t \in D /\ IsClosed(ch, D)
  BY ClosureIsClosed, {t} \in SUBSET N
<1>2. s \in D
  <2>1. ch[t] \subseteq D
    BY <1>1 DEF IsClosed
  <2>2. Closure(N, ch, ch[t]) \subseteq D
    BY <2>1, <1>1, ClosureIsLeast
  <2>3. QED BY <2>2 DEF HasPath
<1>3. s \in S /\ t \in S
  BY <1>1, <1>2, ClosureIsClosed, {s} \in SUBSET N
<1>4. ASSUME NEW n \in S
      PROVE  new[n] \cap S # {}
  <2>1. CASE n = s
    BY <2>1, <1>3
  <2>2. CASE n # s
    <3>1. PICK m \in ch[n] : s \in Closure(N, ch, {m})
      BY <2>2, <1>1, PathThroughChild
    <3>2. m \in S
      BY <3>1, <1>1 DEF IsClosed
    <3>3. m \in new[n]
      BY <3>1, <2>2, <1>1
    <3>4. QED BY <3>2, <3>3
  <2>3. QED BY <2>1, <2>2
<1>5. S \in SUBSET N /\ S # {}
  BY <1>1, <1>3
<1>6. QED BY <1>4, <1>5 DEF Acyclic

\* A nonempty set of naturals has a least member.
LEMMA LeastNatural ==
    ASSUME NEW T \in SUBSET Nat, T # {}
    PROVE  \E x \in T : \A y \in T : x <= y
<1> DEFINE R == {ss \in Nat \X Nat : ss[1] < ss[2]}
<1>1. IsWellFoundedOn(R, Nat)
  BY NatLessThanWellFounded DEF OpToRel
<1>2. PICK x \in T : \A y \in T : ~(<<y, x>> \in R)
  <2> HIDE DEF R
  <2>1. QED BY <1>1, WFMin
<1>3. \A y \in T : ~(y < x)
  BY <1>2
<1>4. QED BY <1>3

\* Sets are not removed from one by one for ever: of the sets in B one has no
\* member whose removal gives a set in B.
LEMMA MinimalSet ==
    ASSUME NEW D, IsFiniteSet(D), NEW B \in SUBSET SUBSET D, B # {}
    PROVE  \E T \in B : \A x \in T : T \ {x} \notin B
<1> DEFINE Sizes == {Cardinality(T) : T \in B}
<1>1. \A T \in B : IsFiniteSet(T) /\ Cardinality(T) \in Nat
  BY FS_Subset, FS_CardinalityType
<1>2. PICK T \in B : \A U \in B : Cardinality(T) <= Cardinality(U)
  <2>1. Sizes \in SUBSET Nat /\ Sizes # {}
    BY <1>1
  <2>2. PICK n \in Sizes : \A k \in Sizes : n <= k
    <3> HIDE DEF Sizes
    <3>1. QED BY <2>1, LeastNatural
  <2>3. QED BY <2>2
<1>3. ASSUME NEW x \in T, T \ {x} \in B
      PROVE  FALSE
  <2>1. Cardinality(T \ {x}) = Cardinality(T) - 1 /\ Cardinality(T) \in Nat
    BY <1>1, FS_RemoveElement
  <2>2. QED BY <1>2, <1>3, <2>1
<1>4. QED BY <1>2, <1>3

\* In a finite acyclic graph every nonempty set of nodes has a member that is
\* the child of no other: topological sorting always finds a next node.
LEMMA AcyclicHasSource ==
    ASSUME NEW N, IsFiniteSet(N), NEW ch, Acyclic(N, ch),
           NEW S \in SUBSET N, S # {}
    PROVE  \E n \in S : \A m \in S : n \notin ch[m]
<1> DEFINE Bad == {D \in SUBSET N : D # {} /\ \A n \in D : \E m \in D : n \in ch[m]}
           Sizes == {Cardinality(D) : D \in Bad}
<1>1. SUFFICES ASSUME S \in Bad PROVE FALSE
  OBVIOUS
<1>2. \A D \in Bad : IsFiniteSet(D) /\ Cardinality(D) \in Nat
  BY FS_Subset, FS_CardinalityType
<1>3. Sizes \in SUBSET Nat /\ Sizes # {}
  BY <1>1, <1>2
<1>4. PICK D \in Bad : \A E \in Bad : Cardinality(D) <= Cardinality(E)
  <2> HIDE DEF Sizes
  <2>1. PICK k \in Sizes : \A y \in Sizes : k <= y
    BY <1>3, LeastNatural
  <2>2. QED BY <2>1 DEF Sizes
<1>5. PICK s \in D : ch[s] \cap D = {}
  BY <1>4 DEF Acyclic
<1>6. D \ {s} \in Bad
  BY <1>4, <1>5
<1>7. /\ Cardinality(D \ {s}) = Cardinality(D) - 1 /\ Cardinality(D) \in Nat
      /\ Cardinality(D) <= Cardinality(D \ {s})
  <2> HIDE DEF Bad
  <2>1. IsFiniteSet(D) /\ Cardinality(D) \in Nat
    BY <1>2, <1>4
  <2>2. Cardinality(D \ {s}) = Cardinality(D) - 1
    BY <2>1, <1>5, FS_RemoveElement
  <2>3. QED BY <2>1, <2>2, <1>4, <1>6
<1>8. QED BY <1>7

===============================================================================
