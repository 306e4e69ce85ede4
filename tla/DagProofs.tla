------------------------------- MODULE DagProofs -------------------------------
(***************************************************************************)
(* Theorems about Dag for every set of names and every bound on the slots. *)
(* IInv is inductive: the three index maps, the free slots, the three      *)
(* copies of the arcs, the roots and leaves and acyclicity need each other *)
(* (a reused slot must carry no arc; a removed arc must be in every copy). *)
(***************************************************************************)
EXTENDS Dag, ReachabilityProofs, SequenceTheorems

IInv ==
    /\ TypeOK
    /\ IndexMapsAgree
    /\ FreeSlotsExact
    /\ AdjacencyAgrees
    /\ RootsLeavesExact
    /\ ArcsAcyclic

\* The empty graph satisfies the invariant.
LEMMA InitIInv == Init => IInv
<1> SUFFICES ASSUME Init PROVE IInv
  OBVIOUS
<1> USE MaxRawAssumption, NoNameAssumption DEF Init
<1>1. Live = {}
  BY DEF Live
<1>2. TypeOK
  BY DEF TypeOK, Idx
<1>3. IndexMapsAgree
  BY <1>1 DEF IndexMapsAgree
<1>4. FreeSlotsExact
  BY <1>1 DEF FreeSlotsExact, Idx
<1>5. AdjacencyAgrees
  BY DEF AdjacencyAgrees
<1>6. RootsLeavesExact
  BY <1>1 DEF RootsLeavesExact
<1>7. ArcsAcyclic
  BY DEF ArcsAcyclic, Acyclic
<1>8. QED BY <1>2, <1>3, <1>4, <1>5, <1>6, <1>7 DEF IInv

-------------------------------------------------------------------------------
(* The slots of the nodes.                                                 *)

\* The slot a new node gets is in use by no node and touched by no arc.
LEMMA NewIndexUnused ==
    ASSUME IInv, NewIndex < MaxRaw
    PROVE  /\ NewIndex \in Idx /\ NewIndex \notin Live
           /\ \A j \in Idx : NewIndex \notin parents[j] /\ NewIndex \notin children[j]
           /\ parents[NewIndex] = {} /\ children[NewIndex] = {}
           /\ \A a \in arcs : a[1] # NewIndex /\ a[2] # NewIndex
<1> USE MaxRawAssumption DEF IInv
<1>1. NewIndex \in Idx /\ NewIndex \notin Live
  BY DEF NewIndex, TypeOK, FreeSlotsExact, Idx, Live
<1>2. \A j \in Idx : NewIndex \notin parents[j] /\ NewIndex \notin children[j]
  BY <1>1 DEF AdjacencyAgrees
<1>3. parents[NewIndex] = {} /\ children[NewIndex] = {}
  <2>1. \A j \in Idx : j \notin parents[NewIndex] /\ j \notin children[NewIndex]
    BY <1>1 DEF AdjacencyAgrees
  <2>2. parents[NewIndex] \subseteq Idx /\ children[NewIndex] \subseteq Idx
    BY <1>1 DEF TypeOK
  <2>3. QED BY <2>1, <2>2
<1>4. \A a \in arcs : a[1] # NewIndex /\ a[2] # NewIndex
  BY <1>1 DEF AdjacencyAgrees
<1>5. QED BY <1>1, <1>2, <1>3, <1>4

\* A vector without its last element.
LEMMA PopBack ==
    ASSUME NEW S, NEW q \in Seq(S), q # <<>>
    PROVE  /\ Len(q) \in Nat \ {0}
           /\ SubSeq(q, 1, Len(q) - 1) \in Seq(S)
           /\ Len(SubSeq(q, 1, Len(q) - 1)) = Len(q) - 1
           /\ \A k \in 1 .. Len(q) - 1 : SubSeq(q, 1, Len(q) - 1)[k] = q[k]
<1>1. Len(q) \in Nat \ {0}
  OBVIOUS
<1>2. \A k \in 1 .. Len(q) - 1 : q[k] \in S
  BY <1>1
<1> DEFINE l == Len(q) - 1
<1>3. l \in Nat
  BY <1>1
<1> HIDE DEF l
<1>4. /\ SubSeq(q, 1, l) \in Seq(S)
      /\ Len(SubSeq(q, 1, l)) = IF 1 <= l THEN l - 1 + 1 ELSE 0
      /\ \A k \in 1 .. l - 1 + 1 : SubSeq(q, 1, l)[k] = q[1 + k - 1]
  <2>1. \A k \in 1 .. l : q[k] \in S
    BY <1>2 DEF l
  <2>2. QED BY <2>1, <1>3, SubSeqProperties
<1>5. /\ Len(SubSeq(q, 1, l)) = l
      /\ \A k \in 1 .. l : SubSeq(q, 1, l)[k] = q[k]
  BY <1>3, <1>4
<1>6. QED BY <1>1, <1>4, <1>5 DEF l

\* What TakeSlot does to the stack of free slots.
LEMMA TakeSlotEffect ==
    ASSUME IInv, TakeSlot, NewIndex < MaxRaw
    PROVE  /\ freeIndices' \in Seq(Idx)
           /\ numRaw' \in 0 .. MaxRaw /\ numRaw <= numRaw' /\ NewIndex < numRaw'
           /\ \/ /\ freeIndices = <<>> /\ freeIndices' = <<>>
                 /\ numRaw' = numRaw + 1 /\ NewIndex = numRaw
              \/ /\ Len(freeIndices') = Len(freeIndices) - 1
                 /\ Len(freeIndices) \in Nat \ {0}
                 /\ \A k \in 1 .. Len(freeIndices) - 1 : freeIndices'[k] = freeIndices[k]
                 /\ NewIndex = freeIndices[Len(freeIndices)]
                 /\ numRaw' = numRaw
<1> USE MaxRawAssumption DEF IInv, TypeOK
<1>1. CASE freeIndices = <<>>
  BY <1>1 DEF TakeSlot, NewIndex
<1>2. CASE freeIndices # <<>>
  <2>1. Len(freeIndices) \in Nat \ {0}
    BY <1>2
  <2>2. /\ freeIndices' = SubSeq(freeIndices, 1, Len(freeIndices) - 1)
        /\ numRaw' = numRaw /\ NewIndex = freeIndices[Len(freeIndices)]
    BY <1>2 DEF TakeSlot, NewIndex
  <2>3. /\ freeIndices' \in Seq(Idx)
        /\ Len(freeIndices') = Len(freeIndices) - 1
        /\ \A k \in 1 .. Len(freeIndices) - 1 : freeIndices'[k] = freeIndices[k]
    BY <1>2, <2>2, PopBack
  <2>4. NewIndex < numRaw
    BY <2>1, <2>2 DEF FreeSlotsExact
  <2>5. QED BY <2>1, <2>2, <2>3, <2>4
<1>3. QED BY <1>1, <1>2

(* The bidirectional map of the names.                                     *)

\* strings and collapsed are inverse to each other.
ElemsAgree ==
    /\ strings \in Seq(Names)
    /\ DOMAIN collapsed \subseteq Names
    /\ \A n \in DOMAIN collapsed :
          collapsed[n] \in 0 .. Len(strings) - 1 /\ strings[collapsed[n] + 1] = n
    /\ \A k \in 1 .. Len(strings) :
          strings[k] \in DOMAIN collapsed /\ collapsed[strings[k]] = k - 1

\* insert() keeps the two halves of the bidirectional map inverse to each other.
LEMMA InsertElemAgrees ==
    ASSUME ElemsAgree, NEW e \in Names, e \notin DOMAIN collapsed, InsertElem(e)
    PROVE  ElemsAgree' /\ DOMAIN collapsed' = DOMAIN collapsed \cup {e}
<1>1. /\ strings' = Append(strings, e)
      /\ collapsed' = [x \in DOMAIN collapsed \cup {e} |->
                         IF x = e THEN Len(strings) ELSE collapsed[x]]
  BY DEF InsertElem
<1>2. /\ strings' \in Seq(Names)
      /\ Len(strings') = Len(strings) + 1
      /\ Len(strings) \in Nat
      /\ \A k \in 1 .. Len(strings) : strings'[k] = strings[k]
      /\ strings'[Len(strings) + 1] = e
  BY <1>1, AppendProperties DEF ElemsAgree
<1>3. ASSUME NEW n \in DOMAIN collapsed'
      PROVE  collapsed'[n] \in 0 .. Len(strings') - 1 /\ strings'[collapsed'[n] + 1] = n
  BY <1>1, <1>2 DEF ElemsAgree
<1>4. ASSUME NEW k \in 1 .. Len(strings')
      PROVE  strings'[k] \in DOMAIN collapsed' /\ collapsed'[strings'[k]] = k - 1
  <2>1. CASE k = Len(strings) + 1
    BY <2>1, <1>1, <1>2
  <2>2. CASE k \in 1 .. Len(strings)
    BY <2>2, <1>1, <1>2 DEF ElemsAgree
  <2>3. QED BY <2>1, <2>2, <1>2
<1>5. QED BY <1>1, <1>2, <1>3, <1>4 DEF ElemsAgree

\* remove() keeps them inverse, and moves no element but the last one.
LEMMA SwapRemoveAgrees ==
    ASSUME ElemsAgree, NEW e \in DOMAIN collapsed, SwapRemoveElem(e)
    PROVE  /\ ElemsAgree'
           /\ DOMAIN collapsed' = DOMAIN collapsed \ {e}
           /\ \A x \in DOMAIN collapsed' :
                 x # strings[Len(strings)] => collapsed'[x] = collapsed[x]
<1> DEFINE k == collapsed[e] + 1
           last == strings[Len(strings)]
           swapped == [strings EXCEPT ![k] = last]
<1>1. /\ strings' = SubSeq(swapped, 1, Len(strings) - 1)
      /\ collapsed' = [x \in DOMAIN collapsed \ {e} |->
                         IF x = last THEN collapsed[e] ELSE collapsed[x]]
  BY DEF SwapRemoveElem
<1>2. k \in 1 .. Len(strings) /\ Len(strings) \in Nat \ {0} /\ strings[k] = e
      /\ collapsed[e] \in Nat
  BY DEF ElemsAgree
<1>3. last \in DOMAIN collapsed /\ collapsed[last] = Len(strings) - 1
  BY <1>2 DEF ElemsAgree
<1>4. /\ swapped \in Seq(Names) /\ Len(swapped) = Len(strings) /\ swapped # <<>>
      /\ \A j \in 1 .. Len(strings) : swapped[j] = IF j = k THEN last ELSE strings[j]
  <2>1. last \in Names
    BY <1>3 DEF ElemsAgree
  <2>2. swapped \in Seq(Names) /\ Len(swapped) = Len(strings)
    BY <2>1, <1>2, ExceptSeq DEF ElemsAgree
  <2>3. QED BY <2>1, <2>2, <1>2 DEF ElemsAgree
<1>5. /\ strings' \in Seq(Names) /\ Len(strings') = Len(strings) - 1
      /\ \A j \in 1 .. Len(strings) - 1 :
            strings'[j] = IF j = k THEN last ELSE strings[j]
  <2> HIDE DEF swapped, k, last
  <2>1. Len(swapped) = Len(strings)
    BY <1>4
  <2>2. /\ SubSeq(swapped, 1, Len(strings) - 1) \in Seq(Names)
        /\ Len(SubSeq(swapped, 1, Len(strings) - 1)) = Len(strings) - 1
        /\ \A j \in 1 .. Len(strings) - 1 :
              SubSeq(swapped, 1, Len(strings) - 1)[j] = swapped[j]
    BY <1>4, <2>1, PopBack
  <2>3. QED BY <2>2, <1>1, <1>4, <1>2
<1>6. ASSUME NEW n \in DOMAIN collapsed'
      PROVE  collapsed'[n] \in 0 .. Len(strings') - 1 /\ strings'[collapsed'[n] + 1] = n
  <2>1. n \in DOMAIN collapsed /\ n # e
    BY <1>1
  <2>2. CASE n = last
    <3>1. collapsed'[n] = collapsed[e]
      BY <2>1, <2>2, <1>1
    <3>2. k # Len(strings)
      BY <2>1, <2>2, <1>2
    <3>3. collapsed[e] + 1 = k /\ k \in 1 .. Len(strings) - 1
      BY <3>2, <1>2
    <3>4. strings'[k] = last
      BY <3>3, <1>5
    <3>5. QED BY <3>1, <3>3, <3>4, <2>2, <1>2, <1>5
  <2>3. CASE n # last
    <3>1. collapsed'[n] = collapsed[n] /\ strings[collapsed[n] + 1] = n
          /\ collapsed[n] \in 0 .. Len(strings) - 1
      BY <2>1, <2>3, <1>1 DEF ElemsAgree
    <3>2. collapsed[n] # Len(strings) - 1 /\ collapsed[n] + 1 # k
      BY <3>1, <2>1, <2>3, <1>2
    <3>3. QED BY <3>1, <3>2, <1>2, <1>5
  <2>4. QED BY <2>2, <2>3
<1>7. ASSUME NEW j \in 1 .. Len(strings')
      PROVE  strings'[j] \in DOMAIN collapsed' /\ collapsed'[strings'[j]] = j - 1
  <2>1. j \in 1 .. Len(strings) - 1
    BY <1>5
  <2>2. CASE j = k
    <3>1. strings'[j] = last /\ last # e
      BY <2>1, <2>2, <1>2, <1>3, <1>5
    <3>2. last \in DOMAIN collapsed' /\ collapsed'[last] = collapsed[e]
      BY <3>1, <1>1, <1>3
    <3>3. collapsed[e] = j - 1
      BY <2>2, <1>2
    <3>4. QED BY <3>1, <3>2, <3>3
  <2>3. CASE j # k
    <3>1. strings'[j] = strings[j] /\ strings[j] \in DOMAIN collapsed
          /\ collapsed[strings[j]] = j - 1
      BY <2>1, <2>3, <1>5, <1>2 DEF ElemsAgree
    <3>2. strings[j] # e /\ strings[j] # last
      BY <3>1, <2>1, <2>3, <1>2, <1>3
    <3>3. QED BY <3>1, <3>2, <1>1
  <2>4. QED BY <2>2, <2>3
<1>8. QED BY <1>1, <1>5, <1>6, <1>7 DEF ElemsAgree

\* The invariant contains the agreement of the bidirectional map.
LEMMA IInvElems == ASSUME IInv PROVE ElemsAgree
BY DEF IInv, TypeOK, IndexMapsAgree, ElemsAgree

-------------------------------------------------------------------------------
(* The operations on nodes.                                                *)

\* add_node, in a new slot or in a reused one, keeps the invariant.
LEMMA AddNodeIInv ==
    ASSUME IInv, NEW n \in Names, AddNode(n)
    PROVE  IInv'
<1> DEFINE i == NewIndex
<1> USE MaxRawAssumption, NoNameAssumption
<1>1. /\ i < MaxRaw /\ TakeSlot /\ InsertElem(n) /\ n \notin DOMAIN collapsed
      /\ name' = [name EXCEPT ![i] = n]
      /\ parents' = [parents EXCEPT ![i] = {}]
      /\ children' = [children EXCEPT ![i] = {}]
      /\ indices' = [m \in DOMAIN indices \cup {n} |->
                       IF m \in DOMAIN indices THEN indices[m] ELSE i]
      /\ roots' = roots \cup {i} /\ leaves' = leaves \cup {i} /\ arcs' = arcs
  BY DEF AddNode
<1>2. /\ i \in Idx /\ i \notin Live
      /\ parents[i] = {} /\ children[i] = {}
      /\ \A a \in arcs : a[1] # i /\ a[2] # i
  BY <1>1, NewIndexUnused
<1>3. parents' = parents /\ children' = children
  BY <1>1, <1>2 DEF IInv, TypeOK
<1>4. /\ Live' = Live \cup {i}
      /\ name'[i] = n /\ \A j \in Idx : j # i => name'[j] = name[j]
  BY <1>1, <1>2 DEF Live, IInv, TypeOK
<1>5. ElemsAgree' /\ DOMAIN collapsed' = DOMAIN collapsed \cup {n}
  BY <1>1, IInvElems, InsertElemAgrees
<1>6. n \notin DOMAIN indices
  BY <1>1 DEF IInv, IndexMapsAgree
<1>7. TypeOK'
  <2>1. freeIndices' \in Seq(Idx) /\ numRaw' \in 0 .. MaxRaw
    BY <1>1, TakeSlotEffect
  <2>2. name' \in [Idx -> Names \cup {NoName}]
    BY <1>1 DEF IInv, TypeOK
  <2>3. DOMAIN indices' \subseteq Names /\ \A m \in DOMAIN indices' : indices'[m] \in Idx
    BY <1>1, <1>2 DEF IInv, TypeOK
  <2>4. /\ strings' \in Seq(Names) /\ DOMAIN collapsed' \subseteq Names
        /\ \A m \in DOMAIN collapsed' : collapsed'[m] \in Nat
    BY <1>5 DEF ElemsAgree
  <2>5. roots' \subseteq Idx /\ leaves' \subseteq Idx /\ arcs' \subseteq Idx \X Idx
    BY <1>1, <1>2 DEF IInv, TypeOK
  <2>6. parents' \in [Idx -> SUBSET Idx] /\ children' \in [Idx -> SUBSET Idx]
    BY <1>3 DEF IInv, TypeOK
  <2>7. QED BY <2>1, <2>2, <2>3, <2>4, <2>5, <2>6 DEF TypeOK
<1>8. IndexMapsAgree'
  <2>1. \A j \in Live' : name'[j] \in DOMAIN indices' /\ indices'[name'[j]] = j
    BY <1>1, <1>2, <1>4, <1>6 DEF IInv, IndexMapsAgree, Live
  <2>2. \A m \in DOMAIN indices' : name'[indices'[m]] = m
    <3>1. \A m \in DOMAIN indices : indices[m] \in Live
      BY DEF IInv, IndexMapsAgree, TypeOK, Live
    <3>2. QED BY <3>1, <1>1, <1>2, <1>4, <1>6 DEF IInv, IndexMapsAgree, TypeOK
  <2>3. DOMAIN collapsed' = DOMAIN indices'
    BY <1>1, <1>5 DEF IInv, IndexMapsAgree
  <2>4. QED BY <2>1, <2>2, <2>3, <1>5 DEF IndexMapsAgree, ElemsAgree
<1>9. FreeSlotsExact'
  <2>1. /\ numRaw <= numRaw' /\ i < numRaw' /\ numRaw \in Nat /\ numRaw' \in Nat
        /\ \/ /\ freeIndices = <<>> /\ freeIndices' = <<>>
              /\ numRaw' = numRaw + 1 /\ i = numRaw
           \/ /\ Len(freeIndices') = Len(freeIndices) - 1
              /\ Len(freeIndices) \in Nat \ {0}
              /\ \A k \in 1 .. Len(freeIndices) - 1 : freeIndices'[k] = freeIndices[k]
              /\ i = freeIndices[Len(freeIndices)]
              /\ numRaw' = numRaw
    BY <1>1, TakeSlotEffect DEF IInv, TypeOK
  <2> HIDE DEF i
  <2>2. \A k \in 1 .. Len(freeIndices') :
            freeIndices'[k] < numRaw' /\ freeIndices'[k] \notin Live'
    BY <2>1, <1>4 DEF IInv, FreeSlotsExact
  <2>3. \A j, k \in 1 .. Len(freeIndices') :
            freeIndices'[j] = freeIndices'[k] => j = k
    BY <2>1 DEF IInv, FreeSlotsExact
  <2>4. ASSUME NEW j \in Idx
        PROVE  \/ j \in Live' /\ j < numRaw'
               \/ j >= numRaw' /\ j \notin Live'
               \/ \E k \in 1 .. Len(freeIndices') : freeIndices'[k] = j
    <3>1. CASE j = i
      BY <3>1, <2>1, <1>4
    <3>2. CASE j # i
      <4>1. CASE j \in Live
        BY <4>1, <3>2, <2>1, <1>4 DEF IInv, FreeSlotsExact, Idx
      <4>2. CASE j \notin Live /\ j >= numRaw
        BY <4>2, <3>2, <2>1, <1>4 DEF Idx
      <4>3. CASE \E k \in 1 .. Len(freeIndices) : freeIndices[k] = j
        BY <4>3, <3>2, <2>1
      <4>4. QED BY <4>1, <4>2, <4>3 DEF IInv, FreeSlotsExact
    <3>3. QED BY <3>1, <3>2
  <2>5. QED BY <2>2, <2>3, <2>4 DEF FreeSlotsExact
<1>10. AdjacencyAgrees'
  BY <1>1, <1>3, <1>4 DEF IInv, AdjacencyAgrees
<1>11. RootsLeavesExact'
  <2>1. \A j \in Live' : /\ j \in roots' <=> parents'[j] = {}
                         /\ j \in leaves' <=> children'[j] = {}
    BY <1>1, <1>2, <1>3, <1>4 DEF IInv, RootsLeavesExact
  <2>2. \A j \in roots' \cup leaves' : j < numRaw'
    <3>1. numRaw <= numRaw' /\ i < numRaw' /\ numRaw \in Int /\ numRaw' \in Int
      BY <1>1, TakeSlotEffect DEF IInv, TypeOK
    <3>2. roots \subseteq Int /\ leaves \subseteq Int
      BY DEF IInv, TypeOK, Idx
    <3>3. QED BY <3>1, <3>2, <1>1 DEF IInv, RootsLeavesExact
  <2>3. QED BY <2>1, <2>2 DEF RootsLeavesExact
<1>12. ArcsAcyclic'
  BY <1>3 DEF IInv, ArcsAcyclic
<1>13. QED BY <1>7, <1>8, <1>9, <1>10, <1>11, <1>12 DEF IInv

\* remove_node, with the removal of every arc at the node, keeps the invariant.
LEMMA RemoveNodeIInv ==
    ASSUME IInv, NEW i \in Idx, RemoveNode(i)
    PROVE  IInv'
<1> DEFINE e == name[i]
<1> USE MaxRawAssumption, NoNameAssumption
<1>1. /\ i \in Live /\ SwapRemoveElem(e)
      /\ arcs' = {a \in arcs : a[1] # i /\ a[2] # i}
      /\ parents' = [j \in Idx |-> IF j = i THEN {} ELSE parents[j] \ {i}]
      /\ children' = [j \in Idx |-> IF j = i THEN {} ELSE children[j] \ {i}]
      /\ roots' = (roots \ {i}) \cup {c \in children[i] : parents[c] = {i}}
                                \cup (IF parents[i] = {} THEN {} ELSE {i})
      /\ leaves' = (leaves \ {i}) \cup {p \in parents[i] : children[p] = {i}}
                                  \cup (IF children[i] = {} THEN {} ELSE {i})
      /\ indices' = [m \in DOMAIN indices \ {e} |-> indices[m]]
      /\ name' = [name EXCEPT ![i] = NoName]
      /\ freeIndices' = Append(freeIndices, i) /\ numRaw' = numRaw
  BY DEF RemoveNode, ArcsWithout, RootsWithout, LeavesWithout
<1>2. /\ e \in DOMAIN indices /\ e \in DOMAIN collapsed /\ indices[e] = i
      /\ e \in Names
  BY <1>1 DEF IInv, IndexMapsAgree, TypeOK
<1>3. /\ Live' = Live \ {i} /\ name'[i] = NoName
      /\ \A j \in Idx : j # i => name'[j] = name[j]
  BY <1>1 DEF Live, IInv, TypeOK
<1>4. ElemsAgree' /\ DOMAIN collapsed' = DOMAIN collapsed \ {e}
  BY <1>1, <1>2, IInvElems, SwapRemoveAgrees
<1>5. /\ freeIndices' \in Seq(Idx) /\ Len(freeIndices) \in Nat
      /\ Len(freeIndices') = Len(freeIndices) + 1
      /\ \A k \in 1 .. Len(freeIndices) : freeIndices'[k] = freeIndices[k]
      /\ freeIndices'[Len(freeIndices) + 1] = i
  BY <1>1, AppendProperties DEF IInv, TypeOK
<1>6. /\ parents \in [Idx -> SUBSET Idx] /\ children \in [Idx -> SUBSET Idx]
      /\ parents' \in [Idx -> SUBSET Idx] /\ children' \in [Idx -> SUBSET Idx]
  BY <1>1 DEF IInv, TypeOK
<1>7. TypeOK'
  <2>1. name' \in [Idx -> Names \cup {NoName}] /\ numRaw' \in 0 .. MaxRaw
    BY <1>1 DEF IInv, TypeOK
  <2>2. DOMAIN indices' \subseteq Names /\ \A m \in DOMAIN indices' : indices'[m] \in Idx
    BY <1>1 DEF IInv, TypeOK
  <2>3. /\ strings' \in Seq(Names) /\ DOMAIN collapsed' \subseteq Names
        /\ \A m \in DOMAIN collapsed' : collapsed'[m] \in Nat
    BY <1>4 DEF ElemsAgree
  <2>4. roots' \subseteq Idx /\ leaves' \subseteq Idx /\ arcs' \subseteq Idx \X Idx
    BY <1>1, <1>6 DEF IInv, TypeOK
  <2>5. QED BY <2>1, <2>2, <2>3, <2>4, <1>5, <1>6 DEF TypeOK
<1>8. IndexMapsAgree'
  <2>1. ASSUME NEW j \in Live'
        PROVE  name'[j] \in DOMAIN indices' /\ indices'[name'[j]] = j
    <3>1. j \in Live /\ j # i /\ name'[j] = name[j]
      BY <1>3 DEF Live
    <3>2. name[j] \in DOMAIN indices /\ indices[name[j]] = j
      BY <3>1 DEF IInv, IndexMapsAgree
    <3>3. name[j] # e
      BY <3>1, <3>2, <1>2
    <3>4. QED BY <3>1, <3>2, <3>3, <1>1
  <2>2. ASSUME NEW m \in DOMAIN indices'
        PROVE  name'[indices'[m]] = m
    <3>1. m \in DOMAIN indices /\ m # e /\ indices'[m] = indices[m]
      BY <1>1
    <3>2. name[indices[m]] = m /\ indices[m] \in Idx
      BY <3>1 DEF IInv, IndexMapsAgree, TypeOK
    <3>3. indices[m] # i
      BY <3>1, <3>2
    <3>4. QED BY <3>1, <3>2, <3>3, <1>3
  <2>3. DOMAIN collapsed' = DOMAIN indices'
    BY <1>1, <1>4 DEF IInv, IndexMapsAgree
  <2>4. QED BY <2>1, <2>2, <2>3, <1>4 DEF IndexMapsAgree, ElemsAgree
<1>9. FreeSlotsExact'
  <2>1. i < numRaw /\ numRaw' = numRaw
    BY <1>1 DEF IInv, FreeSlotsExact, TypeOK, Idx
  <2>2. ASSUME NEW k \in 1 .. Len(freeIndices')
        PROVE  freeIndices'[k] < numRaw' /\ freeIndices'[k] \notin Live'
    <3>1. CASE k = Len(freeIndices) + 1
      BY <3>1, <2>1, <1>3, <1>5
    <3>2. CASE k \in 1 .. Len(freeIndices)
      BY <3>2, <2>1, <1>3, <1>5 DEF IInv, FreeSlotsExact
    <3>3. QED BY <3>1, <3>2, <1>5
  <2>3. ASSUME NEW j \in 1 .. Len(freeIndices'), NEW k \in 1 .. Len(freeIndices'),
               freeIndices'[j] = freeIndices'[k]
        PROVE  j = k
    <3>1. \A l \in 1 .. Len(freeIndices) : freeIndices[l] # i
      BY <1>1 DEF IInv, FreeSlotsExact
    <3>2. QED BY <3>1, <2>3, <1>5 DEF IInv, FreeSlotsExact
  <2>4. ASSUME NEW j \in Idx
        PROVE  \/ j \in Live' /\ j < numRaw'
               \/ j >= numRaw' /\ j \notin Live'
               \/ \E k \in 1 .. Len(freeIndices') : freeIndices'[k] = j
    <3>1. CASE j = i
      BY <3>1, <1>5
    <3>2. CASE j # i
      <4>1. CASE \E k \in 1 .. Len(freeIndices) : freeIndices[k] = j
        BY <4>1, <1>5
      <4>2. CASE ~ \E k \in 1 .. Len(freeIndices) : freeIndices[k] = j
        BY <4>2, <3>2, <2>1, <1>3 DEF IInv, FreeSlotsExact
      <4>3. QED BY <4>1, <4>2
    <3>3. QED BY <3>1, <3>2
  <2>5. QED BY <2>2, <2>3, <2>4 DEF FreeSlotsExact
<1>10. AdjacencyAgrees'
  <2>1. ASSUME NEW s \in Idx, NEW t \in Idx
        PROVE  /\ s \in parents'[t] <=> <<s, t>> \in arcs'
               /\ t \in children'[s] <=> <<s, t>> \in arcs'
    <3>1. <<s, t>> \in arcs' <=> <<s, t>> \in arcs /\ s # i /\ t # i
      BY <1>1
    <3>2. s \in parents'[t] <=> s \in parents[t] /\ s # i /\ t # i
      BY <1>1
    <3>3. t \in children'[s] <=> t \in children[s] /\ s # i /\ t # i
      BY <1>1
    <3>4. QED BY <3>1, <3>2, <3>3 DEF IInv, AdjacencyAgrees
  <2>2. \A a \in arcs' : a[1] \in Live' /\ a[2] \in Live'
    BY <1>1, <1>3 DEF IInv, AdjacencyAgrees
  <2>3. QED BY <2>1, <2>2 DEF AdjacencyAgrees
<1>11. RootsLeavesExact'
  <2>1. ASSUME NEW j \in Live'
        PROVE  /\ j \in roots' <=> parents'[j] = {}
               /\ j \in leaves' <=> children'[j] = {}
    <3>1. j \in Live /\ j # i /\ j \in Idx
      BY <1>3 DEF Live
    <3>2. /\ j \in roots <=> parents[j] = {}
          /\ j \in leaves <=> children[j] = {}
      BY <3>1 DEF IInv, RootsLeavesExact
    <3>3. /\ parents'[j] = parents[j] \ {i} /\ children'[j] = children[j] \ {i}
      BY <3>1, <1>1
    <3>4. /\ i \in parents[j] <=> j \in children[i]
          /\ i \in children[j] <=> j \in parents[i]
      BY <3>1 DEF IInv, AdjacencyAgrees
    <3>5. j \in roots' <=> j \in roots \/ (j \in children[i] /\ parents[j] = {i})
      BY <3>1, <1>1
    <3>6. j \in leaves' <=> j \in leaves \/ (j \in parents[i] /\ children[j] = {i})
      BY <3>1, <1>1
    <3>7. QED BY <3>2, <3>3, <3>4, <3>5, <3>6
  <2>2. \A j \in roots' \cup leaves' : j < numRaw'
    <3>1. \A j \in Live : j < numRaw
      BY DEF IInv, FreeSlotsExact, TypeOK, Idx, Live
    <3>2. children[i] \subseteq Live /\ parents[i] \subseteq Live
      <4>1. children[i] \subseteq Idx /\ parents[i] \subseteq Idx
        BY <1>6
      <4>2. \A c \in children[i] : <<i, c>> \in arcs
        BY <4>1 DEF IInv, AdjacencyAgrees
      <4>3. \A c \in parents[i] : <<c, i>> \in arcs
        BY <4>1 DEF IInv, AdjacencyAgrees
      <4>4. \A c \in Idx : <<i, c>> \in arcs => c \in Live
        BY DEF IInv, AdjacencyAgrees
      <4>5. \A c \in Idx : <<c, i>> \in arcs => c \in Live
        BY DEF IInv, AdjacencyAgrees
      <4>6. QED BY <4>1, <4>2, <4>3, <4>4, <4>5
    <3>3. QED BY <3>1, <3>2, <1>1 DEF IInv, RootsLeavesExact
  <2>3. QED BY <2>1, <2>2 DEF RootsLeavesExact
<1>12. ArcsAcyclic'
  <2>1. \A n \in Idx : children'[n] \subseteq children[n]
    BY <1>1
  <2>2. QED BY <2>1, SubgraphAcyclic DEF IInv, ArcsAcyclic
<1>13. QED BY <1>7, <1>8, <1>9, <1>10, <1>11, <1>12 DEF IInv

-------------------------------------------------------------------------------
(* The operations on arcs.                                                 *)

\* An operation on arcs disturbs no conjunct about nodes.
LEMMA NodePartKept ==
    ASSUME IInv, UNCHANGED nodeVars
    PROVE  IndexMapsAgree' /\ FreeSlotsExact' /\ Live' = Live
BY DEF IInv, IndexMapsAgree, FreeSlotsExact, Live, nodeVars

\* The guard of add_arc, shortcuts included, refuses every arc of a cycle.
LEMMA CanAddArcSound ==
    ASSUME IInv, NEW s \in Idx, NEW t \in Idx, CanAddArc(s, t)
    PROVE  Acyclic(Idx, [children EXCEPT ![s] = @ \cup {t}])
<1>1. children \in [Idx -> SUBSET Idx]
  BY DEF IInv, TypeOK
<1>2. ~HasPath(Idx, children, t, s)
  <2>1. CASE parents[s] = {}
    <3>1. \A n \in Idx : s \notin children[n]
      BY <2>1 DEF IInv, AdjacencyAgrees
    <3>2. QED BY <3>1, <1>1, NoParentsNoPath
  <2>2. CASE children[t] = {}
    BY <2>2, NoChildrenNoPath
  <2>3. QED BY <2>1, <2>2 DEF CanAddArc
<1>3. QED BY <1>1, <1>2, AddArcAcyclic DEF IInv, ArcsAcyclic, CanAddArc

\* The guard of flip_arc on an arc of the graph.
LEMMA CanFlipArcSound ==
    ASSUME IInv, NEW s \in Idx, NEW t \in Idx, CanFlipArc(s, t), HasArc(s, t)
    PROVE  Acyclic(Idx, [children EXCEPT ![s] = @ \ {t}, ![t] = @ \cup {s}])
<1> DEFINE cut == [children EXCEPT ![s] = @ \ {t}]
<1>1. children \in [Idx -> SUBSET Idx] /\ cut \in [Idx -> SUBSET Idx] /\ s # t
  BY DEF IInv, TypeOK, CanFlipArc
<1>2. Acyclic(Idx, cut)
  <2>1. \A n \in Idx : cut[n] \subseteq children[n]
    BY <1>1
  <2>2. QED BY <2>1, SubgraphAcyclic DEF IInv, ArcsAcyclic
<1>3. ~HasPath(Idx, cut, s, t)
  <2>1. CASE parents[t] = {s}
    <3>1. \A n \in Idx : t \notin cut[n]
      BY <2>1, <1>1 DEF IInv, AdjacencyAgrees
    <3>2. QED BY <3>1, <1>1, NoParentsNoPath
  <2>2. CASE children[s] = {t}
    <3>1. cut[s] = {}
      BY <2>2, <1>1
    <3>2. QED BY <3>1, NoChildrenNoPath
  <2>3. CASE ~HasPathNoDirectArc(s, t)
    BY <2>3 DEF HasPathNoDirectArc
  <2>4. QED BY <2>1, <2>2, <2>3 DEF CanFlipArc
<1>4. Acyclic(Idx, [cut EXCEPT ![t] = @ \cup {s}])
  <2> HIDE DEF cut
  <2>1. QED BY <1>1, <1>2, <1>3, AddArcAcyclic
<1>5. [cut EXCEPT ![t] = @ \cup {s}] =
        [children EXCEPT ![s] = @ \ {t}, ![t] = @ \cup {s}]
  BY <1>1
<1>6. QED BY <1>4, <1>5

\* add_arc keeps the invariant.
LEMMA AddArcIInv ==
    ASSUME IInv, NEW s \in Idx, NEW t \in Idx, AddArc(s, t)
    PROVE  IInv'
<1>1. /\ s \in Live /\ t \in Live /\ CanAddArc(s, t) /\ s # t
      /\ arcs' = arcs \cup {<<s, t>>}
      /\ parents' = [parents EXCEPT ![t] = @ \cup {s}]
      /\ children' = [children EXCEPT ![s] = @ \cup {t}]
      /\ roots' = roots \ {t} /\ leaves' = leaves \ {s}
      /\ UNCHANGED nodeVars
  BY DEF AddArc, AddArcUnsafe, CanAddArc
<1>2. IndexMapsAgree' /\ FreeSlotsExact' /\ Live' = Live
  BY <1>1, NodePartKept
<1>3. TypeOK'
  BY <1>1 DEF IInv, TypeOK, nodeVars
<1>4. AdjacencyAgrees'
  BY <1>1, <1>2 DEF IInv, TypeOK, AdjacencyAgrees
<1>5. RootsLeavesExact'
  BY <1>1, <1>2 DEF IInv, TypeOK, RootsLeavesExact, Live, nodeVars
<1>6. ArcsAcyclic'
  BY <1>1, CanAddArcSound DEF ArcsAcyclic
<1>7. QED BY <1>2, <1>3, <1>4, <1>5, <1>6 DEF IInv

\* remove_arc keeps the invariant.
LEMMA RemoveArcIInv ==
    ASSUME IInv, NEW s \in Idx, NEW t \in Idx, RemoveArc(s, t)
    PROVE  IInv'
<1>1. /\ s \in Live /\ t \in Live /\ s \in parents[t] /\ t \in children[s]
      /\ arcs' = arcs \ {<<s, t>>}
      /\ parents' = [parents EXCEPT ![t] = @ \ {s}]
      /\ children' = [children EXCEPT ![s] = @ \ {t}]
      /\ roots' = (IF parents[t] = {s} THEN roots \cup {t} ELSE roots)
      /\ leaves' = (IF children[s] = {t} THEN leaves \cup {s} ELSE leaves)
      /\ UNCHANGED nodeVars
  BY DEF RemoveArc, RootsCut, LeavesCut, HasArc, IInv, AdjacencyAgrees
<1>2. IndexMapsAgree' /\ FreeSlotsExact' /\ Live' = Live
  BY <1>1, NodePartKept
<1>3. TypeOK'
  BY <1>1 DEF IInv, TypeOK, nodeVars
<1>4. AdjacencyAgrees'
  BY <1>1, <1>2 DEF IInv, TypeOK, AdjacencyAgrees
<1>5. RootsLeavesExact'
  <2>1. s < numRaw /\ t < numRaw
    BY <1>1 DEF IInv, FreeSlotsExact, TypeOK, Idx
  <2>2. QED BY <2>1, <1>1, <1>2 DEF IInv, TypeOK, RootsLeavesExact, Live, nodeVars
<1>6. ArcsAcyclic'
  <2>1. \A n \in Idx : children'[n] \subseteq children[n]
    BY <1>1 DEF IInv, TypeOK
  <2>2. QED BY <2>1, SubgraphAcyclic DEF IInv, ArcsAcyclic
<1>7. QED BY <1>2, <1>3, <1>4, <1>5, <1>6 DEF IInv

\* flip_arc keeps the invariant.
LEMMA FlipArcIInv ==
    ASSUME IInv, NEW s \in Idx, NEW t \in Idx, FlipArc(s, t)
    PROVE  IInv'
<1>1. /\ s \in Live /\ t \in Live /\ CanFlipArc(s, t) /\ HasArc(s, t) /\ s # t
      /\ s \in parents[t] /\ t \in children[s]
      /\ arcs' = (arcs \ {<<s, t>>}) \cup {<<t, s>>}
      /\ parents' = [parents EXCEPT ![t] = @ \ {s}, ![s] = @ \cup {t}]
      /\ children' = [children EXCEPT ![s] = @ \ {t}, ![t] = @ \cup {s}]
      /\ roots' = (IF parents[t] = {s} THEN roots \cup {t} ELSE roots) \ {s}
      /\ leaves' = (IF children[s] = {t} THEN leaves \cup {s} ELSE leaves) \ {t}
      /\ UNCHANGED nodeVars
  BY DEF FlipArc, CanFlipArc, RootsCut, LeavesCut, HasArc, IInv, AdjacencyAgrees
<1>2. IndexMapsAgree' /\ FreeSlotsExact' /\ Live' = Live
  BY <1>1, NodePartKept
<1>3. TypeOK'
  <2>1. parents' \in [Idx -> SUBSET Idx] /\ children' \in [Idx -> SUBSET Idx]
    BY <1>1 DEF IInv, TypeOK
  <2>2. arcs' \subseteq Idx \X Idx
    BY <1>1 DEF IInv, TypeOK
  <2>3. roots' \subseteq Idx /\ leaves' \subseteq Idx
    BY <1>1 DEF IInv, TypeOK
  <2>4. QED BY <1>1, <2>1, <2>2, <2>3 DEF IInv, TypeOK, nodeVars
<1>4. AdjacencyAgrees'
  BY <1>1, <1>2 DEF IInv, TypeOK, AdjacencyAgrees
<1>5. RootsLeavesExact'
  <2>1. s < numRaw /\ t < numRaw
    BY <1>1 DEF IInv, FreeSlotsExact, TypeOK, Idx
  <2>2. /\ parents'[s] = parents[s] \cup {t} /\ parents'[t] = parents[t] \ {s}
        /\ children'[s] = children[s] \ {t} /\ children'[t] = children[t] \cup {s}
        /\ \A j \in Idx : j # s /\ j # t => parents'[j] = parents[j]
                                         /\ children'[j] = children[j]
    BY <1>1 DEF IInv, TypeOK
  <2>3. ASSUME NEW j \in Live
        PROVE  (j \in roots' <=> parents'[j] = {}) /\ (j \in leaves' <=> children'[j] = {})
    <3>1. /\ j \in Idx
          /\ j \in roots <=> parents[j] = {}
          /\ j \in leaves <=> children[j] = {}
      BY DEF IInv, RootsLeavesExact, Live
    <3>2. CASE j = s
      BY <3>1, <3>2, <2>2, <1>1
    <3>3. CASE j = t
      BY <3>1, <3>3, <2>2, <1>1
    <3>4. CASE j # s /\ j # t
      BY <3>1, <3>4, <2>2, <1>1
    <3>5. QED BY <3>2, <3>3, <3>4
  <2>4. \A j \in roots' \cup leaves' : j < numRaw'
    BY <2>1, <1>1 DEF IInv, RootsLeavesExact, nodeVars
  <2>5. QED BY <2>3, <2>4, <1>2 DEF RootsLeavesExact
<1>6. ArcsAcyclic'
  BY <1>1, CanFlipArcSound DEF ArcsAcyclic
<1>7. QED BY <1>2, <1>3, <1>4, <1>5, <1>6 DEF IInv

-------------------------------------------------------------------------------
(* The invariant of the specification.                                     *)

\* Every operation keeps the invariant.
LEMMA NextIInv == IInv /\ [Next]_vars => IInv'
<1> SUFFICES ASSUME IInv, [Next]_vars PROVE IInv'
  OBVIOUS
<1>1. CASE \E n \in Names : AddNode(n)
  BY <1>1, AddNodeIInv
<1>2. CASE \E i \in Idx : RemoveNode(i)
  BY <1>2, RemoveNodeIInv
<1>3. CASE \E s, t \in Idx : AddArc(s, t)
  BY <1>3, AddArcIInv
<1>4. CASE \E s, t \in Idx : RemoveArc(s, t)
  BY <1>4, RemoveArcIInv
<1>5. CASE \E s, t \in Idx : FlipArc(s, t)
  BY <1>5, FlipArcIInv
<1>6. CASE UNCHANGED vars
  BY <1>6 DEF vars, nodeVars, arcVars, IInv, TypeOK, IndexMapsAgree, FreeSlotsExact,
              AdjacencyAgrees, RootsLeavesExact, ArcsAcyclic, Live
<1>7. QED BY <1>1, <1>2, <1>3, <1>4, <1>5, <1>6 DEF Next

\* The invariant holds after every sequence of operations.
THEOREM SpecIInv == Spec => []IInv
<1>1. Init => IInv
  BY InitIInv
<1>2. IInv /\ [Next]_vars => IInv'
  BY NextIInv
<1>3. QED BY <1>1, <1>2, PTL DEF Spec

\* Every variable keeps its type, and the slots stay within the bound.
THEOREM SpecTypeOK == Spec => []TypeOK
<1>1. IInv => TypeOK
  BY DEF IInv
<1>2. QED BY <1>1, SpecIInv, PTL

\* The index maps of the nodes agree after every sequence of operations.
THEOREM SpecIndexMapsAgree == Spec => []IndexMapsAgree
<1>1. IInv => IndexMapsAgree
  BY DEF IInv
<1>2. QED BY <1>1, SpecIInv, PTL

\* No slot is lost and none is given to two nodes.
THEOREM SpecFreeSlotsExact == Spec => []FreeSlotsExact
<1>1. IInv => FreeSlotsExact
  BY DEF IInv
<1>2. QED BY <1>1, SpecIInv, PTL

\* The arc set, the parents and the children describe one graph.
THEOREM SpecAdjacencyAgrees == Spec => []AdjacencyAgrees
<1>1. IInv => AdjacencyAgrees
  BY DEF IInv
<1>2. QED BY <1>1, SpecIInv, PTL

\* m_roots and m_leaves are exact on the nodes of the graph.
THEOREM SpecRootsLeavesExact == Spec => []RootsLeavesExact
<1>1. IInv => RootsLeavesExact
  BY DEF IInv
<1>2. QED BY <1>1, SpecIInv, PTL

\* The graph of a Dag is acyclic after every sequence of operations.
THEOREM SpecArcsAcyclic == Spec => []ArcsAcyclic
<1>1. IInv => ArcsAcyclic
  BY DEF IInv
<1>2. QED BY <1>1, SpecIInv, PTL

-------------------------------------------------------------------------------
(* What follows from the invariant.                                        *)

\* can_add_arc refuses only arcs that would close a cycle.
LEMMA CanAddArcComplete ==
    ASSUME IInv, NEW s \in Idx, NEW t \in Idx, s # t,
           Acyclic(Idx, [children EXCEPT ![s] = @ \cup {t}])
    PROVE  CanAddArc(s, t)
<1>1. ~HasPath(Idx, children, t, s)
  BY AddArcCycle DEF IInv, TypeOK
<1>2. QED BY <1>1 DEF CanAddArc

\* can_flip_arc refuses only flips that would close a cycle.
LEMMA CanFlipArcComplete ==
    ASSUME IInv, NEW s \in Idx, NEW t \in Idx, s # t,
           Acyclic(Idx, [children EXCEPT ![s] = @ \ {t}, ![t] = @ \cup {s}])
    PROVE  CanFlipArc(s, t)
<1> DEFINE cut == [children EXCEPT ![s] = @ \ {t}]
<1>1. children \in [Idx -> SUBSET Idx] /\ cut \in [Idx -> SUBSET Idx]
  BY DEF IInv, TypeOK
<1>2. [children EXCEPT ![s] = @ \ {t}, ![t] = @ \cup {s}] =
        [cut EXCEPT ![t] = @ \cup {s}]
  BY <1>1
<1>3. ~HasPath(Idx, cut, s, t)
  <2> HIDE DEF cut
  <2>1. QED BY <1>1, <1>2, AddArcCycle
<1>4. HasArc(s, t) => ~HasPathNoDirectArc(s, t)
  BY <1>3 DEF HasPathNoDirectArc
<1>5. ~HasArc(s, t) => ~HasPath(Idx, children, s, t)
  <2>1. ASSUME ~HasArc(s, t) PROVE cut = children
    <3>1. t \notin children[s]
      BY <2>1 DEF IInv, AdjacencyAgrees, HasArc
    <3>2. QED BY <3>1, <1>1
  <2>2. QED BY <2>1, <1>3
<1>6. QED BY <1>4, <1>5 DEF CanFlipArc

\* Without the arc, can_flip_arc asks whether its reverse can be added.
LEMMA CanFlipAbsentSound ==
    ASSUME IInv, NEW s \in Idx, NEW t \in Idx, CanFlipArc(s, t), ~HasArc(s, t)
    PROVE  Acyclic(Idx, [children EXCEPT ![s] = @ \ {t}, ![t] = @ \cup {s}])
<1>1. CanAddArc(t, s)
  BY DEF CanFlipArc, CanAddArc
<1>2. Acyclic(Idx, [children EXCEPT ![t] = @ \cup {s}])
  BY <1>1, CanAddArcSound
<1>3. /\ t \notin children[s] /\ children \in [Idx -> SUBSET Idx]
  BY DEF IInv, AdjacencyAgrees, HasArc, TypeOK
<1>4. [children EXCEPT ![s] = @ \ {t}, ![t] = @ \cup {s}] =
        [children EXCEPT ![t] = @ \cup {s}]
  BY <1>3
<1>5. QED BY <1>2, <1>4

\* The guards of add_arc and flip_arc, shortcuts and searches together, decide
\* exactly whether the operation would close a cycle, in every graph.
THEOREM SpecGuardsExact == Spec => []GuardsExact
<1>1. IInv => GuardsExact
  <2> SUFFICES ASSUME IInv, NEW s \in Live, NEW t \in Live, s # t
               PROVE  /\ CanAddArc(s, t) <=>
                           Acyclic(Idx, [children EXCEPT ![s] = @ \cup {t}])
                      /\ CanFlipArc(s, t) <=>
                           Acyclic(Idx, [children EXCEPT ![s] = @ \ {t},
                                                         ![t] = @ \cup {s}])
    BY DEF GuardsExact
  <2>1. s \in Idx /\ t \in Idx
    BY DEF Live
  <2>2. CanAddArc(s, t) <=> Acyclic(Idx, [children EXCEPT ![s] = @ \cup {t}])
    BY <2>1, CanAddArcSound, CanAddArcComplete
  <2>3. CanFlipArc(s, t) <=>
          Acyclic(Idx, [children EXCEPT ![s] = @ \ {t}, ![t] = @ \cup {s}])
    BY <2>1, CanFlipArcSound, CanFlipAbsentSound, CanFlipArcComplete
  <2>4. QED BY <2>2, <2>3
<1>2. QED BY <1>1, SpecIInv, PTL

\* When m_roots holds nodes only, topological_sort places every node.
THEOREM SpecSortCompletes == Spec => []SortCompletes
<1>1. IInv => SortCompletes
  <2> SUFFICES ASSUME IInv, roots \subseteq Live, NEW n \in Live,
                      NEW K \in SUBSET Live, roots \cap Live \subseteq K,
                      \A m \in Live : parents[m] # {} /\ parents[m] \subseteq K => m \in K
               PROVE  n \in K
    BY DEF SortCompletes, IsDag, Placed
  <2> DEFINE S == Live \ K
  <2>1. ASSUME S # {} PROVE FALSE
    <3>1. S \in SUBSET Idx /\ IsFiniteSet(Idx)
      BY FS_Interval, MaxRawAssumption DEF Live, Idx
    <3>2. PICK m \in S : \A p \in S : m \notin children[p]
      <4> HIDE DEF S
      <4>1. QED BY <2>1, <3>1, AcyclicHasSource DEF IInv, ArcsAcyclic
    <3>3. m \in Live /\ m \in Idx /\ parents[m] # {} /\ parents[m] \subseteq Idx
      BY DEF IInv, RootsLeavesExact, TypeOK, Live
    <3>4. ASSUME NEW p \in parents[m] PROVE p \in K
      <4>1. <<p, m>> \in arcs /\ p \in Idx
        BY <3>3 DEF IInv, AdjacencyAgrees
      <4>2. p \in Live /\ m \in children[p]
        BY <3>3, <4>1 DEF IInv, AdjacencyAgrees
      <4>3. QED BY <4>2, <3>2
    <3>5. QED BY <3>3, <3>4
  <2>2. QED BY <2>1
<1>2. QED BY <1>1, SpecIInv, PTL

\* An operation keeps the index of every node that stays, and the collapsed
\* index of all of them but one.
THEOREM SpecIndicesStable == Spec => IndicesStable
<1>1. IInv /\ [Next]_vars => [IndicesKept]_vars
  <2> SUFFICES ASSUME IInv, Next PROVE IndicesKept
    OBVIOUS
  <2>1. ASSUME NEW n \in Names, AddNode(n) PROVE IndicesKept
    BY <2>1 DEF AddNode, InsertElem, IndicesKept, IInv, IndexMapsAgree
  <2>2. ASSUME NEW i \in Idx, RemoveNode(i) PROVE IndicesKept
    <3>1. name[i] \in DOMAIN collapsed
      BY <2>2 DEF RemoveNode, IInv, IndexMapsAgree
    <3>2. \A x \in DOMAIN collapsed \ {name[i]} :
             x # strings[Len(strings)] => collapsed'[x] = collapsed[x]
      BY <2>2, <3>1, IInvElems, SwapRemoveAgrees DEF RemoveNode
    <3>3. indices' = [m \in DOMAIN indices \ {name[i]} |-> indices[m]]
      BY <2>2 DEF RemoveNode
    <3>4. DOMAIN indices = DOMAIN collapsed
      BY DEF IInv, IndexMapsAgree
    <3>5. QED BY <3>2, <3>3, <3>4 DEF IndicesKept
  <2>3. ASSUME UNCHANGED nodeVars PROVE IndicesKept
    BY <2>3 DEF nodeVars, IndicesKept
  <2>4. QED BY <2>1, <2>2, <2>3 DEF Next, AddArc, RemoveArc, FlipArc
<1>2. QED BY <1>1, SpecIInv, PTL DEF Spec, IndicesStable

===============================================================================
