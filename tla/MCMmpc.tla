-------------------------------- MODULE MCMmpc --------------------------------
(***************************************************************************)
(* MMPC and MMHC on four nodes with the answers of a faithful test, all    *)
(* associations alike so that every order of the picks happens; on three   *)
(* nodes with arbitrary p-values; on three and four with restrictions; and *)
(* on conditional graphs with one and two interface nodes.                 *)
(***************************************************************************)
EXTENDS Mmpc, SampleTests

\* The p-values of a test that finds the pairs independent given the sets of o.
TwoValued(o) == [e \in Edges |-> [S \in SUBSET Nodes |-> IF S \in o[e] THEN 3 ELSE 0]]

Task(c) ==
    [nodes |-> c.nodes, interface |-> c.interface, pvalue |-> c.pvalue,
     separators |-> [e \in Edges |-> {S \in SUBSET (Nodes \ e) : c.pvalue[e][S] > Alpha}],
     arcBlacklist |-> c.lists.arcBlacklist, arcWhitelist |-> c.lists.arcWhitelist,
     edgeBlacklist |-> c.lists.edgeBlacklist, edgeWhitelist |-> c.lists.edgeWhitelist,
     useSepsets |-> FALSE, threshold |-> <<0, 1>>, bidirected |-> c.bidirected,
     hybrid |-> c.hybrid, dags |-> c.dags]

Three == {0, 1, 2}

\* Every test of three nodes: p-values below, at and above Alpha (2).
ThreeValued ==
    LET sets(e) == IF e \subseteq Three THEN {{}, Three \ e} ELSE {}
        tests == {t \in Edges \X SUBSET Nodes : t[2] \in sets(t[1])}
        pvalues(p) == [e \in Edges |-> [S \in SUBSET Nodes |-> IF <<e, S>> \in tests THEN p[<<e, S>>] ELSE 3]]
    IN  {pvalues(p) : p \in [tests -> {0, 1, 3}] \cup [tests -> {0, 2, 3}]}

\* One whitelisted pair, and two at one node.
Forced == {
    [NoLists EXCEPT !.arcWhitelist = {<<0, 1>>}],
    [NoLists EXCEPT !.edgeWhitelist = {{0, 1}}, !.arcBlacklist = {<<1, 2>>}],
    [NoLists EXCEPT !.edgeWhitelist = {{0, 1}}, !.arcWhitelist = {<<0, 2>>}]}

Cases == {Task(c) : c \in
    {[nodes |-> Nodes, interface |-> {}, pvalue |-> TwoValued(f.answers), lists |-> NoLists,
      hybrid |-> h, bidirected |-> ~h, dags |-> {f.dag}] : f \in FaithfulTests, h \in BOOLEAN}
    \cup
    {[nodes |-> Three, interface |-> {}, pvalue |-> p, lists |-> NoLists,
      hybrid |-> FALSE, bidirected |-> TRUE, dags |-> {}] : p \in ThreeValued}
    \cup
    {[nodes |-> Three, interface |-> {}, pvalue |-> TwoValued(o), lists |-> l,
      hybrid |-> h, bidirected |-> h, dags |-> {}] :
        o \in Arbitrary(Three, {{}, Three}), l \in Lists \cup Forced, h \in BOOLEAN}
    \cup
    {[nodes |-> Nodes, interface |-> {}, pvalue |-> TwoValued(o), lists |-> l,
      hybrid |-> FALSE, bidirected |-> TRUE, dags |-> {}] :
        o \in Arbitrary(Nodes, {{}}), l \in Forced}
    \cup
    {[nodes |-> Nodes, interface |-> i, pvalue |-> TwoValued(o), lists |-> NoLists,
      hybrid |-> h, bidirected |-> TRUE, dags |-> {}] :
        o \in Arbitrary(Nodes, {{}}), i \in {{3}, {2, 3}}, h \in BOOLEAN}}

MCTasks == Cases

\* Four nodes, all dependent, of which the caller joins one to two others.
HangTasks == {Task(
    [nodes |-> Nodes, interface |-> {}, pvalue |-> TwoValued([e \in Edges |-> {}]),
     lists |-> [NoLists EXCEPT !.edgeWhitelist = {{0, 1}}, !.arcWhitelist = {<<0, 2>>}],
     hybrid |-> FALSE, bidirected |-> TRUE, dags |-> {}])}

===============================================================================
