--------------------------------- MODULE MCPC ---------------------------------
(***************************************************************************)
(* PC on four nodes with the answers of a faithful test, on three nodes    *)
(* with arbitrary answers and with restrictions, and on conditional        *)
(* graphs with one and two interface nodes.                                *)
(***************************************************************************)
EXTENDS PC, SampleTests

Task(c) ==
    [nodes |-> c.nodes, interface |-> c.interface, separators |-> c.separators,
     arcBlacklist |-> c.lists.arcBlacklist, arcWhitelist |-> c.lists.arcWhitelist,
     edgeBlacklist |-> c.lists.edgeBlacklist, edgeWhitelist |-> c.lists.edgeWhitelist,
     useSepsets |-> c.sepsets, threshold |-> c.threshold, bidirected |-> c.bidirected,
     dags |-> c.dags]

Three == {0, 1, 2}

Cases == {Task(c) : c \in
    {[nodes |-> Nodes, interface |-> {}, separators |-> f.answers, lists |-> NoLists, sepsets |-> s,
      threshold |-> <<1, 2>>, bidirected |-> s, dags |-> {f.dag}] :
        f \in FaithfulTests, s \in BOOLEAN}
    \cup
    {[nodes |-> Three, interface |-> {}, separators |-> o, lists |-> l, sepsets |-> s,
      threshold |-> <<0, 1>>, bidirected |-> ~s, dags |-> {}] :
        o \in Arbitrary(Three, {{}, Three}), l \in Lists, s \in BOOLEAN}
    \cup
    {[nodes |-> Nodes, interface |-> i, separators |-> o, lists |-> NoLists, sepsets |-> s,
      threshold |-> <<1, 2>>, bidirected |-> TRUE, dags |-> {}] :
        o \in Arbitrary(Nodes, {{}}), i \in {{3}, {2, 3}}, s \in BOOLEAN}}

MCTasks == Cases

\* A chain 0 - 1 - 2 - 3 of which the caller directs both ends inwards.
Chain == CHOOSE f \in FaithfulTests :
    ClassGraph(f.dag) = [arcs |-> {}, edges |-> {{0, 1}, {1, 2}, {2, 3}}]

BidirectedTasks == {Task(
    [nodes |-> Nodes, interface |-> {}, separators |-> Chain.answers,
     lists |-> [NoLists EXCEPT !.arcWhitelist = {<<0, 1>>, <<3, 2>>}], sepsets |-> s,
     threshold |-> <<0, 1>>, bidirected |-> FALSE, dags |-> {}]) : s \in BOOLEAN}

===============================================================================
