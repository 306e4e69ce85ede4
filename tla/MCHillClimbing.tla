---------------------------- MODULE MCHillClimbing ----------------------------
(***************************************************************************)
(* Searches over three nodes.  A score gives each arc a weight, and a      *)
(* bonus to a node with two parents, so that an arc may pay only together  *)
(* with another one.                                                       *)
(***************************************************************************)
EXTENDS HillClimbing

CONSTANTS a, b, c

Order == [n \in Nodes |-> IF n = a THEN 0 ELSE IF n = b THEN 1 ELSE 2]

Pairs == {q \in Nodes \X Nodes : q[1] # q[2]}

\* A CKDE node scores its parents by other weights than a linear Gaussian one.
TypedTable(linear, ckde, bonus) ==
    [n \in Nodes |-> [T \in NodeTypes |-> [P \in SUBSET Nodes |->
        (IF Cardinality(P) = 2 THEN bonus ELSE 0) +
        LET w(m) == IF m \notin P \/ m = n THEN 0
                    ELSE IF T = "CKDE" THEN ckde[<<m, n>>] ELSE linear[<<m, n>>]
        IN  w(a) + w(b) + w(c)]]]

Table(weight, bonus) == TypedTable(weight, weight, bonus)

Weights(low, high) == [Pairs -> {low, high}]

AllLinear == [n \in Nodes |-> "LinearGaussian"]
Parents(pa, pb, pc) == [n \in Nodes |-> IF n = a THEN pa ELSE IF n = b THEN pb ELSE pc]
Linear(parents) == [parents |-> parents, type |-> AllLinear]

Empty == Linear(Parents({}, {}, {}))
Chain == Linear(Parents({}, {a}, {b}))
Full == Linear(Parents({}, {a}, {a, b}))

Arcs(g) == {q \in Pairs : q[1] \in g.parents[q[2]]}

Memory(x) == [q \in Nodes \X Nodes |-> x]

\* Scores alone.
Unvalidated ==
    [interface : {{}},
     score : {Table(w, bonus) : w \in Weights(-2, 1), bonus \in {0, -3, 3}},
     val : {Table([q \in Pairs |-> 0], 0)}, validated : {FALSE},
     operators : {{"arcs"}}, typeBlacklist : {{}}, typeWhitelist : {{}},
     blacklist : {{}}, whitelist : {{}}, indegree : {0}, epsilon : {0},
     patience : {0}, start : {Empty, Chain, Full}, memory : {Memory(0)}]

\* A validation score that likes a few arcs, so that the search loses before it
\* finds a better network, or does not find one.
Likes == {{<<a, b>>, <<b, c>>}, {<<b, a>>, <<c, b>>, <<a, c>>}, Pairs}
Taste(L) == [q \in Pairs |-> IF q \in L THEN 1 ELSE -1]

Validated ==
    [interface : {{}},
     score : {Table(w, 3) : w \in Weights(-2, 1)},
     val : {Table(Taste(L), bonus) : L \in Likes, bonus \in {-4, 2}},
     validated : {TRUE},
     operators : {{"arcs"}}, typeBlacklist : {{}}, typeWhitelist : {{}},
     blacklist : {{}}, whitelist : {{}}, indegree : {0}, epsilon : {0},
     patience : {0, 2}, start : {Empty, Full}, memory : {Memory(0)}]

\* Arcs forbidden and forced, one parent at most, a minimum delta.
Restricted ==
    [interface : {{}},
     score : {Table(w, 0) : w \in Weights(1, 2)},
     val : {Table(Taste({<<a, b>>, <<b, c>>}), 0)}, validated : {TRUE},
     operators : {{"arcs"}}, typeBlacklist : {{}}, typeWhitelist : {{}},
     blacklist : {{<<a, c>>}, {<<c, a>>, <<a, c>>}}, whitelist : {{<<a, b>>}},
     indegree : {0, 1}, epsilon : {0, 1}, patience : {2}, start : {Chain},
     memory : {Memory(0)}]

\* Semiparametric networks: types that change, that are forced on the last node or
\* on the first, and a discrete node, whose forbidden arcs have a delta nobody
\* has computed.
Mixed == [parents |-> Parents({}, {a}, {}),
          type |-> [n \in Nodes |-> IF n = b THEN "LinearGaussian" ELSE "CKDE"]]
WithDiscrete(n) == [Empty EXCEPT !.type[n] = "Discrete"]

Semiparametric ==
    [interface : {{}},
     score : {TypedTable(w, [q \in Pairs |-> 1], bonus) : w \in Weights(-1, 2), bonus \in {-3, 0}},
     val : {TypedTable(Taste({<<a, b>>, <<b, c>>}), Taste(Pairs), 0)},
     validated : BOOLEAN,
     operators : {{"arcs", "node_type"}}, typeBlacklist : {{}},
     typeWhitelist : {{}, {<<c, "CKDE">>}, {<<a, "CKDE">>}},
     blacklist : {{}}, whitelist : {{}}, indegree : {0}, epsilon : {0},
     patience : {2}, start : {Mixed}, memory : {Memory(0)}]

Discretes ==
    [interface : {{}},
     score : {TypedTable(w, [q \in Pairs |-> 1], 0) : w \in Weights(-1, 2)},
     val : {TypedTable(Taste({<<a, b>>, <<b, c>>}), Taste(Pairs), 0)},
     validated : {TRUE},
     operators : {{"arcs", "node_type"}}, typeBlacklist : {{}}, typeWhitelist : {{}},
     blacklist : {{}}, whitelist : {{}}, indegree : {0}, epsilon : {0},
     patience : {1}, start : {WithDiscrete(a), WithDiscrete(b)},
     memory : {Memory(9), Memory(-9)}]

\* A start network with an arc that its types forbid, whose removal has a delta
\* nobody has computed.
Forbidden ==
    {[q EXCEPT !.start.parents[b] = {a}] : q \in {r \in Discretes : r.start = WithDiscrete(b)}}

\* Conditional networks: c is an interface node, of a known type or of none.
WithInterface(n, T) == [WithDiscrete(n) EXCEPT !.type[c] = T, !.parents[a] = {c}]

Interfaced ==
    [interface : {{c}},
     score : {Table(w, bonus) : w \in Weights(-2, 1), bonus \in {0, 3}},
     val : {Table(Taste({<<a, b>>, <<c, b>>}), 0)}, validated : BOOLEAN,
     operators : {{"arcs"}}, typeBlacklist : {{}}, typeWhitelist : {{}},
     blacklist : {{}, {<<c, b>>}}, whitelist : {{}, {<<c, a>>}}, indegree : {0, 1},
     epsilon : {0}, patience : {1},
     start : {[Chain EXCEPT !.parents = Parents({c}, {a}, {})]}, memory : {Memory(0)}]

InterfacedTypes ==
    {[q EXCEPT !.interface = {c}, !.start = WithInterface(n, T)] :
        q \in Discretes, n \in {a, b}, T \in {"Unknown", "CKDE"}}

\* The entry of c stands where the discrete node b is looked for.
Shifted ==
    {[q EXCEPT !.typeWhitelist = {<<a, "LinearGaussian">>}] :
        q \in {r \in Discretes : r.start = WithDiscrete(b) /\ r.memory = Memory(9)}}

TypesAlone ==
    [interface : {{}},
     score : {TypedTable(w, [q \in Pairs |-> 1], bonus) :
                 w \in {[q \in Pairs |-> IF q \in L THEN 2 ELSE -1] : L \in SUBSET Arcs(Full)},
                 bonus \in {-3, 0}},
     val : {TypedTable(Taste({<<a, b>>, <<b, c>>}), Taste(Pairs), 0)},
     validated : BOOLEAN,
     operators : {{"node_type"}},
     typeBlacklist : {{}, {<<b, "CKDE">>, <<c, "LinearGaussian">>}},
     typeWhitelist : {{}, {<<a, "LinearGaussian">>}},
     blacklist : {{}}, whitelist : {{}}, indegree : {0}, epsilon : {0},
     patience : {1}, start : {Full}, memory : {Memory(0)}]

Searches ==
    Unvalidated \cup Validated \cup Restricted
        \cup Semiparametric \cup Discretes \cup Shifted \cup TypesAlone
        \cup Forbidden \cup Interfaced \cup InterfacedTypes

===============================================================================
