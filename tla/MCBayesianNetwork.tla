-------------------------- MODULE MCBayesianNetwork --------------------------
(* BayesianNetwork on three names, from networks of two nodes. *)
EXTENDS BayesianNetwork

MCNodeLists == {<<"a", "b">>}

\* A network of three nodes is edited until there were two edits, a smaller
\* one until there were three.
MCMaxEdits == [n \in 0 .. MaxRaw |-> IF n = 3 THEN 2 ELSE 3]

\* One or two categorical columns.
MCDataSets ==
    {[n \in Names |-> IF n \in S THEN "categorical" ELSE "continuous"] :
        S \in {{"a"}, {"a", "b"}}}

MCShapes ==
    {[type |-> Linear, mixed |-> FALSE, fitted |-> b] : b \in BOOLEAN}
    \cup {[type |-> Discrete, mixed |-> FALSE, fitted |-> TRUE]}
===============================================================================
