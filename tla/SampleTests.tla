------------------------------ MODULE SampleTests ------------------------------
(***************************************************************************)
(* The independence tests and the restrictions with which the              *)
(* constraint-based algorithms are checked: the answers of a faithful test *)
(* for every equivalence class of directed acyclic graphs, arbitrary       *)
(* answers, and lists that make each step of validate_restrictions matter. *)
(***************************************************************************)
EXTENDS PartialDag

\* One directed acyclic graph of each equivalence class, and the answers of a test
\* that is faithful to it.  (The sets are constants of their own, which TLC evaluates
\* once.)
Dags == {[arcs |-> A, edges |-> {}] : A \in {A \in SUBSET Arcs : ArcsAcyclic(A)}}

Representatives ==
    {CHOOSE d \in Dags : Skeleton(d) = c[1] /\ VStructures(d) = c[2] :
        c \in {<<Skeleton(d), VStructures(d)>> : d \in Dags}}

FaithfulTests == {[answers |-> Answers(d), dag |-> d] : d \in Representatives}

\* The answers a test can give for the pairs of the nodes N: independent given any
\* of the sets, each without the pair itself.
Arbitrary(N, sets) ==
    {[e \in Edges |-> IF e \subseteq N THEN {S \ e : S \in o[e]} ELSE {}] :
        o \in [{e \in Edges : e \subseteq N} -> SUBSET sets]}

NoLists == [arcBlacklist |-> {}, arcWhitelist |-> {}, edgeBlacklist |-> {}, edgeWhitelist |-> {}]

Lists == {NoLists,
    [NoLists EXCEPT !.arcWhitelist = {<<0, 1>>}, !.edgeWhitelist = {{0, 2}}],
    [NoLists EXCEPT !.arcWhitelist = {<<0, 1>>, <<1, 2>>, <<2, 0>>}],
    [NoLists EXCEPT !.arcWhitelist = {<<0, 1>>, <<1, 0>>}],
    [NoLists EXCEPT !.arcBlacklist = {<<0, 1>>}],
    [NoLists EXCEPT !.arcBlacklist = {<<1, 0>>}, !.edgeWhitelist = {{0, 1}, {1, 2}}],
    [NoLists EXCEPT !.arcBlacklist = {<<0, 1>>, <<1, 0>>}],
    [NoLists EXCEPT !.arcBlacklist = {<<0, 1>>, <<1, 0>>}, !.edgeWhitelist = {{0, 1}}],
    [NoLists EXCEPT !.edgeBlacklist = {{0, 1}}]}

===============================================================================
