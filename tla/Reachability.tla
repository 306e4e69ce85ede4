----------------------------- MODULE Reachability -----------------------------
(***************************************************************************)
(* Reachability and acyclicity in a directed graph given by a function ch  *)
(* from every node of the finite set N to the set of its children.  Both   *)
(* notions are stated without recursion, by quantifying over the subsets   *)
(* of N: TLC can evaluate them on small graphs, and TLAPS can reason about *)
(* them for every graph.                                                   *)
(***************************************************************************)

\* C contains the children of each of its members.
IsClosed(ch, C) == \A n \in C : ch[n] \subseteq C

\* The least closed set that contains S: the nodes a depth-first search
\* visits when its stack starts with S.
Closure(N, ch, S) ==
    {n \in N : \A C \in SUBSET N : S \subseteq C /\ IsClosed(ch, C) => n \in C}

\* Some path of one arc or more leads from s to t.
HasPath(N, ch, s, t) == t \in Closure(N, ch, ch[s])

\* Every nonempty set of nodes has a member with no child in the set, that
\* is, no node can be reached from itself.
Acyclic(N, ch) ==
    \A S \in SUBSET N : S # {} => \E n \in S : ch[n] \cap S = {}

===============================================================================
