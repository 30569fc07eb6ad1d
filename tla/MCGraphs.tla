------------------------------ MODULE MCGraphs ------------------------------
(* Small graphs for graph.Sort and graph.SCCs: every dependency graph over *)
(* four distinctly named statements, and four statements with duplicate    *)
(* names, no name and a dependency nobody defines, keyed against the order *)
(* of the slice.                                                           *)
EXTENDS DepGraph

\* Object names; x is never defined.
MCName == {"a", "b", "c", "d", "x"}

Distinct == <<"a", "b", "c", "d">>

\* Every digraph on the four names, node i being the i-th by key.
AllDigraphs ==
    {[name |-> Distinct, deps |-> d, key |-> [i \in Node |-> i]] :
        d \in {f \in [Node -> SUBSET {"a", "b", "c", "d"}] :
                  \A i \in Node : Distinct[i] \notin f[i]}}

\* Duplicate definitions (the last one wins), unnamed statements, self and
\* undefined dependencies, the last node of the slice being first by key.
Shadowed ==
    {[name |-> n, deps |-> d, key |-> [i \in Node |-> N - i]] :
        n \in [Node -> {"a", "b", NoName}],
        d \in [Node -> {{}, {"a"}, {"b", "x"}, {"a", "b"}}]}

MCInputs == AllDigraphs \cup Shadowed
=============================================================================
