------------------------------ MODULE DepGraph ------------------------------
(***************************************************************************)
(* The statement dependency graph of internal/graph: a slice of nodes,     *)
(* each with an optional defined name, the names it depends on and a sort  *)
(* key, and the rule by which a dependency name becomes an edge.  Sort     *)
(* and SCCs build their edges with the same rule, so both modules take it  *)
(* from here.                                                              *)
(*                                                                         *)
(* A graph is a record g.  g.name[i] is the name node i defines (NoName    *)
(* for ""), g.deps[i] the set of names it depends on (parse.Parse          *)
(* deduplicates them and nothing below depends on their order), and        *)
(* g.key[i] the rank of its (File, Index, SubIndex) triple, of which the   *)
(* code only ever compares the lexicographic order.                        *)
(***************************************************************************)
EXTENDS Integers, Sequences

CONSTANTS
    N,          \* number of nodes in the slice
    Name,       \* object names
    NoName      \* a statement that defines nothing

ASSUME SizeAssumption == N \in Nat
ASSUME NoNameAssumption == NoName \notin Name

\* Positions in the slice; byName's "last one wins" is about this order.
Node == 1..N

\* The slices graph.Sort and graph.SCCs are called with.  bundle gives every
\* statement its own (File, Index, SubIndex), so keys are distinct.
IsGraph(g) ==
    /\ g.name \in [Node -> Name \cup {NoName}]
    /\ g.deps \in [Node -> SUBSET Name]
    /\ g.key \in [Node -> Nat]
    /\ \A i, j \in Node : g.key[i] = g.key[j] => i = j

\* byName[g.name[j]] = j: no later node of the slice redefines the name.
WinsName(g, j) == \A k \in Node : g.name[k] = g.name[j] => k <= j

\* The nodes that must precede node i: the definers byName yields for its
\* dependencies.  A name nobody defines and a self-dependency are skipped.
Targets(g, i) ==
    {j \in Node \ {i} : g.name[j] \in g.deps[i] /\ WinsName(g, j)}

\* less(nodes[i], nodes[j])
Less(g, i, j) == g.key[i] < g.key[j]

\* i is the least element of S by (File, Index, SubIndex).
IsLeast(g, i, S) == i \in S /\ \A j \in S \ {i} : Less(g, i, j)

-----------------------------------------------------------------------------
(* Reference definitions, in terms of the edges alone. *)

\* The nodes in a sequence.
EmittedIn(s) == {s[p] : p \in 1..Len(s)}

\* The nodes not emitted whose dependencies have all been emitted.
CanFollow(g, s) ==
    {i \in Node \ EmittedIn(s) : Targets(g, i) \subseteq EmittedIn(s)}

\* With adj[u] the nodes u depends on: the nodes v depends on, directly or
\* not, which are those in every set that holds adj[v] and, with a node u,
\* adj[u].
Reachable(adj, v) ==
    LET closed == {S \in SUBSET Node :
                      adj[v] \subseteq S /\ \A u \in S : adj[u] \subseteq S}
    IN  {w \in Node : \A S \in closed : w \in S}

\* The nodes that share a cycle with v, v included: its strongly connected
\* component.
CycleMates(adj, v) == {v} \cup {w \in Reachable(adj, v) : v \in Reachable(adj, w)}
=============================================================================
