-------------------------- MODULE DependencyOrder --------------------------
(***************************************************************************)
(* What graph.Sort promises its callers, without Kahn's counters: it emits *)
(* one node after another, each time the first one (by File, Index,        *)
(* SubIndex) whose dependencies have all been emitted, and it reports a    *)
(* cycle exactly when nodes are left over and none of them can follow.     *)
(***************************************************************************)
EXTENDS DepGraph

VARIABLES
    g,          \* the graph to sort
    order,      \* the nodes emitted so far
    outcome     \* "running", "sorted" or "cycle"

dvars == <<g, order, outcome>>

Start ==
    /\ order = << >>
    /\ outcome = "running"

Emit ==
    /\ outcome = "running"
    /\ \E i \in CanFollow(g, order) :
          /\ IsLeast(g, i, CanFollow(g, order))
          /\ order' = Append(order, i)
    /\ UNCHANGED <<g, outcome>>

Complete ==
    /\ outcome = "running"
    /\ EmittedIn(order) = Node
    /\ outcome' = "sorted"
    /\ UNCHANGED <<g, order>>

Reject ==
    /\ outcome = "running"
    /\ EmittedIn(order) # Node
    /\ CanFollow(g, order) = {}
    /\ outcome' = "cycle"
    /\ UNCHANGED <<g, order>>

Step == Emit \/ Complete \/ Reject

Promise == Start /\ [][Step]_dvars
=============================================================================
