----------------------------- MODULE GraphSort -----------------------------
(***************************************************************************)
(* graph.Sort (internal/graph/graph.go): Kahn's algorithm with a ready     *)
(* heap ordered by (File, Index, SubIndex), and findCyclePath, which walks *)
(* the nodes Kahn's loop could not reach to report one cycle.              *)
(*                                                                         *)
(* The function is sequential.  Each action is one iteration of one of its *)
(* loops, so that its counters and its heap can be compared with the graph *)
(* between iterations.                                                     *)
(***************************************************************************)
EXTENDS DepGraph, FiniteSets

CONSTANT Inputs     \* the graphs Sort is called with

ASSUME InputsAssumption == \A h \in Inputs : IsGraph(h)

VARIABLES
    g,          \* the argument
    pc,         \* "edges", "pop", "walk", "sorted" or "cycle"
    scan,       \* next node whose edges are to be added
    indegree,   \* indegree[i]: dependencies of i not emitted yet
    dependents, \* dependents[j]: nodes waiting for j
    ready,      \* the heap
    order,      \* the nodes emitted
    path        \* findCyclePath's walk, at the end the cycle reported

vars == <<g, pc, scan, indegree, dependents, ready, order, path>>

Emitted == EmittedIn(order)

\* findCyclePath's remaining: the nodes Kahn's loop did not visit.
Remaining == Node \ Emitted

TypeOK ==
    /\ IsGraph(g)
    /\ pc \in {"edges", "pop", "walk", "sorted", "cycle"}
    /\ scan \in 1..(N + 1)
    /\ indegree \in [Node -> Nat]
    /\ dependents \in [Node -> SUBSET Node]
    /\ ready \in SUBSET Node
    /\ order \in Seq(Node)
    /\ path \in Seq(Node)

Init ==
    /\ g \in Inputs
    /\ pc = "edges"
    /\ scan = 1
    /\ indegree = [i \in Node |-> 0]
    /\ dependents = [i \in Node |-> {}]
    /\ ready = {}
    /\ order = << >>
    /\ path = << >>

\* Slip: an edge to a node further down the slice is not counted.
CountBackwards(i) == Cardinality(Targets(g, i) \cap 1..i)

Count(i) == Cardinality(Targets(g, i))

\* One iteration of the loop that counts each node's distinct resolved
\* dependencies and registers it with them.
AddEdges ==
    /\ pc = "edges"
    /\ scan <= N
    /\ indegree' = [indegree EXCEPT ![scan] = Count(scan)]
    /\ dependents' = [j \in Node |->
          IF j \in Targets(g, scan) THEN dependents[j] \cup {scan} ELSE dependents[j]]
    /\ scan' = scan + 1
    /\ UNCHANGED <<g, pc, ready, order, path>>

\* Slip: a name nobody defines keeps its statement waiting.
FreeOfNames == {i \in Node : g.deps[i] = {}}

\* The nodes without dependencies.
Free == {i \in Node : indegree[i] = 0}

SeedReady ==
    /\ pc = "edges"
    /\ scan = N + 1
    /\ ready' = Free
    /\ pc' = "pop"
    /\ UNCHANGED <<g, scan, indegree, dependents, order, path>>

\* Slip: a dependent registered twice is released twice.
ReleasedTwice(i) ==
    [j \in Node |-> IF j \in dependents[i] THEN indegree[j] - 2 ELSE indegree[j]]

\* indegree[j]-- for every dependent j of i.
Released(i) ==
    [j \in Node |-> IF j \in dependents[i] THEN indegree[j] - 1 ELSE indegree[j]]

\* Slip: the ready nodes are not kept in key order.
AnyReady(i) == i \in ready

FirstReady(i) == IsLeast(g, i, ready)

\* One iteration of the main loop: pop the least ready node, emit it, and
\* push the dependents whose count reaches zero.
PopReady ==
    /\ pc = "pop"
    /\ \E i \in ready :
          /\ FirstReady(i)
          /\ order' = Append(order, i)
          /\ indegree' = Released(i)
          /\ ready' = (ready \ {i}) \cup {j \in dependents[i] : Released(i)[j] = 0}
    /\ UNCHANGED <<g, pc, scan, dependents, path>>

\* Slip: the loop waits for one more node than there are.
ReturnOrderLate ==
    /\ pc = "pop"
    /\ ready = {}
    /\ Len(order) > N
    /\ pc' = "sorted"
    /\ UNCHANGED <<g, scan, indegree, dependents, ready, order, path>>

ReturnOrder ==
    /\ pc = "pop"
    /\ ready = {}
    /\ Len(order) >= N
    /\ pc' = "sorted"
    /\ UNCHANGED <<g, scan, indegree, dependents, ready, order, path>>

\* Fewer nodes were emitted than given: findCyclePath starts at the least
\* remaining node.
StartCyclePath ==
    /\ pc = "pop"
    /\ ready = {}
    /\ Len(order) < N
    /\ \E i \in Remaining : IsLeast(g, i, Remaining) /\ path' = <<i>>
    /\ pc' = "walk"
    /\ UNCHANGED <<g, scan, indegree, dependents, ready, order>>

\* Slip: the walk follows dependencies that were emitted.
HopsAnywhere(i) == Targets(g, i)

\* edges[i]: forward edges restricted to remaining nodes.
Hops(i) == Targets(g, i) \cap Remaining

\* One iteration of the walk: follow the least remaining dependency.  When
\* the walk meets itself at position p the path is cut to path[p..] with
\* the repeated node at its end; without a hop the walk ends as it is.
FollowHop ==
    /\ pc = "walk"
    /\ LET hops == Hops(path[Len(path)]) IN
       IF hops = {}
       THEN /\ pc' = "cycle"
            /\ path' = path
       ELSE \E next \in hops :
              /\ IsLeast(g, next, hops)
              /\ IF \E p \in 1..Len(path) : path[p] = next
                 THEN \E p \in 1..Len(path) :
                        /\ path[p] = next
                        /\ path' = SubSeq(Append(path, next), p, Len(path) + 1)
                        /\ pc' = "cycle"
                 ELSE /\ path' = Append(path, next)
                      /\ pc' = "walk"
    /\ UNCHANGED <<g, scan, indegree, dependents, ready, order>>

\* Sort has returned.
Returned ==
    /\ pc \in {"sorted", "cycle"}
    /\ UNCHANGED vars

Next ==
    \/ AddEdges
    \/ SeedReady
    \/ PopReady
    \/ ReturnOrder
    \/ StartCyclePath
    \/ FollowHop
    \/ Returned

Spec == Init /\ [][Next]_vars

\* Sort runs in the caller's goroutine and never waits for another one.
FairSpec == Spec /\ WF_vars(Next)

-----------------------------------------------------------------------------
(* Properties *)

\* A statement is emitted at most once, and only after every statement that
\* defines one of its dependencies: the order Sort returns can be executed
\* from the top.  Kahn's counters are right only if each distinct dependency
\* is counted once and released once.
TopologicalOrder ==
    /\ \A p, q \in 1..Len(order) : order[p] = order[q] => p = q
    /\ \A p \in 1..Len(order) :
          \A j \in Targets(g, order[p]) : \E q \in 1..(p - 1) : order[q] = j

\* The counters keep up with the order, for a dependency of any age: what
\* indegree[i] counts are the dependencies of i not emitted yet, and i is
\* registered with each of its dependencies, emitted or not.
CountsAreExact ==
    /\ \A i \in Node : indegree[i] =
          IF i < scan THEN Cardinality(Targets(g, i) \ Emitted) ELSE 0
    /\ \A j \in Node : dependents[j] = {i \in 1..(scan - 1) : j \in Targets(g, i)}

\* Between iterations the heap holds exactly the nodes not emitted whose
\* dependencies all are: no node is forgotten by a count that misses zero
\* and none is pushed twice.
ReadyIsExact ==
    pc = "pop" => ready = CanFollow(g, order)

\* The path of a CycleError is a real cycle: it closes on itself, every hop
\* is a dependency between two nodes of the graph, and no node but the
\* first is repeated.  findCyclePath relies on every unvisited node having
\* an unvisited dependency; if one had none the path would not close.
CycleIsReal ==
    pc = "cycle" =>
        /\ Len(path) >= 3
        /\ path[1] = path[Len(path)]
        /\ \A p \in 1..(Len(path) - 1) : path[p + 1] \in Targets(g, path[p])
        /\ \A p, q \in 1..(Len(path) - 1) : path[p] = path[q] => p = q

\* Sort returns, with an order or with a cycle.
SortReturns == <>(pc \in {"sorted", "cycle"})

\* Sort keeps the promise of DependencyOrder: same choices, same verdict.
Promised == INSTANCE DependencyOrder WITH
    outcome <- CASE pc \in {"edges", "pop"} -> "running"
                 [] pc = "sorted" -> "sorted"
                 [] OTHER -> "cycle"

KeepsPromise == Promised!Promise
=============================================================================
