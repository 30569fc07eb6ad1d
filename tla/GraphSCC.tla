------------------------------ MODULE GraphSCC ------------------------------
(***************************************************************************)
(* graph.SCCs (internal/graph/scc.go): Tarjan's algorithm, started from    *)
(* the nodes in (File, Index, SubIndex) order, keeping the components with *)
(* more than one member.  The recursion of strongConnect is a stack of     *)
(* frames; each action is one iteration of its neighbour loop, its entry   *)
(* or its tail.                                                            *)
(***************************************************************************)
EXTENDS DepGraph, FiniteSets

CONSTANT Inputs     \* the graphs SCCs is called with

ASSUME InputsAssumption == \A h \in Inputs : IsGraph(h)

VARIABLES
    g,          \* the argument
    adj,        \* adj[v]: the nodes v depends on
    frames,     \* active calls: [node, todo], todo the neighbours left
    index,      \* visit number, -1 while not visited
    low,
    stack,      \* Tarjan's stack of nodes
    counter,
    components, \* every component popped, of any size, as a sequence
    result      \* [done |-> has SCCs returned, comps |-> what it returned]

vars == <<g, adj, frames, index, low, stack, counter, components, result>>

Visited == {v \in Node : index[v] # -1}
OnStack == {stack[p] : p \in 1..Len(stack)}

TypeOK ==
    /\ IsGraph(g)
    /\ adj \in [Node -> SUBSET Node]
    /\ frames \in Seq([node : Node, todo : SUBSET Node])
    /\ index \in [Node -> -1..(N - 1)]
    /\ low \in [Node -> 0..N]
    /\ stack \in Seq(Node)
    /\ counter \in 0..N
    /\ components \in Seq(Seq(Node))
    /\ result \in [done : BOOLEAN, comps : Seq(Seq(Node))]

Init ==
    /\ g \in Inputs
    /\ adj = [v \in Node |-> Targets(g, v)]
    /\ frames = << >>
    /\ index = [v \in Node |-> -1]
    /\ low = [v \in Node |-> 0]
    /\ stack = << >>
    /\ counter = 0
    /\ components = << >>
    /\ result = [done |-> FALSE, comps |-> << >>]

Top == frames[Len(frames)]
Below == SubSeq(frames, 1, Len(frames) - 1)

\* The entry of strongConnect(v), called with the frames fs below it.
Enter(v, fs) ==
    /\ index' = [index EXCEPT ![v] = counter]
    /\ low' = [low EXCEPT ![v] = counter]
    /\ counter' = counter + 1
    /\ stack' = Append(stack, v)
    /\ frames' = Append(fs, [node |-> v, todo |-> adj[v]])
    /\ UNCHANGED <<g, adj, components, result>>

\* The nodes the loop of SCCs has left to start from.
Roots == Node \ Visited

StartRoot ==
    /\ ~result.done
    /\ frames = << >>
    /\ \E v \in Roots : IsLeast(g, v, Roots) /\ Enter(v, << >>)

\* Slip: the neighbour loop stays at w.
StillAt(w) == frames

\* The frames once the neighbour loop of the topmost call has moved past w.
Past(w) == Append(Below, [Top EXCEPT !.todo = @ \ {w}])

\* The next neighbour is not visited: recurse into it.
Descend ==
    /\ frames # << >>
    /\ \E w \in Top.todo \ Visited :
          /\ IsLeast(g, w, Top.todo)
          /\ Enter(w, Past(w))

\* Slip: a neighbour of a component already popped lowers low[v].
LowersAny(w) == index[w] < low[Top.node]

\* A visited neighbour lowers low[v] if it is still on the stack.
Lowers(w) == w \in OnStack /\ index[w] < low[Top.node]

LookAtVisited ==
    /\ frames # << >>
    /\ \E w \in Top.todo \cap Visited :
          /\ IsLeast(g, w, Top.todo)
          /\ low' = [low EXCEPT ![Top.node] = IF Lowers(w) THEN index[w] ELSE @]
          /\ frames' = Past(w)
    /\ UNCHANGED <<g, adj, index, stack, counter, components, result>>

\* Slip: the loop stops when it meets v, before popping it.
PoppedAbove(v) ==
    LET p == CHOOSE q \in 1..Len(stack) : stack[q] = v
    IN  [k \in 1..(Len(stack) - p) |-> stack[Len(stack) - k + 1]]

\* The members popped for root v: the stack from v up, last pushed first.
Popped(v) ==
    LET p == CHOOSE q \in 1..Len(stack) : stack[q] = v
    IN  [k \in 1..(Len(stack) - p + 1) |-> stack[Len(stack) - k + 1]]

\* The neighbours are done: pop v's component if v is its root, and return
\* low[v] to the caller's loop.
Leave ==
    /\ frames # << >>
    /\ Top.todo = {}
    /\ LET v == Top.node
           isRoot == low[v] = index[v]
           n == Len(stack) - (IF isRoot THEN Len(Popped(v)) ELSE 0)
       IN  /\ stack' = SubSeq(stack, 1, n)
           /\ components' = IF isRoot THEN Append(components, Popped(v)) ELSE components
           /\ low' = IF Below = << >>
                     THEN low
                     ELSE LET u == Below[Len(Below)].node
                          IN  [low EXCEPT ![u] = IF low[v] < @ THEN low[v] ELSE @]
    /\ frames' = Below
    /\ UNCHANGED <<g, adj, index, counter, result>>

Members(c) == {c[p] : p \in 1..Len(c)}

\* sort.Slice(comp, less): the members of a component in key order.
InKeyOrder(S) ==
    CHOOSE s \in [1..Cardinality(S) -> S] :
        \A p, q \in 1..Cardinality(S) : p < q => Less(g, s[p], s[q])

\* Slip: components of one member are reported too.
AnyComponent == {Members(components[k]) : k \in 1..Len(components)}

\* The components with several members.
Several == {C \in {Members(components[k]) : k \in 1..Len(components)} : Cardinality(C) > 1}

\* Each sorted, and ordered by first member.
Reported ==
    LET several == {InKeyOrder(C) : C \in Several}
    IN  CHOOSE s \in [1..Cardinality(several) -> several] :
            \A p, q \in 1..Cardinality(several) : p < q => Less(g, s[p][1], s[q][1])

Return ==
    /\ ~result.done
    /\ frames = << >>
    /\ Visited = Node
    /\ result' = [done |-> TRUE, comps |-> Reported]
    /\ UNCHANGED <<g, adj, frames, index, low, stack, counter, components>>

Returned == result.done /\ UNCHANGED vars

Next ==
    \/ StartRoot
    \/ Descend
    \/ LookAtVisited
    \/ Leave
    \/ Return
    \/ Returned

Spec == Init /\ [][Next]_vars

\* SCCs runs in the caller's goroutine and never waits for another one.
FairSpec == Spec /\ WF_vars(Next)

-----------------------------------------------------------------------------
(* Properties *)

\* A component, once popped, is a whole strongly connected component: Tarjan
\* never splits a cycle and never merges two.
PoppedAreComponents ==
    \A k \in 1..Len(components) :
        \A v \in Members(components[k]) : Members(components[k]) = CycleMates(adj, v)

\* Between iterations the stack holds the visited nodes without a component,
\* and each of them still leads to an active call: an open component always
\* has a call left that will pop it.
StackIsOpenNodes ==
    /\ OnStack = Visited \ UNION {Members(components[k]) : k \in 1..Len(components)}
    /\ \A v \in OnStack : \E k \in 1..Len(frames) :
          frames[k].node \in {v} \cup Reachable(adj, v)

\* What SCCs returns: exactly the components with several members, each
\* once, members and components in key order, so that two runs agree.
ReturnsTheCycles ==
    result.done =>
        /\ {Members(result.comps[k]) : k \in 1..Len(result.comps)} =
              {CycleMates(adj, v) : v \in {u \in Node : u \in Reachable(adj, u)}}
        /\ \A j, k \in 1..Len(result.comps) :
              j < k => Less(g, result.comps[j][1], result.comps[k][1])
        /\ \A k \in 1..Len(result.comps) : \A p, q \in 1..Len(result.comps[k]) :
              p < q => Less(g, result.comps[k][p], result.comps[k][q])

\* SCCs returns.
SCCsReturns == <>(result.done)
=============================================================================
