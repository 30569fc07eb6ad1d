--------------------------- MODULE GraphSCCProofs ---------------------------
(***************************************************************************)
(* Tarjan's algorithm as graph.SCCs runs it is correct: proofs about       *)
(* GraphSCC, for every number of nodes and every set of inputs.            *)
(***************************************************************************)
EXTENDS GraphSCC, FiniteSetTheorems, SequenceTheorems, TLAPS

-----------------------------------------------------------------------------
(* Reachability, from its definition by closed sets *)

\* What u leads to, u included.
Leads(a, u) == {u} \cup Reachable(a, u)

\* What is reachable holds the neighbours and is closed.
LEMMA ReachableIsClosed ==
    ASSUME NEW a \in [Node -> SUBSET Node], NEW u \in Node
    PROVE  /\ Reachable(a, u) \subseteq Node
           /\ a[u] \subseteq Reachable(a, u)
           /\ \A w \in Reachable(a, u) : a[w] \subseteq Reachable(a, u)
BY DEF Reachable

\* ... and is the least such set.
LEMMA ReachableIsLeast ==
    ASSUME NEW a \in [Node -> SUBSET Node], NEW u \in Node, NEW S \in SUBSET Node,
           a[u] \subseteq S, \A w \in S : a[w] \subseteq S
    PROVE  Reachable(a, u) \subseteq S
BY DEF Reachable

LEMMA ReachableIsTransitive ==
    ASSUME NEW a \in [Node -> SUBSET Node], NEW u \in Node, NEW w \in Reachable(a, u)
    PROVE  Reachable(a, w) \subseteq Reachable(a, u)
<1>1. /\ w \in Node /\ Reachable(a, u) \in SUBSET Node /\ a[w] \subseteq Reachable(a, u)
      /\ \A x \in Reachable(a, u) : a[x] \subseteq Reachable(a, u)
  BY ReachableIsClosed
<1> QED
  BY <1>1, ReachableIsLeast

LEMMA LeadsIsTransitive ==
    ASSUME NEW a \in [Node -> SUBSET Node], NEW u \in Node, NEW w \in Leads(a, u)
    PROVE  w \in Node /\ Leads(a, w) \subseteq Leads(a, u)
<1>1. w \in Node
  BY ReachableIsClosed DEF Leads
<1> QED
  BY <1>1, ReachableIsTransitive DEF Leads

\* An edge out of what u leads to.
LEMMA LeadsOverEdge ==
    ASSUME NEW a \in [Node -> SUBSET Node], NEW u \in Node, NEW w \in Leads(a, u), NEW x \in a[w]
    PROVE  x \in Leads(a, u)
BY ReachableIsClosed DEF Leads

\* A set of nodes is a strongly connected component when it and a closed set
\* beside it hold all its edges, and its members lead to each other.
LEMMA ComponentIsCycleMates ==
    ASSUME NEW a \in [Node -> SUBSET Node], NEW C \in SUBSET Node, NEW D \in SUBSET Node,
           C \cap D = {},
           \A x \in C : a[x] \subseteq C \cup D,
           \A x \in D : a[x] \subseteq D,
           \A x, y \in C : y \in Leads(a, x),
           NEW v \in C
    PROVE  C = CycleMates(a, v)
<1>1. ASSUME NEW w \in C PROVE w \in CycleMates(a, v)
  <2>1. w = v \/ (w \in Reachable(a, v) /\ v \in Reachable(a, w))
    BY <1>1 DEF Leads
  <2> QED
    BY <2>1 DEF CycleMates
<1>2. ASSUME NEW w \in CycleMates(a, v) PROVE w \in C
  <2> SUFFICES ASSUME w \in Reachable(a, v), v \in Reachable(a, w) PROVE w \in C
    BY DEF CycleMates
  <2>1. w \in C \cup D
    BY ReachableIsLeast
  <2>2. ASSUME w \in D PROVE FALSE
    <3>1. Reachable(a, w) \subseteq D
      BY <2>2, ReachableIsLeast
    <3> QED
      BY <3>1
  <2> QED
    BY <2>1, <2>2
<1> QED
  BY <1>1, <1>2

\* Without an edge from v to itself, v reaches itself only over another node
\* that shares a cycle with it.
LEMMA CycleHasTwo ==
    ASSUME NEW a \in [Node -> SUBSET Node], NEW v \in Node, v \notin a[v], v \in Reachable(a, v)
    PROVE  \E w \in CycleMates(a, v) : w # v
<1> SUFFICES ASSUME \A w \in CycleMates(a, v) : w = v PROVE FALSE
  OBVIOUS
<1> DEFINE S == Reachable(a, v) \ {v}
<1>1. /\ Reachable(a, v) \subseteq Node /\ a[v] \subseteq Reachable(a, v)
      /\ \A w \in Reachable(a, v) : a[w] \subseteq Reachable(a, v)
  BY ReachableIsClosed
<1>2. ASSUME NEW w \in S, v \in a[w] PROVE FALSE
  <2>1. v \in Reachable(a, w)
    BY <1>1, <1>2, ReachableIsClosed
  <2> QED
    BY <1>2, <2>1 DEF CycleMates
<1>3. S \in SUBSET Node /\ a[v] \subseteq S /\ \A w \in S : a[w] \subseteq S
  BY <1>1, <1>2
<1> HIDE DEF S
<1>4. Reachable(a, v) \subseteq S
  BY <1>3, ReachableIsLeast
<1> QED
  BY <1>4 DEF S

-----------------------------------------------------------------------------
(* The inductive invariant *)

Done == UNION {Members(components[k]) : k \in 1..Len(components)}
Calls == 1..Len(frames)
Caller(k) == frames[k].node

\* The neighbours of x its call has moved past; all of them once it is over.
Handled(x) == {y \in adj[x] : \A k \in Calls : Caller(k) = x => y \notin frames[k].todo}

AdjacencyIsFixed == \A v \in Node : adj[v] = Targets(g, v)

\* Visit numbers are given out one by one.
Numbered ==
    /\ counter = Cardinality(Visited)
    /\ \A x \in Visited : index[x] < counter
    /\ \A x, y \in Visited : index[x] = index[y] => x = y

StackInOrder == \A p, q \in 1..Len(stack) : p < q => index[stack[p]] < index[stack[q]]

CallsInOrder ==
    /\ \A k \in Calls : Caller(k) \in OnStack /\ frames[k].todo \subseteq adj[Caller(k)]
    /\ \A j, k \in Calls : j < k => index[Caller(j)] < index[Caller(k)]

VisitedIsSplit == OnStack \cup Done = Visited /\ OnStack \cap Done = {}

HandledIsVisited == \A x \in Visited : Handled(x) \subseteq Visited

DoneIsClosed == \A x \in Done : adj[x] \subseteq Done

\* An active call leads to all that was pushed since it began ...
CallsLeadUp ==
    \A k \in Calls : \A x \in OnStack :
        index[Caller(k)] <= index[x] => x \in Leads(adj, Caller(k))

\* ... and what is on the stack leads to a call that began before it.
StackLeadsDown ==
    \A x \in OnStack : \E k \in Calls :
        index[Caller(k)] <= index[x] /\ Caller(k) \in Leads(adj, x)

\* low[v] is the visit number of a node on the stack that v leads to ...
LowIsReached ==
    \A k \in Calls :
        /\ low[Caller(k)] <= index[Caller(k)]
        /\ \E y \in OnStack : index[y] = low[Caller(k)] /\ y \in Leads(adj, Caller(k))

\* The nodes pushed since call k began and before it made call k + 1.
Pushed(k) ==
    {x \in OnStack : /\ index[Caller(k)] <= index[x]
                     /\ k < Len(frames) => index[x] < index[Caller(k + 1)]}

\* ... and no more than that of a node on the stack that an edge handled so
\* far leads to, from v or a node whose call v has made.
LowIsLeast ==
    \A k \in Calls : \A x \in Pushed(k) : \A y \in Handled(x) \cap OnStack :
        low[Caller(k)] <= index[y]

IInv ==
    /\ TypeOK /\ AdjacencyIsFixed /\ Numbered /\ StackInOrder /\ CallsInOrder
    /\ VisitedIsSplit /\ HandledIsVisited /\ DoneIsClosed
    /\ CallsLeadUp /\ StackLeadsDown /\ LowIsReached /\ LowIsLeast
    /\ PoppedAreComponents

LEMMA NodeIsFinite == IsFiniteSet(Node) /\ Cardinality(Node) = N
BY FS_Interval, SizeAssumption DEF Node

\* What the sequences and functions of the state are made of.
LEMMA Shapes ==
    ASSUME TypeOK
    PROVE  /\ Len(stack) \in Nat /\ \A p \in 1..Len(stack) : stack[p] \in Node
           /\ Len(frames) \in Nat /\ OnStack \subseteq Node /\ Visited \subseteq Node
           /\ \A k \in Calls : /\ frames[k] \in [node : Node, todo : SUBSET Node]
                               /\ Caller(k) \in Node
           /\ adj \in [Node -> SUBSET Node]
           /\ \A x \in Node : index[x] \in Int /\ low[x] \in Int
           /\ \A x \in Visited : 0 <= index[x]
<1>1. /\ Len(stack) \in Nat /\ \A p \in 1..Len(stack) : stack[p] \in Node
      /\ Len(frames) \in Nat
      /\ \A k \in 1..Len(frames) : frames[k] \in [node : Node, todo : SUBSET Node]
  BY LenProperties, ElementOfSeq DEF TypeOK
<1>2. \A x \in Node : index[x] \in -1..(N - 1) /\ low[x] \in 0..N
  BY DEF TypeOK
<1>3. N \in Nat
  BY SizeAssumption
<1>4. /\ \A x \in Node : index[x] \in Int /\ low[x] \in Int
      /\ \A x \in Visited : 0 <= index[x]
  BY <1>2, <1>3 DEF Visited
<1>5. OnStack \subseteq Node /\ Visited \subseteq Node
  BY <1>1 DEF OnStack, Visited
<1>6. \A k \in Calls : frames[k] \in [node : Node, todo : SUBSET Node] /\ Caller(k) \in Node
  BY <1>1 DEF Calls, Caller
<1>7. adj \in [Node -> SUBSET Node]
  BY DEF TypeOK
<1> QED
  BY <1>1, <1>4, <1>5, <1>6, <1>7

LEMMA InitIInv == Init => IInv
<1> SUFFICES ASSUME Init PROVE IInv
  OBVIOUS
<1>1. /\ Len(stack) = 0 /\ Len(frames) = 0 /\ Len(components) = 0
      /\ OnStack = {} /\ Calls = {} /\ Done = {}
  BY DEF Init, OnStack, Calls, Done
<1>2. Visited = {}
  BY DEF Init, Visited
<1>3. \A v \in Node : adj[v] = Targets(g, v) /\ Targets(g, v) \subseteq Node
  BY DEF Init, Targets
<1>4. TypeOK
  <2>1. IsGraph(g)
    BY InputsAssumption DEF Init
  <2>2. adj \in [Node -> SUBSET Node]
    BY <1>3 DEF Init
  <2>3. index \in [Node -> -1..(N - 1)] /\ low \in [Node -> 0..N] /\ counter \in 0..N
    BY SizeAssumption DEF Init
  <2>4. /\ frames \in Seq([node : Node, todo : SUBSET Node]) /\ stack \in Seq(Node)
        /\ components \in Seq(Seq(Node)) /\ result \in [done : BOOLEAN, comps : Seq(Seq(Node))]
    BY DEF Init
  <2> QED
    BY <2>1, <2>2, <2>3, <2>4 DEF TypeOK
<1>5. Numbered
  BY <1>2, FS_EmptySet DEF Numbered, Init
<1>6. /\ AdjacencyIsFixed /\ StackInOrder /\ CallsInOrder /\ VisitedIsSplit /\ HandledIsVisited
      /\ DoneIsClosed /\ CallsLeadUp /\ StackLeadsDown /\ LowIsReached /\ LowIsLeast
      /\ PoppedAreComponents
  BY <1>1, <1>2, <1>3 DEF AdjacencyIsFixed, StackInOrder, CallsInOrder, VisitedIsSplit,
     HandledIsVisited, DoneIsClosed, CallsLeadUp, StackLeadsDown, LowIsReached, LowIsLeast,
     PoppedAreComponents
<1> QED
  BY <1>4, <1>5, <1>6 DEF IInv

-----------------------------------------------------------------------------
(* The entry of strongConnect *)

\* The frames fs differ from the active ones in the topmost's neighbours left:
\* v may have been taken from them.
IsPast(fs, v) ==
    /\ fs \in Seq([node : Node, todo : SUBSET Node])
    /\ Len(fs) = Len(frames)
    /\ \A k \in Calls : /\ fs[k].node = Caller(k)
                        /\ fs[k].todo \subseteq frames[k].todo
                        /\ frames[k].todo \ {v} \subseteq fs[k].todo
    /\ frames # << >> => v \in adj[Top.node]

LEMMA EnterKeeps ==
    ASSUME IInv, NEW v \in Node \ Visited, NEW fs, IsPast(fs, v), Enter(v, fs),
           NEW n, n = Len(frames)
    PROVE  IInv'
<1>1. /\ TypeOK /\ n \in Nat /\ Calls = 1..n /\ v \in Node /\ v \notin OnStack
      /\ adj \in [Node -> SUBSET Node] /\ OnStack \subseteq Visited /\ Visited \subseteq Node
      /\ counter \in 0..N /\ N \in Nat
  BY Shapes, SizeAssumption DEF IInv, VisitedIsSplit, Calls, TypeOK
<1>2. /\ adj' = adj /\ g' = g /\ components' = components /\ result' = result
      /\ counter' = counter + 1
      /\ stack' = Append(stack, v)
      /\ frames' = Append(fs, [node |-> v, todo |-> adj[v]])
      /\ index' = [index EXCEPT ![v] = counter]
      /\ low' = [low EXCEPT ![v] = counter]
  BY DEF Enter
<1>3. /\ index'[v] = counter /\ low'[v] = counter
      /\ \A x \in Node \ {v} : index'[x] = index[x] /\ low'[x] = low[x]
  BY <1>1, <1>2 DEF TypeOK
<1>4. Visited' = Visited \cup {v}
  BY <1>1, <1>3 DEF Visited
<1>5. /\ Len(stack') = Len(stack) + 1 /\ stack' \in Seq(Node)
      /\ \A p \in 1..Len(stack) : stack'[p] = stack[p]
      /\ stack'[Len(stack) + 1] = v
  BY <1>1, <1>2, AppendProperties DEF TypeOK
<1>6. OnStack' = OnStack \cup {v}
  <2>1. Len(stack) \in Nat
    BY Shapes, <1>1
  <2> QED
    BY <1>5, <2>1 DEF OnStack
<1>7. Done' = Done
  BY <1>2 DEF Done, Members
<1>8. /\ frames' \in Seq([node : Node, todo : SUBSET Node])
      /\ Len(frames') = n + 1 /\ Calls' = 1..(n + 1)
      /\ Caller(n + 1)' = v /\ frames'[n + 1].todo = adj[v]
      /\ \A k \in 1..n : /\ Caller(k)' = Caller(k)
                         /\ frames'[k].todo \subseteq frames[k].todo
                         /\ frames[k].todo \ {v} \subseteq frames'[k].todo
  <2>1. [node |-> v, todo |-> adj[v]] \in [node : Node, todo : SUBSET Node]
    BY <1>1
  <2>2. /\ frames' \in Seq([node : Node, todo : SUBSET Node]) /\ Len(frames') = n + 1
        /\ \A k \in 1..n : frames'[k] = fs[k]
        /\ frames'[n + 1] = [node |-> v, todo |-> adj[v]]
    BY <1>2, <2>1, AppendProperties DEF IsPast
  <2> QED
    BY <1>1, <2>2 DEF IsPast, Calls, Caller
<1>9. /\ \A k \in 1..n : Caller(k) \in OnStack /\ Caller(k) \in Node /\ Caller(k) # v
      /\ \A x \in Visited : x \in Node /\ x # v /\ index'[x] = index[x] /\ index[x] < counter
                            /\ index[x] \in Int /\ low'[x] = low[x] /\ low[x] \in Int
  BY <1>1, <1>3, Shapes DEF IInv, CallsInOrder, Numbered
<1>10. TypeOK'
  <2>1. counter < N
    <3>1. IsFiniteSet(Visited \cup {v}) /\ Cardinality(Visited \cup {v}) <= N /\ IsFiniteSet(Visited)
      BY <1>1, NodeIsFinite, FS_Subset, Visited \cup {v} \subseteq Node
    <3>2. Cardinality(Visited \cup {v}) = counter + 1
      BY <3>1, FS_AddElement DEF IInv, Numbered
    <3> QED
      BY <1>1, <3>1, <3>2
  <2>2. index' \in [Node -> -1..(N - 1)] /\ low' \in [Node -> 0..N] /\ counter' \in 0..N
    BY <1>1, <1>2, <2>1 DEF TypeOK
  <2> QED
    BY <1>1, <1>2, <1>5, <1>8, <2>2 DEF TypeOK
<1>11. AdjacencyIsFixed'
  BY <1>2 DEF IInv, AdjacencyIsFixed
<1>12. Numbered'
  <2>1. IsFiniteSet(Visited)
    BY <1>1, NodeIsFinite, FS_Subset
  <2>2. Cardinality(Visited \cup {v}) = Cardinality(Visited) + 1
    BY <2>1, FS_AddElement
  <2> QED
    BY <1>1, <1>2, <1>3, <1>4, <1>9, <2>2 DEF IInv, Numbered
<1>13. StackInOrder'
  <2> SUFFICES ASSUME NEW p \in 1..Len(stack'), NEW q \in 1..Len(stack'), p < q
               PROVE  index'[stack'[p]] < index'[stack'[q]]
    BY DEF StackInOrder
  <2>1. Len(stack) \in Nat /\ \A m \in 1..Len(stack) : stack[m] \in OnStack
    BY Shapes, <1>1 DEF OnStack
  <2>2. p \in 1..Len(stack) /\ stack'[p] = stack[p] /\ stack[p] \in Visited
    BY <1>1, <1>5, <2>1
  <2>3. CASE q \in 1..Len(stack)
    BY <1>1, <1>5, <1>9, <2>1, <2>2, <2>3 DEF IInv, StackInOrder
  <2>4. CASE q = Len(stack) + 1
    BY <1>3, <1>5, <1>9, <2>2, <2>4
  <2> QED
    BY <1>5, <2>1, <2>3, <2>4
<1>14. CallsInOrder'
  <2>1. ASSUME NEW k \in Calls' PROVE Caller(k)' \in OnStack' /\ frames'[k].todo \subseteq adj'[Caller(k)']
    <3>1. CASE k = n + 1
      BY <1>2, <1>6, <1>8, <3>1
    <3>2. CASE k \in 1..n
      BY <1>1, <1>2, <1>6, <1>8, <1>9, <3>2 DEF IInv, CallsInOrder
    <3> QED
      BY <1>1, <1>8, <3>1, <3>2
  <2>2. ASSUME NEW j \in Calls', NEW k \in Calls', j < k PROVE index'[Caller(j)'] < index'[Caller(k)']
    <3>1. j \in 1..n /\ Caller(j)' = Caller(j) /\ Caller(j) \in Visited
      BY <1>1, <1>8, <1>9, <2>2
    <3>2. CASE k = n + 1
      BY <1>3, <1>8, <1>9, <3>1, <3>2
    <3>3. CASE k \in 1..n
      BY <1>1, <1>8, <1>9, <2>2, <3>1, <3>3 DEF IInv, CallsInOrder
    <3> QED
      BY <1>1, <1>8, <3>2, <3>3
  <2> QED
    BY <2>1, <2>2 DEF CallsInOrder
<1>15. VisitedIsSplit'
  BY <1>1, <1>4, <1>6, <1>7 DEF IInv, VisitedIsSplit
<1>16. \A x \in Visited : Handled(x)' \subseteq Handled(x) \cup {v}
  <2> SUFFICES ASSUME NEW x \in Visited, NEW y \in Handled(x)', y # v PROVE y \in Handled(x)
    OBVIOUS
  <2>1. y \in adj[x] /\ \A k \in 1..n : Caller(k)' = x => y \notin frames'[k].todo
    BY <1>1, <1>2, <1>8 DEF Handled
  <2> QED
    BY <1>1, <1>8, <2>1 DEF Handled
<1>17. Handled(v)' = {}
  BY <1>1, <1>2, <1>8 DEF Handled
<1>18. HandledIsVisited'
  BY <1>4, <1>16, <1>17 DEF IInv, HandledIsVisited
<1>19. DoneIsClosed'
  BY <1>2, <1>7 DEF IInv, DoneIsClosed
<1>20. CallsLeadUp'
  <2> SUFFICES ASSUME NEW k \in 1..(n + 1), NEW x \in OnStack \cup {v},
                      index'[Caller(k)'] <= index'[x]
               PROVE  x \in Leads(adj, Caller(k)')
    BY <1>2, <1>6, <1>8 DEF CallsLeadUp
  <2>1. CASE k = n + 1
    BY <1>1, <1>3, <1>8, <1>9, <2>1 DEF Leads
  <2>2. CASE k \in 1..n /\ x # v
    BY <1>1, <1>8, <1>9, <2>2 DEF IInv, CallsLeadUp
  <2>3. CASE k \in 1..n /\ x = v
    <3>1. n \in Calls /\ k \in Calls /\ frames # << >> /\ Caller(n) = Top.node /\ v \in adj[Caller(n)]
      BY <1>1, <2>3 DEF Top, Caller, IsPast
    <3>2. index[Caller(k)] <= index[Caller(n)]
      BY <1>1, <1>9, <2>3, <3>1 DEF IInv, CallsInOrder
    <3>3. Caller(n) \in Leads(adj, Caller(k))
      BY <1>1, <1>9, <2>3, <3>1, <3>2 DEF IInv, CallsLeadUp
    <3> QED
      BY <1>1, <1>8, <1>9, <2>3, <3>1, <3>3, LeadsOverEdge
  <2> QED
    BY <1>1, <2>1, <2>2, <2>3
<1>21. StackLeadsDown'
  <2> SUFFICES ASSUME NEW x \in OnStack \cup {v}
               PROVE  \E k \in 1..(n + 1) : index'[Caller(k)'] <= index'[x] /\ Caller(k)' \in Leads(adj, x)
    BY <1>2, <1>6, <1>8 DEF StackLeadsDown
  <2>1. CASE x = v
    <3>1. n + 1 \in 1..(n + 1) /\ index'[Caller(n + 1)'] <= index'[x] /\ Caller(n + 1)' \in Leads(adj, x)
      BY <1>1, <1>3, <1>8, <2>1 DEF Leads
    <3> QED
      BY <3>1
  <2>2. CASE x \in OnStack
    <3>1. PICK k \in 1..n : index[Caller(k)] <= index[x] /\ Caller(k) \in Leads(adj, x)
      BY <1>1, <2>2 DEF IInv, StackLeadsDown
    <3>2. k \in 1..(n + 1) /\ index'[Caller(k)'] <= index'[x] /\ Caller(k)' \in Leads(adj, x)
      BY <1>1, <1>8, <1>9, <2>2, <3>1
    <3> QED
      BY <3>2
  <2> QED
    BY <2>1, <2>2
<1>22. LowIsReached'
  <2> SUFFICES ASSUME NEW k \in 1..(n + 1)
               PROVE  /\ low'[Caller(k)'] <= index'[Caller(k)']
                      /\ \E y \in OnStack \cup {v} : /\ index'[y] = low'[Caller(k)']
                                                     /\ y \in Leads(adj, Caller(k)')
    BY <1>2, <1>6, <1>8 DEF LowIsReached
  <2>1. CASE k = n + 1
    BY <1>1, <1>3, <1>8, <2>1 DEF Leads
  <2>2. CASE k \in 1..n
    <3>1. PICK y \in OnStack : index[y] = low[Caller(k)] /\ y \in Leads(adj, Caller(k))
      BY <1>1, <2>2 DEF IInv, LowIsReached
    <3>2. low[Caller(k)] <= index[Caller(k)]
      BY <1>1, <2>2 DEF IInv, LowIsReached
    <3>3. low'[Caller(k)'] = low[Caller(k)] /\ index'[Caller(k)'] = index[Caller(k)] /\ index'[y] = index[y]
      BY <1>1, <1>8, <1>9, <2>2, <3>1
    <3> QED
      BY <1>8, <2>2, <3>1, <3>2, <3>3
  <2> QED
    BY <1>1, <2>1, <2>2
<1>23. LowIsLeast'
  <2> SUFFICES ASSUME NEW k \in 1..(n + 1), NEW x \in Pushed(k)', NEW y \in Handled(x)', y \in OnStack'
               PROVE  low'[Caller(k)'] <= index'[y]
    BY <1>8 DEF LowIsLeast
  <2>1. /\ x \in OnStack \cup {v} /\ index'[Caller(k)'] <= index'[x]
        /\ k < n + 1 => index'[x] < index'[Caller(k + 1)']
    BY <1>1, <1>6, <1>8 DEF Pushed
  <2>2. x # v
    BY <1>17
  <2>3. k \in 1..n
    BY <1>1, <1>3, <1>8, <1>9, <2>1, <2>2
  <2>4. /\ Caller(k)' = Caller(k) /\ Caller(k) \in Visited /\ low'[Caller(k)'] = low[Caller(k)]
        /\ index'[x] = index[x] /\ index'[Caller(k)'] = index[Caller(k)] /\ x \in OnStack
    BY <1>1, <1>8, <1>9, <2>1, <2>2, <2>3
  <2>5. x \in Pushed(k)
    <3> SUFFICES ASSUME k < n PROVE index[x] < index[Caller(k + 1)]
      BY <2>1, <2>4 DEF Pushed
    <3>1. k + 1 \in 1..n
      BY <1>1, <2>3
    <3>2. Caller(k + 1)' = Caller(k + 1) /\ Caller(k + 1) \in Visited
      BY <1>1, <1>8, <1>9, <3>1
    <3> QED
      BY <1>1, <1>9, <2>1, <2>3, <2>4, <3>2
  <2>6. CASE y = v
    BY <1>1, <1>3, <1>9, <2>3, <2>4, <2>6 DEF IInv, LowIsReached
  <2>7. CASE y # v
    BY <1>1, <1>6, <1>9, <1>16, <2>3, <2>4, <2>5, <2>7 DEF IInv, LowIsLeast
  <2> QED
    BY <2>6, <2>7
<1>24. PoppedAreComponents'
  BY <1>2 DEF IInv, PoppedAreComponents
<1> QED
  BY <1>10, <1>11, <1>12, <1>13, <1>14, <1>15, <1>18, <1>19, <1>20, <1>21, <1>22, <1>23, <1>24 DEF IInv

LEMMA StartRootKeeps == ASSUME IInv, StartRoot PROVE IInv'
<1>1. PICK v \in Node \ Visited : Enter(v, << >>)
  BY DEF StartRoot, Roots
<1>2. IsPast(<< >>, v)
  BY DEF StartRoot, IsPast, Calls
<1> QED
  BY <1>1, <1>2, EnterKeeps

\* The frames while a call is active, and with a neighbour of the topmost
\* call taken.
LEMMA PastShape ==
    ASSUME TypeOK, frames # << >>, NEW w, NEW n, n = Len(frames)
    PROVE  /\ n \in Nat \ {0} /\ Top = frames[n] /\ Top \in [node : Node, todo : SUBSET Node]
           /\ Below \in Seq([node : Node, todo : SUBSET Node]) /\ Len(Below) = n - 1
           /\ \A k \in 1..(n - 1) : Below[k] = frames[k]
           /\ Past(w) \in Seq([node : Node, todo : SUBSET Node]) /\ Len(Past(w)) = n
           /\ \A k \in 1..(n - 1) : Past(w)[k] = frames[k]
           /\ Past(w)[n].node = Top.node /\ Past(w)[n].todo = Top.todo \ {w}
<1> DEFINE F == [node : Node, todo : SUBSET Node]
<1>1. frames \in Seq(F) /\ n \in Nat \ {0} /\ \A k \in 1..n : frames[k] \in F
  BY EmptySeq, LenProperties, ElementOfSeq DEF TypeOK
<1>2. Top = frames[n] /\ Top \in F
  BY <1>1 DEF Top
<1>3. Below \in Seq(F) /\ Len(Below) = n - 1 /\ \A k \in 1..(n - 1) : Below[k] = frames[k]
  BY <1>1, SubSeqProperties DEF Below
<1>4. PICK e : e = [Top EXCEPT !.todo = @ \ {w}]
  OBVIOUS
<1>5. e \in F /\ e.node = Top.node /\ e.todo = Top.todo \ {w}
  BY <1>2, <1>4
<1>6. /\ Past(w) \in Seq(F) /\ Len(Past(w)) = n
      /\ \A k \in 1..(n - 1) : Past(w)[k] = Below[k]
      /\ Past(w)[n] = e
  <2>1. Past(w) = Append(Below, e)
    BY <1>4 DEF Past
  <2> HIDE DEF F
  <2> QED
    BY <1>1, <1>3, <1>5, <2>1, AppendProperties
<1> QED
  BY <1>1, <1>2, <1>3, <1>5, <1>6

LEMMA DescendKeeps == ASSUME IInv, Descend PROVE IInv'
<1>1. PICK w \in Top.todo \ Visited : Enter(w, Past(w))
  BY DEF Descend
<1>2. PICK n : n = Len(frames)
  OBVIOUS
<1>3. /\ frames # << >> /\ TypeOK /\ n \in Nat \ {0} /\ Top = frames[n]
      /\ Top \in [node : Node, todo : SUBSET Node]
      /\ Past(w) \in Seq([node : Node, todo : SUBSET Node]) /\ Len(Past(w)) = n
      /\ \A k \in 1..(n - 1) : Past(w)[k] = frames[k]
      /\ Past(w)[n].node = Top.node /\ Past(w)[n].todo = Top.todo \ {w}
  BY <1>2, PastShape DEF Descend, IInv
<1>4. Top.todo \subseteq adj[Top.node]
  BY <1>2, <1>3 DEF IInv, CallsInOrder, Calls, Caller
<1>5. w \in Node \ Visited /\ w \in adj[Top.node]
  BY <1>1, <1>3, <1>4
<1>6. ASSUME NEW k \in 1..n
      PROVE  /\ Past(w)[k].node = frames[k].node /\ Past(w)[k].todo \subseteq frames[k].todo
             /\ frames[k].todo \ {w} \subseteq Past(w)[k].todo
  <2>1. CASE k = n
    BY <1>3, <2>1
  <2>2. CASE k \in 1..(n - 1)
    BY <1>3, <2>2
  <2> QED
    BY <1>3, <2>1, <2>2
<1>7. IsPast(Past(w), w)
  BY <1>2, <1>3, <1>5, <1>6 DEF IsPast, Calls, Caller
<1> QED
  BY <1>1, <1>5, <1>7, EnterKeeps

-----------------------------------------------------------------------------
(* The neighbour loop at a visited neighbour *)

LEMMA LookAtVisitedKeeps ==
    ASSUME IInv, LookAtVisited, NEW n, n = Len(frames)
    PROVE  IInv'
<1>1. PICK w \in Top.todo \cap Visited :
          /\ low' = [low EXCEPT ![Top.node] = IF Lowers(w) THEN index[w] ELSE @]
          /\ frames' = Past(w)
  BY DEF LookAtVisited
<1>2. /\ adj' = adj /\ g' = g /\ components' = components /\ result' = result
      /\ counter' = counter /\ stack' = stack /\ index' = index
  BY DEF LookAtVisited
<1>3. /\ frames # << >> /\ TypeOK /\ n \in Nat \ {0} /\ Top = frames[n]
      /\ Top \in [node : Node, todo : SUBSET Node]
      /\ frames' \in Seq([node : Node, todo : SUBSET Node]) /\ Len(frames') = n
      /\ \A k \in 1..(n - 1) : frames'[k] = frames[k]
      /\ frames'[n].node = Top.node /\ frames'[n].todo = Top.todo \ {w}
  <2>1. frames # << >> /\ TypeOK
    BY DEF LookAtVisited, IInv
  <2>2. /\ n \in Nat \ {0} /\ Top = frames[n]
        /\ Top \in [node : Node, todo : SUBSET Node]
        /\ Past(w) \in Seq([node : Node, todo : SUBSET Node]) /\ Len(Past(w)) = n
        /\ \A k \in 1..(n - 1) : Past(w)[k] = frames[k]
        /\ Past(w)[n].node = Top.node /\ Past(w)[n].todo = Top.todo \ {w}
    BY <2>1, PastShape
  <2>3. frames' = Past(w)
    BY <1>1
  <2> QED
    BY <2>1, <2>2, <2>3
<1>4. PICK t : t = Top.node
  OBVIOUS
<1>5. /\ Calls = 1..n /\ n \in Calls /\ Caller(n) = t /\ t \in Node /\ t \in OnStack
      /\ w \in adj[t] /\ w \in Node /\ w \in frames[n].todo
      /\ adj \in [Node -> SUBSET Node] /\ OnStack \subseteq Visited /\ Visited \subseteq Node
  BY <1>1, <1>3, <1>4, Shapes DEF IInv, CallsInOrder, VisitedIsSplit, Calls, Caller
<1>6. /\ Visited' = Visited /\ OnStack' = OnStack /\ Done' = Done /\ Calls' = Calls
  BY <1>2, <1>3, <1>5 DEF Visited, OnStack, Done, Members, Calls
<1>7. \A k \in Calls : /\ Caller(k)' = Caller(k)
                       /\ frames'[k].todo \subseteq frames[k].todo
                       /\ frames[k].todo \ {w} \subseteq frames'[k].todo
                       /\ k # n => frames'[k] = frames[k]
  <2> SUFFICES ASSUME NEW k \in 1..n
               PROVE  /\ frames'[k].node = frames[k].node
                      /\ frames'[k].todo \subseteq frames[k].todo
                      /\ frames[k].todo \ {w} \subseteq frames'[k].todo
                      /\ k # n => frames'[k] = frames[k]
    BY <1>5 DEF Caller
  <2>1. CASE k = n
    BY <1>3, <2>1
  <2>2. CASE k \in 1..(n - 1)
    BY <1>3, <2>2
  <2> QED
    BY <1>3, <2>1, <2>2
<1>8. /\ \A x \in Node : low[x] \in Int /\ index[x] \in Int
      /\ \A x \in Node \ {t} : low'[x] = low[x]
      /\ low'[t] = IF Lowers(w) THEN index[w] ELSE low[t]
  BY <1>1, <1>3, <1>4, <1>5, Shapes DEF TypeOK
<1>9. \A k \in Calls : /\ Caller(k) \in Node /\ Caller(k) \in OnStack
                       /\ Caller(k) = t => k = n
  <2> SUFFICES ASSUME NEW k \in Calls PROVE Caller(k) \in OnStack /\ (Caller(k) = t => k = n)
    BY <1>5
  <2>1. k < n => index[Caller(k)] < index[t]
    BY <1>5 DEF IInv, CallsInOrder
  <2> QED
    BY <1>3, <1>5, <1>8, <2>1 DEF IInv, CallsInOrder
<1>10. low'[t] <= low[t] /\ (w \in OnStack => low'[t] <= index[w])
  BY <1>5, <1>8, <1>4 DEF Lowers
<1>11. TypeOK'
  <2>1. 0 <= index[w] /\ index[w] <= N
    <3>1. index[w] \in -1..(N - 1)
      BY <1>3, <1>5 DEF TypeOK
    <3> QED
      BY <1>1, <1>3, <3>1, Shapes, SizeAssumption
  <2>2. low' \in [Node -> 0..N]
    <3>1. low \in [Node -> 0..N] /\ index[w] \in 0..N
      <4>1. low \in [Node -> 0..N]
        BY <1>3 DEF TypeOK
      <4>2. index[w] \in 0..N
        BY <1>5, <1>8, <2>1, SizeAssumption
      <4> QED
        BY <4>1, <4>2
    <3>2. PICK m : m = IF Lowers(w) THEN index[w] ELSE low[t]
      OBVIOUS
    <3>3. low' = [low EXCEPT ![t] = m]
      BY <1>1, <1>4, <3>2
    <3>4. m \in 0..N
      BY <1>5, <3>1, <3>2
    <3> QED
      BY <3>1, <3>3, <3>4
  <2> QED
    BY <1>2, <1>3, <2>2 DEF TypeOK
<1>12. AdjacencyIsFixed' /\ Numbered' /\ StackInOrder' /\ VisitedIsSplit' /\ DoneIsClosed'
  BY <1>2, <1>6 DEF IInv, AdjacencyIsFixed, Numbered, StackInOrder, VisitedIsSplit, DoneIsClosed
<1>13. CallsInOrder' /\ CallsLeadUp' /\ StackLeadsDown'
  BY <1>2, <1>6, <1>7 DEF IInv, CallsInOrder, CallsLeadUp, StackLeadsDown
<1>14. /\ \A x \in Visited : Handled(x)' \subseteq Handled(x) \cup {w}
       /\ \A x \in Visited \ {t} : Handled(x)' \subseteq Handled(x)
  <2>1. ASSUME NEW x \in Visited, NEW y \in Handled(x)', y # w \/ x # t PROVE y \in Handled(x)
    <3>1. y \in adj[x] /\ \A k \in Calls : Caller(k) = x => y \notin frames'[k].todo
      BY <1>2, <1>6, <1>7 DEF Handled
    <3>2. ASSUME NEW k \in Calls, Caller(k) = x PROVE y \notin frames[k].todo
      BY <1>5, <1>7, <2>1, <3>1, <3>2
    <3> QED
      BY <3>1, <3>2 DEF Handled
  <2> QED
    BY <2>1
<1>15. HandledIsVisited'
  BY <1>6, <1>14, <1>1 DEF IInv, HandledIsVisited
<1>16. LowIsReached'
  <2> SUFFICES ASSUME NEW k \in Calls
               PROVE  /\ low'[Caller(k)] <= index[Caller(k)]
                      /\ \E y \in OnStack : index[y] = low'[Caller(k)] /\ y \in Leads(adj, Caller(k))
    BY <1>2, <1>6, <1>7 DEF LowIsReached
  <2>1. /\ low[Caller(k)] <= index[Caller(k)]
        /\ \E y \in OnStack : index[y] = low[Caller(k)] /\ y \in Leads(adj, Caller(k))
    BY DEF IInv, LowIsReached
  <2>2. CASE k = n /\ Lowers(w)
    <3>1. w \in Leads(adj, t) /\ w \in OnStack /\ low'[t] = index[w]
      BY <1>5, <1>8, <2>2, ReachableIsClosed DEF Leads, Lowers
    <3> QED
      BY <1>5, <1>8, <1>10, <2>1, <2>2, <3>1
  <2>3. CASE ~(k = n /\ Lowers(w))
    BY <1>5, <1>8, <1>9, <2>1, <2>3
  <2> QED
    BY <2>2, <2>3
<1>17. LowIsLeast'
  <2> SUFFICES ASSUME NEW k \in Calls, NEW x \in Pushed(k)', NEW y \in Handled(x)', y \in OnStack
               PROVE  low'[Caller(k)] <= index[y]
    BY <1>2, <1>6, <1>7 DEF LowIsLeast
  <2>1. x \in Pushed(k) /\ x \in Visited /\ x \in OnStack
    <3>1. k < n => k + 1 \in Calls
      BY <1>3, <1>5
    <3> QED
      BY <1>2, <1>3, <1>5, <1>6, <1>7, <3>1 DEF Pushed
  <2>2. low'[Caller(k)] <= low[Caller(k)]
    BY <1>8, <1>9, <1>10
  <2>3. CASE y \in Handled(x)
    <3>1. low[Caller(k)] <= index[y]
      BY <2>1, <2>3 DEF IInv, LowIsLeast
    <3> QED
      BY <1>5, <1>8, <1>9, <1>10, <2>2, <3>1
  <2>4. CASE y \notin Handled(x)
    <3>1. y = w /\ x = t
      BY <1>14, <2>1, <2>4
    <3>2. k = n
      <4> SUFFICES ASSUME k < n PROVE FALSE
        BY <1>3, <1>5
      <4>1. k + 1 \in Calls /\ index[x] < index[Caller(k + 1)]
        BY <1>3, <1>5, <2>1 DEF Pushed
      <4>2. index[Caller(k + 1)] <= index[t]
        <5>1. k + 1 < n => index[Caller(k + 1)] < index[Caller(n)]
          BY <1>5, <4>1 DEF IInv, CallsInOrder
        <5> QED
          BY <1>3, <1>5, <1>8, <1>9, <4>1, <5>1
      <4> QED
        BY <1>8, <1>9, <3>1, <4>1, <4>2, <1>5
    <3> QED
      BY <1>5, <1>10, <3>1, <3>2
  <2> QED
    BY <2>3, <2>4
<1>18. PoppedAreComponents'
  BY <1>2 DEF IInv, PoppedAreComponents
<1> QED
  BY <1>11, <1>12, <1>13, <1>15, <1>16, <1>17, <1>18 DEF IInv

-----------------------------------------------------------------------------
(* The tail of strongConnect *)

\* The segment popped for v holds what was pushed since v, the stack below it
\* the rest.
LEMMA PoppedSplitsStack ==
    ASSUME TypeOK, StackInOrder, NEW v \in OnStack
    PROVE  LET n == Len(stack) - Len(Popped(v))
           IN  /\ Popped(v) \in Seq(Node)
               /\ Members(Popped(v)) = {x \in OnStack : index[v] <= index[x]}
               /\ n \in 0..Len(stack)
               /\ {stack[p] : p \in 1..n} = {x \in OnStack : index[x] < index[v]}
<1>1. /\ Len(stack) \in Nat /\ \A p \in 1..Len(stack) : stack[p] \in Node
      /\ \A x \in Node : index[x] \in Int
  BY Shapes
<1>2. PICK p : p = CHOOSE q \in 1..Len(stack) : stack[q] = v
  OBVIOUS
<1>3. p \in 1..Len(stack) /\ stack[p] = v
  <2>1. \E q \in 1..Len(stack) : stack[q] = v
    BY DEF OnStack
  <2> QED
    BY <1>2, <2>1
<1>4. PICK c : c = Len(stack) - p + 1
  OBVIOUS
<1>5. c \in 1..Len(stack) /\ Len(stack) - c = p - 1
  BY <1>1, <1>3, <1>4
<1>6. Popped(v) = [k \in 1..c |-> stack[Len(stack) - k + 1]]
  BY <1>2, <1>4 DEF Popped
<1>7. \A k \in 1..c : /\ Len(stack) - k + 1 \in p..Len(stack)
                      /\ Len(stack) - k + 1 \in 1..Len(stack)
  BY <1>1, <1>3, <1>4
<1>8. Popped(v) \in [1..c -> Node]
  BY <1>1, <1>6, <1>7
<1>9. Popped(v) \in Seq(Node)
  <2>1. c \in Nat
    BY <1>5
  <2> QED
    BY <1>8, <2>1, SeqDef
<1>10. Len(Popped(v)) = c
  <2>1. DOMAIN Popped(v) = 1..Len(Popped(v)) /\ Len(Popped(v)) \in Nat /\ DOMAIN Popped(v) = 1..c
    BY <1>8, <1>9, LenProperties
  <2>2. c \in 1..Len(Popped(v))
    BY <1>5, <2>1
  <2>3. Len(Popped(v)) \in 1..c
    BY <1>5, <2>1, <2>2
  <2>4. c \in Nat /\ Len(Popped(v)) \in Nat
    BY <1>5, <2>1
  <2> QED
    BY <2>2, <2>3, <2>4
<1>11. \A q \in 1..Len(stack) : /\ p <= q <=> index[v] <= index[stack[q]]
                                /\ q <= p - 1 <=> index[stack[q]] < index[v]
  <2> SUFFICES ASSUME NEW q \in 1..Len(stack)
               PROVE  /\ q < p => index[stack[q]] < index[v]
                      /\ p < q => index[v] < index[stack[q]]
                      /\ p = q => index[v] = index[stack[q]]
    BY <1>1, <1>3
  <2> QED
    BY <1>1, <1>3 DEF StackInOrder
<1>12. Members(Popped(v)) = {stack[q] : q \in p..Len(stack)}
  <2>1. Members(Popped(v)) = {stack[Len(stack) - k + 1] : k \in 1..c}
    BY <1>6, <1>10 DEF Members
  <2>2. ASSUME NEW q \in p..Len(stack) PROVE \E k \in 1..c : q = Len(stack) - k + 1
    <3>1. Len(stack) - q + 1 \in 1..c /\ q = Len(stack) - (Len(stack) - q + 1) + 1
      BY <1>1, <1>3, <1>4, <2>2
    <3> QED
      BY <3>1
  <2> QED
    BY <1>7, <2>1, <2>2
<1>13. Members(Popped(v)) = {x \in OnStack : index[v] <= index[x]}
  <2>1. \A q \in 1..Len(stack) : q \in p..Len(stack) <=> index[v] <= index[stack[q]]
    BY <1>1, <1>3, <1>11
  <2>2. p..Len(stack) \subseteq 1..Len(stack)
    BY <1>1, <1>3
  <2> QED
    BY <1>12, <2>1, <2>2 DEF OnStack
<1>14. {stack[q] : q \in 1..(p - 1)} = {x \in OnStack : index[x] < index[v]}
  <2>1. \A q \in 1..Len(stack) : q \in 1..(p - 1) <=> index[stack[q]] < index[v]
    BY <1>1, <1>3, <1>11
  <2>2. 1..(p - 1) \subseteq 1..Len(stack)
    BY <1>1, <1>3
  <2> QED
    BY <2>1, <2>2 DEF OnStack
<1> QED
  BY <1>1, <1>3, <1>5, <1>9, <1>10, <1>13, <1>14

\* A call whose low is its own visit number has its component on top of the
\* stack: what was pushed since it began has no edge to the rest of the stack.
LEMMA RootHasComponent ==
    ASSUME IInv, NEW n, n = Len(frames), frames # << >>, NEW v, v = Caller(n),
           frames[n].todo = {}, low[v] = index[v],
           NEW C, C = {x \in OnStack : index[v] <= index[x]}
    PROVE  /\ \A x \in C : adj[x] \subseteq C \cup Done
           /\ \A x \in C : C = CycleMates(adj, x)
<1>1. /\ TypeOK /\ n \in Nat \ {0} /\ n \in Calls /\ Calls = 1..n
      /\ v \in OnStack /\ v \in Node /\ C \subseteq OnStack /\ OnStack \subseteq Node
      /\ adj \in [Node -> SUBSET Node] /\ OnStack \subseteq Visited
      /\ Done \subseteq Node
      /\ \A x \in Node : index[x] \in Int /\ low[x] \in Int
  <2>1. TypeOK /\ n \in Nat \ {0}
    BY EmptySeq DEF IInv, TypeOK
  <2> QED
    BY <2>1, Shapes DEF IInv, CallsInOrder, VisitedIsSplit, Calls
<1>2. \A k \in Calls : Caller(k) \in OnStack /\ (index[v] <= index[Caller(k)] => k = n)
  <2> SUFFICES ASSUME NEW k \in Calls
               PROVE  Caller(k) \in OnStack /\ (index[v] <= index[Caller(k)] => k = n)
    OBVIOUS
  <2>1. k < n => index[Caller(k)] < index[v]
    BY <1>1 DEF IInv, CallsInOrder
  <2>2. Caller(k) \in OnStack
    BY DEF IInv, CallsInOrder
  <2> QED
    BY <1>1, <2>1, <2>2
<1>3. ASSUME NEW x \in C PROVE adj[x] \subseteq C \cup Done
  <2>1. Handled(x) = adj[x]
    <3>1. ASSUME NEW k \in Calls, Caller(k) = x PROVE k = n
      BY <1>2, <1>3, <3>1
    <3> QED
      BY <1>1, <3>1 DEF Handled
  <2>2. adj[x] \subseteq OnStack \cup Done
    BY <1>1, <1>3, <2>1 DEF IInv, HandledIsVisited, VisitedIsSplit
  <2>3. x \in Pushed(n)
    BY <1>1, <1>3 DEF Pushed
  <2>4. ASSUME NEW y \in adj[x], y \in OnStack PROVE y \in C
    <3>1. low[v] <= index[y]
      BY <1>1, <2>1, <2>3, <2>4 DEF IInv, LowIsLeast
    <3> QED
      BY <1>1, <2>4, <3>1
  <2> QED
    BY <2>2, <2>4
<1>4. \A x \in Done : adj[x] \subseteq Done
  BY DEF IInv, DoneIsClosed
<1>5. ASSUME NEW x \in C PROVE Leads(adj, x) \subseteq C \cup Done
  <2>1. C \cup Done \in SUBSET Node /\ adj[x] \subseteq C \cup Done
    BY <1>1, <1>3, <1>5
  <2>2. \A w \in C \cup Done : adj[w] \subseteq C \cup Done
    BY <1>3, <1>4
  <2>3. x \in Node
    BY <1>1, <1>5
  <2>4. Reachable(adj, x) \subseteq C \cup Done
    BY <1>1, <2>1, <2>2, <2>3, ReachableIsLeast
  <2> QED
    BY <1>5, <2>4 DEF Leads
<1>6. ASSUME NEW x \in C PROVE v \in Leads(adj, x)
  <2>1. PICK k \in Calls : index[Caller(k)] <= index[x] /\ Caller(k) \in Leads(adj, x)
    BY <1>1, <1>6 DEF IInv, StackLeadsDown
  <2>2. Caller(k) \in C
    <3>1. Caller(k) \in C \cup Done
      BY <1>5, <1>6, <2>1
    <3> QED
      BY <1>2, <3>1 DEF IInv, VisitedIsSplit
  <2>3. k = n
    BY <1>2, <2>2
  <2> QED
    BY <2>1, <2>3
<1>7. ASSUME NEW x \in C PROVE x \in Leads(adj, v)
  BY <1>1, <1>7 DEF IInv, CallsLeadUp
<1>8. \A x, y \in C : y \in Leads(adj, x)
  <2> SUFFICES ASSUME NEW x \in C, NEW y \in C PROVE y \in Leads(adj, x)
    OBVIOUS
  <2>1. x \in Node /\ v \in Leads(adj, x) /\ y \in Leads(adj, v)
    BY <1>1, <1>6, <1>7
  <2> QED
    BY <1>1, <2>1, LeadsIsTransitive
<1>9. C \cap Done = {}
  BY <1>1 DEF IInv, VisitedIsSplit
<1>10. ASSUME NEW x \in C PROVE C = CycleMates(adj, x)
  <2>1. C \in SUBSET Node /\ Done \in SUBSET Node
    BY <1>1
  <2> QED
    BY <1>1, <1>3, <1>4, <1>8, <1>9, <1>10, <2>1, ComponentIsCycleMates
<1> QED
  BY <1>3, <1>10

\* What the end of a call leaves alone, for the calls below it.
LEMMA LeaveBelow ==
    ASSUME IInv, Leave, NEW n, n = Len(frames), NEW v, v = Caller(n)
    PROVE  /\ n \in Nat \ {0} /\ frames # << >> /\ Calls = 1..n /\ n \in Calls
           /\ v \in OnStack /\ v \in Node /\ frames[n].todo = {}
           /\ adj' = adj /\ g' = g /\ index' = index /\ counter' = counter /\ result' = result
           /\ frames' \in Seq([node : Node, todo : SUBSET Node])
           /\ Len(frames') = n - 1 /\ Calls' = 1..(n - 1)
           /\ \A k \in 1..(n - 1) : /\ k \in Calls /\ frames'[k] = frames[k]
                                    /\ Caller(k)' = Caller(k) /\ Caller(k) \in OnStack
                                    /\ Caller(k) \in Node
                                    /\ index[Caller(k)] < index[v]
           /\ \A x \in Node : Handled(x)' = Handled(x)
           /\ \A k \in 1..(n - 2) : k + 1 \in 1..(n - 1)
           /\ Visited' = Visited
<1>1. TypeOK /\ frames # << >> /\ Top.todo = {} /\ frames' = Below
  BY DEF Leave, IInv
<1>2. /\ n \in Nat \ {0} /\ Top = frames[n]
      /\ Below \in Seq([node : Node, todo : SUBSET Node]) /\ Len(Below) = n - 1
      /\ \A k \in 1..(n - 1) : Below[k] = frames[k]
  BY <1>1, PastShape
<1>3. adj' = adj /\ g' = g /\ index' = index /\ counter' = counter /\ result' = result
  BY DEF Leave
<1>4. /\ Calls = 1..n /\ n \in Calls /\ v \in OnStack /\ v \in Node /\ frames[n].todo = {}
      /\ OnStack \subseteq Node
  BY <1>1, <1>2, Shapes DEF IInv, CallsInOrder, Calls
<1>5. /\ frames' \in Seq([node : Node, todo : SUBSET Node])
      /\ Len(frames') = n - 1 /\ Calls' = 1..(n - 1)
      /\ \A k \in 1..(n - 1) : frames'[k] = frames[k]
  BY <1>1, <1>2 DEF Calls
<1>6. ASSUME NEW k \in 1..(n - 1)
      PROVE  /\ k \in Calls /\ frames'[k] = frames[k]
             /\ Caller(k)' = Caller(k) /\ Caller(k) \in OnStack
             /\ Caller(k) \in Node
             /\ index[Caller(k)] < index[v]
  <2>1. k \in Calls /\ k < n /\ frames'[k] = frames[k]
    BY <1>2, <1>4, <1>5
  <2>2. Caller(k)' = Caller(k)
    BY <2>1 DEF Caller
  <2>3. Caller(k) \in OnStack /\ index[Caller(k)] < index[v]
    BY <1>4, <2>1 DEF IInv, CallsInOrder
  <2> QED
    BY <1>4, <2>1, <2>2, <2>3
<1>7. ASSUME NEW x \in Node PROVE Handled(x)' = Handled(x)
  <2> SUFFICES ASSUME NEW y \in adj[x]
               PROVE  (\A k \in Calls' : Caller(k)' = x => y \notin frames'[k].todo)
                      <=> (\A k \in Calls : Caller(k) = x => y \notin frames[k].todo)
    BY <1>3 DEF Handled
  <2>1. \A k \in Calls : k = n \/ k \in 1..(n - 1)
    BY <1>2, <1>4
  <2> QED
    BY <1>4, <1>5, <1>6, <2>1
<1>8. \A k \in 1..(n - 2) : k + 1 \in 1..(n - 1)
  BY <1>2
<1>9. Visited' = Visited
  BY <1>3 DEF Visited
<1> QED
  BY <1>1, <1>2, <1>3, <1>4, <1>5, <1>6, <1>7, <1>8, <1>9

LEMMA LeaveRootKeeps ==
    ASSUME IInv, Leave, NEW n, n = Len(frames), NEW v, v = Caller(n), low[v] = index[v]
    PROVE  IInv'
<1>1. /\ n \in Nat \ {0} /\ frames # << >> /\ Calls = 1..n /\ n \in Calls
      /\ v \in OnStack /\ v \in Node /\ frames[n].todo = {}
      /\ adj' = adj /\ g' = g /\ index' = index /\ counter' = counter /\ result' = result
      /\ frames' \in Seq([node : Node, todo : SUBSET Node])
      /\ Len(frames') = n - 1 /\ Calls' = 1..(n - 1)
      /\ \A x \in Node : Handled(x)' = Handled(x)
      /\ \A k \in 1..(n - 2) : k + 1 \in 1..(n - 1)
      /\ Visited' = Visited
  BY LeaveBelow
<1>2. \A k \in 1..(n - 1) : /\ k \in Calls /\ frames'[k] = frames[k]
                            /\ Caller(k)' = Caller(k) /\ Caller(k) \in OnStack
                            /\ Caller(k) \in Node
                            /\ index[Caller(k)] < index[v]
  BY LeaveBelow
<1>3. /\ TypeOK /\ StackInOrder /\ OnStack \subseteq Node
      /\ Len(stack) \in Nat /\ \A p \in 1..Len(stack) : stack[p] \in Node
      /\ \A x \in Node : index[x] \in Int /\ low[x] \in Int
  BY Shapes DEF IInv
<1>4. PICK C : C = {x \in OnStack : index[v] <= index[x]}
  OBVIOUS
<1>5. PICK m : m = Len(stack) - Len(Popped(v))
  OBVIOUS
<1>6. /\ Popped(v) \in Seq(Node) /\ Members(Popped(v)) = C /\ m \in 0..Len(stack)
      /\ {stack[p] : p \in 1..m} = {x \in OnStack : index[x] < index[v]}
  BY <1>1, <1>3, <1>4, <1>5, PoppedSplitsStack
<1>7. Top.node = v
  BY DEF Top, Caller
<1>8. stack' = SubSeq(stack, 1, m) /\ components' = Append(components, Popped(v))
  BY <1>5, <1>7 DEF Leave
<1>9. low' \in [Node -> 0..N] /\ \A x \in Node : low'[x] = low[x]
  <2>1. CASE Below = << >>
    BY <1>3, <2>1 DEF Leave, TypeOK
  <2>2. CASE Below # << >>
    <3>1. PICK u : u = Below[Len(Below)].node
      OBVIOUS
    <3>2. n - 1 \in 1..(n - 1) /\ u = Caller(n - 1)
      <4>1. Below = frames' /\ n - 1 # 0
        <5>1. Below = frames'
          BY DEF Leave
        <5>2. frames' # << >> => Len(frames') # 0
          BY <1>1, EmptySeq
        <5> QED
          BY <1>1, <2>2, <5>1, <5>2
      <4>2. n - 1 \in 1..(n - 1)
        BY <1>1, <4>1
      <4> QED
        BY <1>1, <1>2, <3>1, <4>1, <4>2 DEF Caller
    <3>3. u \in Node /\ low[u] < low[v]
      <4>1. low[u] <= index[u]
        BY <1>2, <3>2 DEF IInv, LowIsReached
      <4>2. u \in Node /\ index[u] < index[v]
        BY <1>2, <3>2
      <4> QED
        BY <1>1, <1>3, <4>1, <4>2
    <3>4. low' = [low EXCEPT ![u] = IF low[v] < low[u] THEN low[v] ELSE low[u]]
      BY <1>7, <2>2, <3>1 DEF Leave
    <3>5. ~(low[v] < low[u])
      BY <1>1, <1>3, <3>3
    <3>6. low' = [low EXCEPT ![u] = low[u]]
      BY <3>4, <3>5
    <3> QED
      BY <1>3, <3>3, <3>6 DEF TypeOK
  <2> QED
    BY <2>1, <2>2
<1>10. /\ stack' \in Seq(Node) /\ Len(stack') = m
       /\ \A p \in 1..m : p \in 1..Len(stack) /\ stack'[p] = stack[p]
  <2>1. m \in Nat /\ 1 \in Int /\ m \in Int /\ \A p \in 1..m : p \in 1..Len(stack) /\ stack[p] \in Node
    BY <1>3, <1>6
  <2> QED
    BY <1>8, <2>1, SubSeqProperties
<1>11. OnStack' = {x \in OnStack : index[x] < index[v]} /\ OnStack' \subseteq OnStack
  BY <1>6, <1>10 DEF OnStack
<1>12. OnStack' = OnStack \ C
  BY <1>1, <1>3, <1>4, <1>11
<1>13. /\ Len(components) \in Nat /\ Len(components') = Len(components) + 1
       /\ components' \in Seq(Seq(Node))
       /\ \A k \in 1..Len(components) : components'[k] = components[k]
       /\ components'[Len(components) + 1] = Popped(v)
  <2>1. components \in Seq(Seq(Node)) /\ Len(components) \in Nat
    BY <1>3, LenProperties DEF TypeOK
  <2> QED
    BY <1>6, <1>8, <2>1, AppendProperties
<1>14. Done' = Done \cup C
  <2>1. Done' = UNION {Members(components'[k]) : k \in 1..(Len(components) + 1)}
    BY <1>13 DEF Done, Members
  <2>2. PICK l \in Nat : l = Len(components)
    BY <1>13
  <2>3. ASSUME NEW x PROVE x \in Done' <=> x \in Done \/ x \in Members(components'[l + 1])
    <3>1. x \in Done' <=> \E k \in 1..(l + 1) : x \in Members(components'[k])
      BY <2>1, <2>2
    <3>2. x \in Done <=> \E k \in 1..l : x \in Members(components[k])
      BY <2>2 DEF Done
    <3>3. \A k \in 1..l : Members(components'[k]) = Members(components[k])
      BY <1>13, <2>2
    <3>4. \A k : k \in 1..(l + 1) <=> k \in 1..l \/ k = l + 1
      BY <2>2
    <3> QED
      BY <3>1, <3>2, <3>3, <3>4
  <2>4. Members(components'[l + 1]) = C
    BY <1>6, <1>13, <2>2
  <2> QED
    BY <2>3, <2>4
<1>15. (\A x \in C : adj[x] \subseteq C \cup Done) /\ (\A x \in C : C = CycleMates(adj, x))
  BY <1>1, <1>4, RootHasComponent
<1>16. TypeOK'
  BY <1>1, <1>3, <1>9, <1>10, <1>13 DEF TypeOK
<1>17. AdjacencyIsFixed' /\ Numbered'
  BY <1>1 DEF IInv, AdjacencyIsFixed, Numbered
<1>18. StackInOrder'
  <2> SUFFICES ASSUME NEW p \in 1..m, NEW q \in 1..m, p < q
               PROVE  index[stack[p]] < index[stack[q]]
    BY <1>1, <1>10 DEF StackInOrder
  <2> QED
    BY <1>3, <1>10 DEF StackInOrder
<1>19. CallsInOrder'
  <2>1. ASSUME NEW k \in 1..(n - 1) PROVE Caller(k)' \in OnStack' /\ frames'[k].todo \subseteq adj'[Caller(k)']
    BY <1>1, <1>2, <1>11 DEF IInv, CallsInOrder
  <2>2. ASSUME NEW j \in 1..(n - 1), NEW k \in 1..(n - 1), j < k
        PROVE  index'[Caller(j)'] < index'[Caller(k)']
    BY <1>1, <1>2, <2>2 DEF IInv, CallsInOrder
  <2> QED
    BY <1>1, <2>1, <2>2 DEF CallsInOrder
<1>20. VisitedIsSplit'
  BY <1>1, <1>4, <1>12, <1>14 DEF IInv, VisitedIsSplit
<1>21. HandledIsVisited'
  <2>1. Visited \subseteq Node
    BY DEF Visited
  <2> QED
    BY <1>1, <2>1 DEF IInv, HandledIsVisited
<1>22. DoneIsClosed'
  BY <1>1, <1>14, <1>15 DEF IInv, DoneIsClosed
<1>23. CallsLeadUp'
  BY <1>1, <1>2, <1>11 DEF IInv, CallsLeadUp
<1>24. StackLeadsDown'
  <2> SUFFICES ASSUME NEW x \in OnStack'
               PROVE  \E k \in 1..(n - 1) : index[Caller(k)] <= index[x] /\ Caller(k) \in Leads(adj, x)
    BY <1>1, <1>2 DEF StackLeadsDown
  <2>1. x \in OnStack /\ index[x] < index[v] /\ x \in Node
    BY <1>3, <1>11
  <2>2. PICK k \in Calls : index[Caller(k)] <= index[x] /\ Caller(k) \in Leads(adj, x)
    BY <2>1 DEF IInv, StackLeadsDown
  <2>3. k # n
    BY <1>1, <1>3, <2>1, <2>2
  <2>4. k \in 1..(n - 1)
    BY <1>1, <2>3
  <2> QED
    BY <2>2, <2>4
<1>25. LowIsReached'
  <2> SUFFICES ASSUME NEW k \in 1..(n - 1)
               PROVE  /\ low'[Caller(k)'] <= index'[Caller(k)']
                      /\ \E y \in OnStack' : /\ index'[y] = low'[Caller(k)']
                                            /\ y \in Leads(adj', Caller(k)')
    BY <1>1 DEF LowIsReached
  <2>1. low[Caller(k)] <= index[Caller(k)] /\ index[Caller(k)] < index[v] /\ Caller(k) \in Node
    BY <1>2 DEF IInv, LowIsReached
  <2>2. PICK y \in OnStack : index[y] = low[Caller(k)] /\ y \in Leads(adj, Caller(k))
    BY <1>2 DEF IInv, LowIsReached
  <2>3. index[y] < index[v]
    BY <1>1, <1>3, <2>1, <2>2
  <2>4. low'[Caller(k)'] = low[Caller(k)] /\ Caller(k)' = Caller(k)
    BY <1>2, <1>9
  <2> QED
    BY <1>1, <1>11, <2>1, <2>2, <2>3, <2>4
<1>26. LowIsLeast'
  <2> SUFFICES ASSUME NEW k \in Calls', NEW x \in Pushed(k)', NEW y \in Handled(x)' \cap OnStack'
               PROVE  low'[Caller(k)'] <= index'[y]
    BY DEF LowIsLeast
  <2>a. k \in 1..(n - 1) /\ low'[Caller(k)'] = low[Caller(k)] /\ index' = index
    BY <1>1, <1>2, <1>9
  <2> SUFFICES low[Caller(k)] <= index[y]
    BY <2>a
  <2>1. /\ x \in OnStack' /\ x \in OnStack /\ index[Caller(k)] <= index[x] /\ index[x] < index[v]
        /\ k < n - 1 => index[x] < index[Caller(k + 1)']
    BY <1>1, <1>2, <1>11, <2>a DEF Pushed
  <2>2. index[x] < index[Caller(k + 1)]
    <3>1. CASE k < n - 1
      <4>1. k + 1 \in 1..(n - 1)
        BY <1>1, <3>1
      <4> QED
        BY <1>2, <2>1, <3>1, <4>1
    <3>2. CASE k = n - 1
      <4>1. k + 1 = n
        BY <1>1, <3>2
      <4> QED
        BY <2>1, <4>1
    <3> QED
      BY <1>1, <2>a, <3>1, <3>2
  <2>3. x \in Pushed(k)
    BY <2>1, <2>2 DEF Pushed
  <2>4. y \in Handled(x) \cap OnStack
    BY <1>1, <1>3, <1>11, <2>1
  <2> QED
    BY <1>2, <2>a, <2>3, <2>4 DEF IInv, LowIsLeast
<1>27. PoppedAreComponents'
  <2> SUFFICES ASSUME NEW k \in 1..(Len(components) + 1), NEW x \in Members(components'[k])
               PROVE  Members(components'[k]) = CycleMates(adj, x)
    BY <1>1, <1>13 DEF PoppedAreComponents, Members
  <2>1. CASE k = Len(components) + 1
    BY <1>6, <1>13, <1>15, <2>1
  <2>2. CASE k \in 1..Len(components)
    BY <1>13, <2>2 DEF IInv, PoppedAreComponents
  <2> QED
    BY <1>13, <2>1, <2>2
<1> QED
  BY <1>16, <1>17, <1>18, <1>19, <1>20, <1>21, <1>22, <1>23, <1>24, <1>25, <1>26, <1>27 DEF IInv

\* A call that is not its component's root hands its low to its caller.
LEMMA LeaveInnerKeeps ==
    ASSUME IInv, Leave, NEW n, n = Len(frames), NEW v, v = Caller(n), low[v] # index[v]
    PROVE  IInv'
<1>1. /\ n \in Nat \ {0} /\ frames # << >> /\ Calls = 1..n /\ n \in Calls
      /\ v \in OnStack /\ v \in Node /\ frames[n].todo = {}
      /\ adj' = adj /\ g' = g /\ index' = index /\ counter' = counter /\ result' = result
      /\ frames' \in Seq([node : Node, todo : SUBSET Node])
      /\ Len(frames') = n - 1 /\ Calls' = 1..(n - 1)
      /\ \A x \in Node : Handled(x)' = Handled(x)
      /\ \A k \in 1..(n - 2) : k + 1 \in 1..(n - 1)
      /\ Visited' = Visited
  BY LeaveBelow
<1>2. \A k \in 1..(n - 1) : /\ k \in Calls /\ frames'[k] = frames[k]
                            /\ Caller(k)' = Caller(k) /\ Caller(k) \in OnStack
                            /\ Caller(k) \in Node
                            /\ index[Caller(k)] < index[v]
  BY LeaveBelow
<1>3. /\ TypeOK /\ stack \in Seq(Node) /\ OnStack \subseteq Node /\ adj \in [Node -> SUBSET Node]
      /\ Len(stack) \in Nat /\ Len(components) \in Nat
      /\ \A x \in Node : index[x] \in Int /\ low[x] \in Int
  BY Shapes, LenProperties DEF IInv, TypeOK
<1>4. Top.node = v
  BY DEF Top, Caller
<1>5. stack' = stack /\ components' = components
  <2>1. stack' = SubSeq(stack, 1, Len(stack)) /\ components' = components
    BY <1>3, <1>4 DEF Leave
  <2> QED
    BY <1>3, <2>1, SubSeqFull
<1>6. OnStack' = OnStack /\ Done' = Done
  BY <1>5 DEF OnStack, Done, Members
<1>7. PICK y \in OnStack : index[y] = low[v] /\ y \in Leads(adj, v)
  BY <1>1 DEF IInv, LowIsReached
<1>8. low[v] < index[v] /\ index[y] < index[v] /\ y \in Node
  <2>1. low[v] <= index[v]
    BY <1>1 DEF IInv, LowIsReached
  <2> QED
    BY <1>1, <1>3, <1>7, <2>1
<1>9. PICK j \in 1..(n - 1) : index[Caller(j)] <= index[y] /\ Caller(j) \in Leads(adj, y)
  <2>1. PICK j \in Calls : index[Caller(j)] <= index[y] /\ Caller(j) \in Leads(adj, y)
    BY <1>7 DEF IInv, StackLeadsDown
  <2>2. j # n
    BY <1>1, <1>3, <1>8, <2>1
  <2> QED
    BY <1>1, <2>1, <2>2
<1>10. PICK u : u = Caller(n - 1)
  OBVIOUS
<1>11. n - 1 \in 1..(n - 1) /\ u \in Node /\ u \in OnStack /\ index[u] < index[v]
  <2>1. n - 1 \in 1..(n - 1)
    BY <1>1, <1>9
  <2> QED
    BY <1>2, <1>10, <2>1
<1>12. low' = [low EXCEPT ![u] = IF low[v] < low[u] THEN low[v] ELSE low[u]]
  <2>1. Below = frames' /\ Len(Below) = n - 1 /\ Below # << >>
    <3>1. Below = frames'
      BY DEF Leave
    <3> QED
      BY <1>1, <1>11, <3>1, EmptySeq
  <2>2. Below[Len(Below)].node = u
    BY <1>2, <1>10, <1>11, <2>1 DEF Caller
  <2> QED
    BY <1>4, <2>1, <2>2 DEF Leave
<1>13. PICK min : min = IF low[v] < low[u] THEN low[v] ELSE low[u]
  OBVIOUS
<1>14. /\ min \in 0..N /\ min <= low[u] /\ min <= low[v] /\ min \in {low[u], low[v]}
       /\ low' \in [Node -> 0..N] /\ low'[u] = min
       /\ \A x \in Node \ {u} : low'[x] = low[x]
  <2>1. low \in [Node -> 0..N]
    BY <1>3 DEF TypeOK
  <2>2. min \in 0..N /\ min <= low[u] /\ min <= low[v] /\ min \in {low[u], low[v]}
    <3>1. low[u] \in 0..N /\ low[v] \in 0..N
      BY <1>1, <1>11, <2>1
    <3> QED
      BY <1>13, <3>1
  <2> QED
    BY <1>11, <1>12, <1>13, <2>1, <2>2
<1>15. \A k \in 1..(n - 1) : Caller(k) = u => k = n - 1
  <2> SUFFICES ASSUME NEW k \in 1..(n - 1), k < n - 1 PROVE Caller(k) # u
    BY <1>1
  <2>1. index[Caller(k)] < index[u]
    BY <1>2, <1>10, <1>11 DEF IInv, CallsInOrder
  <2> QED
    BY <1>3, <1>11, <2>1
<1>16. \A k \in 1..(n - 1) : Caller(k) \in Node /\ low'[Caller(k)] <= low[Caller(k)]
  <2>1. \A x \in Node : low'[x] <= low[x]
    BY <1>3, <1>14
  <2> QED
    BY <1>2, <2>1
<1>17. TypeOK'
  BY <1>1, <1>3, <1>5, <1>14 DEF TypeOK
<1>18. AdjacencyIsFixed' /\ Numbered' /\ StackInOrder' /\ VisitedIsSplit' /\ DoneIsClosed'
  BY <1>1, <1>5, <1>6
     DEF IInv, AdjacencyIsFixed, Numbered, StackInOrder, VisitedIsSplit, DoneIsClosed
<1>19. CallsInOrder'
  <2>1. ASSUME NEW k \in 1..(n - 1) PROVE Caller(k)' \in OnStack' /\ frames'[k].todo \subseteq adj'[Caller(k)']
    BY <1>1, <1>2, <1>6 DEF IInv, CallsInOrder
  <2>2. ASSUME NEW i \in 1..(n - 1), NEW k \in 1..(n - 1), i < k
        PROVE  index'[Caller(i)'] < index'[Caller(k)']
    BY <1>1, <1>2, <2>2 DEF IInv, CallsInOrder
  <2> QED
    BY <1>1, <2>1, <2>2 DEF CallsInOrder
<1>20. HandledIsVisited'
  <2>1. Visited \subseteq Node
    BY DEF Visited
  <2> QED
    BY <1>1, <2>1 DEF IInv, HandledIsVisited
<1>21. CallsLeadUp'
  <2> SUFFICES ASSUME NEW k \in 1..(n - 1), NEW x \in OnStack, index[Caller(k)] <= index[x]
               PROVE  x \in Leads(adj, Caller(k))
    BY <1>1, <1>2, <1>6 DEF CallsLeadUp
  <2> QED
    BY <1>2 DEF IInv, CallsLeadUp
<1>22. StackLeadsDown'
  <2> SUFFICES ASSUME NEW x \in OnStack
               PROVE  \E k \in 1..(n - 1) : /\ index'[Caller(k)'] <= index'[x]
                                            /\ Caller(k)' \in Leads(adj', x)
    BY <1>1, <1>6 DEF StackLeadsDown
  <2> SUFFICES \E k \in 1..(n - 1) : index[Caller(k)] <= index[x] /\ Caller(k) \in Leads(adj, x)
    BY <1>1, <1>2
  <2>1. PICK k \in Calls : index[Caller(k)] <= index[x] /\ Caller(k) \in Leads(adj, x)
    BY DEF IInv, StackLeadsDown
  <2>2. CASE k = n
    <3>1. index[Caller(j)] <= index[x]
      BY <1>1, <1>2, <1>3, <1>8, <1>9, <2>1, <2>2
    <3>2. x \in Node /\ y \in Leads(adj, x)
      BY <1>3, <1>7, <2>1, <2>2, LeadsIsTransitive
    <3>3. Caller(j) \in Leads(adj, x)
      BY <1>3, <1>9, <3>2, LeadsIsTransitive
    <3> QED
      BY <3>1, <3>3
  <2>3. CASE k # n
    <3>1. k \in 1..(n - 1)
      BY <1>1, <2>3
    <3> QED
      BY <2>1, <3>1
  <2> QED
    BY <2>2, <2>3
<1>23. LowIsReached'
  <2> SUFFICES ASSUME NEW k \in 1..(n - 1)
               PROVE  /\ low'[Caller(k)'] <= index'[Caller(k)']
                      /\ \E z \in OnStack' : /\ index'[z] = low'[Caller(k)']
                                            /\ z \in Leads(adj', Caller(k)')
    BY <1>1 DEF LowIsReached
  <2> SUFFICES /\ low'[Caller(k)] <= index[Caller(k)]
               /\ \E z \in OnStack : index[z] = low'[Caller(k)] /\ z \in Leads(adj, Caller(k))
    BY <1>1, <1>2, <1>6
  <2>1. low[Caller(k)] <= index[Caller(k)]
    BY <1>2 DEF IInv, LowIsReached
  <2>2. low'[Caller(k)] <= index[Caller(k)]
    <3>1. low'[Caller(k)] \in Int
      BY <1>14, <1>16
    <3> QED
      BY <1>3, <1>16, <2>1, <3>1
  <2>3. PICK z \in OnStack : index[z] = low[Caller(k)] /\ z \in Leads(adj, Caller(k))
    BY <1>2 DEF IInv, LowIsReached
  <2>4. CASE low'[Caller(k)] = low[Caller(k)]
    BY <2>2, <2>3, <2>4
  <2>5. CASE low'[Caller(k)] # low[Caller(k)]
    <3>1. Caller(k) = u /\ low'[u] = low[v]
      BY <1>14, <1>16, <2>5
    <3>2. v \in Leads(adj, u)
      <4>1. n - 1 \in Calls /\ index[u] <= index[v]
        BY <1>1, <1>2, <1>3, <1>11
      <4> QED
        BY <1>1, <1>10, <4>1 DEF IInv, CallsLeadUp
    <3>3. y \in Leads(adj, u)
      BY <1>3, <1>7, <1>11, <3>2, LeadsIsTransitive
    <3> QED
      BY <1>7, <2>2, <3>1, <3>3
  <2> QED
    BY <2>4, <2>5
<1>24. LowIsLeast'
  <2> SUFFICES ASSUME NEW k \in 1..(n - 1), NEW x \in Pushed(k)', NEW z \in Handled(x)', z \in OnStack
               PROVE  low'[Caller(k)] <= index[z]
    BY <1>1, <1>2, <1>6 DEF LowIsLeast
  <2>1. /\ x \in OnStack /\ index[Caller(k)] <= index[x]
        /\ k < n - 1 => index[x] < index[Caller(k + 1)']
    BY <1>1, <1>2, <1>6 DEF Pushed
  <2>2. z \in Handled(x) \cap OnStack
    BY <1>1, <1>3, <2>1
  <2>3. low[Caller(k)] \in Int /\ low'[Caller(k)] \in Int /\ index[z] \in Int /\ low'[Caller(k)] <= low[Caller(k)]
    BY <1>2, <1>3, <1>14, <1>16
  <2>4. CASE x \in Pushed(k)
    <3>1. low[Caller(k)] <= index[z]
      BY <1>2, <2>2, <2>4 DEF IInv, LowIsLeast
    <3> QED
      BY <2>3, <3>1
  <2>5. CASE x \notin Pushed(k)
    <3>1. k = n - 1
      <4> SUFFICES ASSUME k < n - 1 PROVE FALSE
        BY <1>1
      <4>1. k + 1 \in 1..(n - 1)
        BY <1>1
      <4>2. index[x] < index[Caller(k + 1)]
        BY <1>2, <2>1, <4>1
      <4> QED
        BY <2>1, <2>5, <4>2 DEF Pushed
    <3>2. index[v] <= index[x]
      <4>1. k + 1 = n
        BY <1>1, <3>1
      <4>2. ~(index[x] < index[v])
        BY <2>1, <2>5, <4>1 DEF Pushed
      <4> QED
        BY <1>1, <1>3, <2>1, <4>2
    <3>3. x \in Pushed(n)
      BY <1>1, <2>1, <3>2 DEF Pushed
    <3>4. low[v] <= index[z]
      BY <1>1, <2>2, <3>3 DEF IInv, LowIsLeast
    <3>5. low'[Caller(k)] <= low[v]
      BY <1>10, <1>14, <3>1
    <3> QED
      BY <1>1, <1>3, <2>3, <3>4, <3>5
  <2> QED
    BY <2>4, <2>5
<1>25. PoppedAreComponents'
  BY <1>1, <1>5 DEF IInv, PoppedAreComponents
<1> QED
  BY <1>17, <1>18, <1>19, <1>20, <1>21, <1>22, <1>23, <1>24, <1>25 DEF IInv

LEMMA LeaveKeeps == ASSUME IInv, Leave PROVE IInv'
<1>1. PICK n : n = Len(frames)
  OBVIOUS
<1>2. PICK v : v = Caller(n)
  OBVIOUS
<1>3. CASE low[v] = index[v]
  BY <1>1, <1>2, <1>3, LeaveRootKeeps
<1>4. CASE low[v] # index[v]
  BY <1>1, <1>2, <1>4, LeaveInnerKeeps
<1> QED
  BY <1>3, <1>4

-----------------------------------------------------------------------------
(* The sorts of SCCs *)

\* The members of s get smaller keys than those after them.
Ascending(s, n, key) == \A p, q \in 1..n : p < q => key[s[p]] < key[s[q]]

\* A finite set whose members have keys of their own can be listed in key order.
LEMMA SortExists ==
    ASSUME NEW S, IsFiniteSet(S), NEW key \in [S -> Nat],
           \A x, y \in S : key[x] = key[y] => x = y
    PROVE  \E s \in [1..Cardinality(S) -> S] : Ascending(s, Cardinality(S), key)
<1> DEFINE Smaller(x) == {y \in S : key[y] < key[x]}
           rank == [x \in S |-> Cardinality(Smaller(x)) + 1]
<1>1. PICK c \in Nat : c = Cardinality(S)
  BY FS_CardinalityType
<1>2. \A x \in S : key[x] \in Nat
  OBVIOUS
<1>3. ASSUME NEW x \in S
      PROVE  /\ IsFiniteSet(Smaller(x)) /\ Cardinality(Smaller(x)) \in Nat
             /\ rank[x] = Cardinality(Smaller(x)) + 1 /\ rank[x] \in 1..c
  <2>1. Smaller(x) \in SUBSET (S \ {x}) /\ Smaller(x) \in SUBSET S
    BY <1>2
  <2>2. IsFiniteSet(S \ {x}) /\ Cardinality(S \ {x}) = c - 1
    BY <1>1, FS_RemoveElement
  <2> HIDE DEF Smaller
  <2>3. IsFiniteSet(Smaller(x)) /\ Cardinality(Smaller(x)) <= c - 1
    BY <2>1, <2>2, FS_Subset
  <2>4. Cardinality(Smaller(x)) \in Nat
    BY <2>3, FS_CardinalityType
  <2> QED
    BY <1>1, <2>3, <2>4
<1>4. ASSUME NEW x \in S, NEW y \in S, key[x] < key[y] PROVE rank[x] < rank[y]
  <2>1. Smaller(x) \cup {x} \in SUBSET Smaller(y) /\ x \notin Smaller(x)
    BY <1>2, <1>4
  <2> HIDE DEF Smaller, rank
  <2>2. Cardinality(Smaller(x) \cup {x}) = Cardinality(Smaller(x)) + 1
    BY <1>3, <2>1, FS_AddElement
  <2>3. Cardinality(Smaller(x) \cup {x}) <= Cardinality(Smaller(y))
    BY <1>3, <2>1, FS_Subset
  <2> QED
    BY <1>3, <2>2, <2>3
<1> HIDE DEF Smaller
<1>5. rank \in [S -> 1..c]
  BY <1>3
<1> HIDE DEF rank
<1>6. ASSUME NEW x \in S, NEW y \in S, rank[x] = rank[y] PROVE x = y
  <2>1. ~(key[x] < key[y]) /\ ~(key[y] < key[x])
    BY <1>3, <1>4, <1>6
  <2> QED
    BY <1>2, <2>1
<1>7. \A p \in 1..c : \E x \in S : rank[x] = p
  <2>1. rank \in Injection(S, 1..c)
    BY <1>5, <1>6 DEF Injection, IsInjective
  <2>2. IsFiniteSet(1..c) /\ Cardinality(1..c) = c
    BY FS_Interval
  <2>3. rank \in Surjection(S, 1..c)
    BY <1>1, <2>1, <2>2, FS_Injection
  <2> QED
    BY <2>3 DEF Surjection
<1>8. PICK s : s = [p \in 1..c |-> CHOOSE x \in S : rank[x] = p]
  OBVIOUS
<1>9. \A p \in 1..c : s[p] \in S /\ rank[s[p]] = p
  BY <1>7, <1>8
<1>10. s \in [1..c -> S]
  BY <1>8, <1>9
<1>11. ASSUME NEW p \in 1..c, NEW q \in 1..c, p < q PROVE key[s[p]] < key[s[q]]
  <2>1. s[p] \in S /\ s[q] \in S /\ rank[s[p]] = p /\ rank[s[q]] = q
    BY <1>9
  <2>2. ~(key[s[q]] < key[s[p]])
    BY <1>4, <1>11, <2>1
  <2>3. key[s[p]] # key[s[q]]
    BY <1>11, <2>1
  <2> QED
    BY <1>2, <2>1, <2>2, <2>3
<1> QED
  BY <1>1, <1>10, <1>11 DEF Ascending

\* ... and the list has each of its members.
LEMMA SortIsOnto ==
    ASSUME NEW S, IsFiniteSet(S), NEW key \in [S -> Nat],
           NEW s \in [1..Cardinality(S) -> S], Ascending(s, Cardinality(S), key)
    PROVE  /\ Cardinality(S) \in Nat /\ s \in Seq(S) /\ Len(s) = Cardinality(S)
           /\ Members(s) = S
<1>1. PICK c \in Nat : c = Cardinality(S)
  BY FS_CardinalityType
<1>2. s \in Seq(S)
  BY <1>1, SeqDef
<1>3. Len(s) = c
  <2>1. DOMAIN s = 1..Len(s) /\ Len(s) \in Nat /\ DOMAIN s = 1..c
    BY <1>1, <1>2, LenProperties
  <2>2. c # 0 => c \in 1..Len(s)
    BY <2>1
  <2>3. Len(s) # 0 => Len(s) \in 1..c
    BY <2>1
  <2>4. Len(s) \in Nat
    BY <2>1
  <2> QED
    BY <2>2, <2>3, <2>4
<1>4. ASSUME NEW p \in 1..c, NEW q \in 1..c, s[p] = s[q] PROVE p = q
  <2>1. s[p] \in S /\ key[s[p]] \in Nat
    BY <1>1
  <2>2. ~(p < q) /\ ~(q < p)
    BY <1>1, <1>4, <2>1 DEF Ascending
  <2> QED
    BY <2>2
<1>5. s \in Surjection(1..c, S)
  <2>1. s \in Injection(1..c, S)
    BY <1>1, <1>4 DEF Injection, IsInjective
  <2>2. Cardinality(1..c) = c
    BY FS_Interval
  <2> QED
    BY <1>1, <2>1, <2>2, FS_Injection
<1> QED
  BY <1>1, <1>2, <1>3, <1>5 DEF Surjection, Members

\* The components with several members are finite sets of nodes, disjoint.
LEMMA SeveralShape ==
    ASSUME IInv
    PROVE  /\ \A C \in Several : /\ C \in SUBSET Node /\ IsFiniteSet(C) /\ Cardinality(C) > 1
                                 /\ \A v \in C : C = CycleMates(adj, v)
           /\ \A B, C \in Several : B \cap C # {} => B = C
<1>1. components \in Seq(Seq(Node))
  BY DEF IInv, TypeOK
<1>2. ASSUME NEW k \in 1..Len(components) PROVE Members(components[k]) \subseteq Node
  <2>1. components[k] \in Seq(Node)
    BY <1>1, ElementOfSeq
  <2> QED
    BY <2>1, ElementOfSeq DEF Members
<1>3. ASSUME NEW C \in Several
      PROVE  /\ C \in SUBSET Node /\ IsFiniteSet(C) /\ Cardinality(C) > 1
             /\ \A v \in C : C = CycleMates(adj, v)
  <2>1. PICK k \in 1..Len(components) : C = Members(components[k])
    BY DEF Several
  <2>2. C \in SUBSET Node
    BY <1>2, <2>1
  <2>3. IsFiniteSet(C)
    BY <2>2, NodeIsFinite, FS_Subset
  <2> QED
    BY <2>1, <2>2, <2>3 DEF Several, IInv, PoppedAreComponents
<1>4. ASSUME NEW B \in Several, NEW C \in Several, B \cap C # {} PROVE B = C
  <2>1. PICK v : v \in B /\ v \in C
    BY <1>4
  <2> QED
    BY <1>3, <2>1
<1> QED
  BY <1>3, <1>4

\* A component sorted.
LEMMA InKeyOrderSorts ==
    ASSUME IInv, NEW C \in Several
    PROVE  /\ InKeyOrder(C) \in Seq(Node) /\ Members(InKeyOrder(C)) = C
           /\ Len(InKeyOrder(C)) \in Nat /\ Len(InKeyOrder(C)) > 1
           /\ \A p, q \in 1..Len(InKeyOrder(C)) : p < q => Less(g, InKeyOrder(C)[p], InKeyOrder(C)[q])
<1>1. C \in SUBSET Node /\ IsFiniteSet(C) /\ Cardinality(C) > 1 /\ Cardinality(C) \in Nat
  BY SeveralShape, FS_CardinalityType
<1>2. PICK c : c = Cardinality(C)
  OBVIOUS
<1>3. PICK key : key = [x \in C |-> g.key[x]]
  OBVIOUS
<1>4. key \in [C -> Nat] /\ \A x, y \in C : key[x] = key[y] => x = y
  <2>1. g.key \in [Node -> Nat] /\ \A i, j \in Node : g.key[i] = g.key[j] => i = j
    BY DEF IInv, TypeOK, IsGraph
  <2> QED
    BY <1>1, <1>3, <2>1
<1>5. \A s \in [1..c -> C] :
          Ascending(s, c, key) <=> \A p, q \in 1..c : p < q => Less(g, s[p], s[q])
  BY <1>3 DEF Ascending, Less
<1>6. \E s \in [1..c -> C] : \A p, q \in 1..c : p < q => Less(g, s[p], s[q])
  BY <1>1, <1>2, <1>4, <1>5, SortExists
<1>7. /\ InKeyOrder(C) \in [1..c -> C]
      /\ \A p, q \in 1..c : p < q => Less(g, InKeyOrder(C)[p], InKeyOrder(C)[q])
  BY <1>2, <1>6 DEF InKeyOrder
<1>8. /\ InKeyOrder(C) \in Seq(C) /\ Len(InKeyOrder(C)) = c /\ Members(InKeyOrder(C)) = C
  <2>1. Ascending(InKeyOrder(C), c, key)
    BY <1>5, <1>7
  <2> QED
    BY <1>1, <1>2, <1>4, <1>7, <2>1, SortIsOnto
<1>9. InKeyOrder(C) \in Seq(Node)
  BY <1>1, <1>8, SeqMonotonic
<1> QED
  BY <1>1, <1>2, <1>7, <1>8, <1>9

\* What SCCs reports: the sorted components, in the order of their first members.
LEMMA ReportedSorts ==
    ASSUME IInv
    PROVE  /\ Reported \in Seq(Seq(Node)) /\ Len(Reported) \in Nat
           /\ {Members(Reported[k]) : k \in 1..Len(Reported)} = Several
           /\ \A j, k \in 1..Len(Reported) : j < k => Less(g, Reported[j][1], Reported[k][1])
           /\ \A k \in 1..Len(Reported) : \A p, q \in 1..Len(Reported[k]) :
                 p < q => Less(g, Reported[k][p], Reported[k][q])
<1>1. PICK several : several = {InKeyOrder(C) : C \in Several}
  OBVIOUS
<1>2. ASSUME NEW s \in several
      PROVE  /\ s \in Seq(Node) /\ Members(s) \in Several /\ s = InKeyOrder(Members(s))
             /\ s[1] \in Node /\ s[1] \in Members(s)
             /\ \A p, q \in 1..Len(s) : p < q => Less(g, s[p], s[q])
  <2>1. PICK C \in Several : s = InKeyOrder(C)
    BY <1>1
  <2>2. /\ s \in Seq(Node) /\ Members(s) = C /\ Len(s) \in Nat /\ Len(s) > 1
        /\ \A p, q \in 1..Len(s) : p < q => Less(g, s[p], s[q])
    BY <2>1, InKeyOrderSorts
  <2>3. 1 \in 1..Len(s)
    BY <2>2
  <2>4. s[1] \in Node /\ s[1] \in Members(s)
    BY <2>2, <2>3, ElementOfSeq DEF Members
  <2> QED
    BY <2>1, <2>2, <2>4
<1>3. ASSUME NEW s \in several, NEW t \in several, s[1] = t[1] PROVE s = t
  <2>1. Members(s) \cap Members(t) # {}
    BY <1>2, <1>3
  <2>2. Members(s) = Members(t)
    BY <1>2, <2>1, SeveralShape
  <2>3. s = InKeyOrder(Members(s)) /\ t = InKeyOrder(Members(t))
    BY <1>2
  <2> QED
    BY <2>2, <2>3
<1>4. IsFiniteSet(several)
  <2>1. PICK f : f = [s \in several |-> s[1]]
    OBVIOUS
  <2>2. f \in Injection(several, Node)
    BY <1>2, <1>3, <2>1 DEF Injection, IsInjective
  <2> QED
    BY <2>2, NodeIsFinite, FS_Injection
<1>5. PICK c : c = Cardinality(several)
  OBVIOUS
<1>6. PICK key : key = [s \in several |-> g.key[s[1]]]
  OBVIOUS
<1>7. key \in [several -> Nat] /\ \A s, t \in several : key[s] = key[t] => s = t
  <2>1. g.key \in [Node -> Nat] /\ \A i, j \in Node : g.key[i] = g.key[j] => i = j
    BY DEF IInv, TypeOK, IsGraph
  <2>2. \A s \in several : key[s] = g.key[s[1]]
    BY <1>6
  <2> QED
    BY <1>2, <1>3, <1>6, <2>1, <2>2
<1>8. \A s \in [1..c -> several] :
          Ascending(s, c, key) <=> \A p, q \in 1..c : p < q => Less(g, s[p][1], s[q][1])
  BY <1>6 DEF Ascending, Less
<1>9. \E s \in [1..c -> several] : \A p, q \in 1..c : p < q => Less(g, s[p][1], s[q][1])
  BY <1>4, <1>5, <1>7, <1>8, SortExists
<1>10. /\ Reported \in [1..c -> several]
       /\ \A p, q \in 1..c : p < q => Less(g, Reported[p][1], Reported[q][1])
  <2>1. Reported = CHOOSE s \in [1..c -> several] :
                       \A p, q \in 1..c : p < q => Less(g, s[p][1], s[q][1])
    BY <1>1, <1>5 DEF Reported
  <2> QED
    BY <1>9, <2>1
<1>11. /\ c \in Nat /\ Reported \in Seq(several) /\ Len(Reported) = c /\ Members(Reported) = several
  <2>1. Ascending(Reported, c, key)
    BY <1>8, <1>10
  <2> QED
    BY <1>4, <1>5, <1>7, <1>10, <2>1, SortIsOnto
<1>12. Reported \in Seq(Seq(Node))
  <2>1. several \subseteq Seq(Node)
    BY <1>2
  <2> QED
    BY <1>11, <2>1, SeqMonotonic
<1>13. \A k \in 1..c : Reported[k] \in several
  BY <1>10
<1>14. ASSUME NEW C \in Several PROVE \E k \in 1..c : C = Members(Reported[k])
  <2>1. InKeyOrder(C) \in several /\ Members(InKeyOrder(C)) = C
    BY <1>1, InKeyOrderSorts
  <2>2. PICK k \in 1..c : Reported[k] = InKeyOrder(C)
    BY <1>11, <2>1 DEF Members
  <2> QED
    BY <2>1, <2>2
<1>15. {Members(Reported[k]) : k \in 1..Len(Reported)} = Several
  BY <1>2, <1>11, <1>13, <1>14
<1>16. \A k \in 1..c : \A p, q \in 1..Len(Reported[k]) :
          p < q => Less(g, Reported[k][p], Reported[k][q])
  BY <1>2, <1>13
<1> QED
  BY <1>10, <1>11, <1>12, <1>15, <1>16

\* Without an active call every visited node has its component.
LEMMA IdleIsDone == ASSUME IInv, frames = << >> PROVE Done = Visited
<1>1. Calls = {}
  BY DEF Calls
<1>2. OnStack = {}
  BY <1>1 DEF IInv, StackLeadsDown
<1> QED
  BY <1>2 DEF IInv, VisitedIsSplit

\* When all nodes have a component, those with several members are the cycles.
LEMMA SeveralAreCycles ==
    ASSUME IInv, Done = Node
    PROVE  Several = {CycleMates(adj, v) : v \in {u \in Node : u \in Reachable(adj, u)}}
<1>1. adj \in [Node -> SUBSET Node] /\ \A v \in Node : v \notin adj[v]
  BY DEF IInv, TypeOK, AdjacencyIsFixed, Targets
<1>2. ASSUME NEW C \in Several PROVE \E v \in Node : v \in Reachable(adj, v) /\ C = CycleMates(adj, v)
  <2>1. C \in SUBSET Node /\ IsFiniteSet(C) /\ Cardinality(C) > 1
    BY SeveralShape
  <2>2. PICK v : v \in C
    BY <2>1, FS_EmptySet
  <2>3. PICK w \in C : w # v
    BY <2>1, <2>2, FS_Singleton
  <2>4. v \in Node /\ w \in Node /\ C = CycleMates(adj, v)
    BY <2>1, <2>2, SeveralShape
  <2>5. w \in Reachable(adj, v) /\ v \in Reachable(adj, w)
    BY <2>3, <2>4 DEF CycleMates
  <2>6. v \in Reachable(adj, v)
    BY <1>1, <2>4, <2>5, ReachableIsTransitive
  <2> QED
    BY <2>4, <2>6
<1>3. ASSUME NEW v \in Node, v \in Reachable(adj, v) PROVE CycleMates(adj, v) \in Several
  <2>1. PICK k \in 1..Len(components) : v \in Members(components[k])
    BY DEF Done
  <2>2. Members(components[k]) = CycleMates(adj, v)
    BY <2>1 DEF IInv, PoppedAreComponents
  <2>3. PICK w \in CycleMates(adj, v) : w # v
    BY <1>1, <1>3, CycleHasTwo
  <2>4. CycleMates(adj, v) \in SUBSET Node /\ v \in CycleMates(adj, v)
    BY <1>1, ReachableIsClosed DEF CycleMates
  <2>5. IsFiniteSet(CycleMates(adj, v)) /\ Cardinality(CycleMates(adj, v)) \in Nat
    BY <2>4, NodeIsFinite, FS_Subset, FS_CardinalityType
  <2>6. Cardinality(CycleMates(adj, v)) # 0
    BY <2>4, <2>5, FS_EmptySet
  <2>7. Cardinality(CycleMates(adj, v)) # 1
    BY <2>3, <2>4, <2>5, FS_Singleton
  <2>8. Cardinality(CycleMates(adj, v)) > 1
    BY <2>5, <2>6, <2>7
  <2> QED
    BY <2>2, <2>8 DEF Several
<1> QED
  BY <1>2, <1>3

-----------------------------------------------------------------------------
(* The theorems *)

LEMMA UnchangedKeeps == ASSUME IInv, UNCHANGED vars PROVE IInv'
<1>1. /\ TypeOK' = TypeOK /\ AdjacencyIsFixed' = AdjacencyIsFixed /\ Visited' = Visited
      /\ OnStack' = OnStack /\ Done' = Done
  BY DEF vars, TypeOK, AdjacencyIsFixed, Visited, OnStack, Done, Members
<1>2. Numbered' /\ StackInOrder' /\ VisitedIsSplit' /\ DoneIsClosed' /\ PoppedAreComponents'
  BY <1>1 DEF IInv, vars, Numbered, StackInOrder, VisitedIsSplit, DoneIsClosed, PoppedAreComponents
<1>3. /\ Calls' = Calls /\ (\A k : Caller(k)' = Caller(k)) /\ (\A x : Handled(x)' = Handled(x))
      /\ \A k : Pushed(k)' = Pushed(k)
  BY <1>1 DEF vars, Calls, Caller, Handled, Pushed
<1>4. CallsInOrder' /\ HandledIsVisited' /\ CallsLeadUp' /\ StackLeadsDown' /\ LowIsReached' /\ LowIsLeast'
  BY <1>1, <1>3 DEF IInv, vars, CallsInOrder, HandledIsVisited, CallsLeadUp, StackLeadsDown,
     LowIsReached, LowIsLeast
<1> QED
  BY <1>1, <1>2, <1>4 DEF IInv

LEMMA ReturnKeeps == ASSUME IInv, Return PROVE IInv'
<1>1. /\ UNCHANGED <<g, adj, frames, index, low, stack, counter, components>>
      /\ result' = [done |-> TRUE, comps |-> Reported]
  BY DEF Return
<1>2. TypeOK'
  <2>1. Reported \in Seq(Seq(Node))
    BY ReportedSorts
  <2> QED
    BY <1>1, <2>1 DEF IInv, TypeOK
<1>3. AdjacencyIsFixed' /\ Visited' = Visited /\ OnStack' = OnStack /\ Done' = Done
  BY <1>1 DEF IInv, AdjacencyIsFixed, Visited, OnStack, Done, Members
<1>4. Numbered' /\ StackInOrder' /\ VisitedIsSplit' /\ DoneIsClosed' /\ PoppedAreComponents'
  BY <1>1, <1>3 DEF IInv, Numbered, StackInOrder, VisitedIsSplit, DoneIsClosed, PoppedAreComponents
<1>5. /\ Calls' = Calls /\ (\A k : Caller(k)' = Caller(k)) /\ (\A x : Handled(x)' = Handled(x))
      /\ \A k : Pushed(k)' = Pushed(k)
  BY <1>1, <1>3 DEF Calls, Caller, Handled, Pushed
<1>6. CallsInOrder' /\ HandledIsVisited' /\ CallsLeadUp' /\ StackLeadsDown' /\ LowIsReached' /\ LowIsLeast'
  BY <1>1, <1>3, <1>5 DEF IInv, CallsInOrder, HandledIsVisited, CallsLeadUp, StackLeadsDown,
     LowIsReached, LowIsLeast
<1> QED
  BY <1>2, <1>3, <1>4, <1>6 DEF IInv

\* The invariant is inductive.
LEMMA NextKeeps == ASSUME IInv, [Next]_vars PROVE IInv'
<1>1. CASE StartRoot
  BY <1>1, StartRootKeeps
<1>2. CASE Descend
  BY <1>2, DescendKeeps
<1>3. CASE LookAtVisited
  <2>1. PICK n : n = Len(frames)
    OBVIOUS
  <2> QED
    BY <1>3, <2>1, LookAtVisitedKeeps
<1>4. CASE Leave
  BY <1>4, LeaveKeeps
<1>5. CASE Return
  BY <1>5, ReturnKeeps
<1>6. CASE Returned \/ UNCHANGED vars
  BY <1>6, UnchangedKeeps DEF Returned
<1> QED
  BY <1>1, <1>2, <1>3, <1>4, <1>5, <1>6 DEF Next

LEMMA AlwaysIInv == Spec => []IInv
<1>1. Init => IInv
  BY InitIInv
<1>2. IInv /\ [Next]_vars => IInv'
  BY NextKeeps
<1> QED
  BY <1>1, <1>2, PTL DEF Spec

\* Every variable of SCCs keeps its type; in particular the visit counter
\* never passes the number of nodes, and what is returned are slices of nodes.
THEOREM TypesHold == Spec => []TypeOK
<1>1. IInv => TypeOK
  BY DEF IInv
<1> QED
  BY <1>1, AlwaysIInv, PTL

\* The stack holds the visited nodes without a component, and each leads to
\* an active call of strongConnect.
THEOREM StackHoldsOpenNodes == Spec => []StackIsOpenNodes
<1>1. IInv => StackIsOpenNodes
  <2> SUFFICES ASSUME IInv PROVE StackIsOpenNodes
    OBVIOUS
  <2>1. OnStack = Visited \ Done
    BY DEF IInv, VisitedIsSplit
  <2>2. \A v \in OnStack : \E k \in 1..Len(frames) : frames[k].node \in {v} \cup Reachable(adj, v)
    BY DEF IInv, StackLeadsDown, Calls, Caller, Leads
  <2> QED
    BY <2>1, <2>2 DEF StackIsOpenNodes, Done
<1> QED
  BY <1>1, AlwaysIInv, PTL

\* What strongConnect pops for a root is a whole strongly connected component.
THEOREM PoppedSetsAreComponents == Spec => []PoppedAreComponents
<1>1. IInv => PoppedAreComponents
  BY DEF IInv
<1> QED
  BY <1>1, AlwaysIInv, PTL

\* Once SCCs has returned nothing is left to do.
DoneIsIdle == result.done => frames = << >>

\* SCCs returns exactly the cycles of the graph, each once, sorted.
THEOREM SCCsAreTheCycles == Spec => []ReturnsTheCycles
<1> DEFINE R == DoneIsIdle /\ ReturnsTheCycles
<1>1. Init => R
  BY DEF Init, DoneIsIdle, ReturnsTheCycles
<1>2. IInv /\ R /\ [Next]_vars => R'
  <2> SUFFICES ASSUME IInv, R, [Next]_vars PROVE R'
    OBVIOUS
  <2>1. CASE Return
    <3>1. /\ frames = << >> /\ Visited = Node /\ g' = g /\ adj' = adj /\ frames' = frames
          /\ result'.done /\ result'.comps = Reported
      BY <2>1 DEF Return
    <3>2. Several = {CycleMates(adj, v) : v \in {u \in Node : u \in Reachable(adj, u)}}
      BY <3>1, IdleIsDone, SeveralAreCycles
    <3>3. /\ {Members(Reported[k]) : k \in 1..Len(Reported)} = Several
          /\ \A j, k \in 1..Len(Reported) : j < k => Less(g, Reported[j][1], Reported[k][1])
          /\ \A k \in 1..Len(Reported) : \A p, q \in 1..Len(Reported[k]) :
                p < q => Less(g, Reported[k][p], Reported[k][q])
      BY ReportedSorts
    <3>4. ReturnsTheCycles' <=>
          /\ {Members(Reported[k]) : k \in 1..Len(Reported)} =
                {CycleMates(adj, v) : v \in {u \in Node : u \in Reachable(adj, u)}}
          /\ \A j, k \in 1..Len(Reported) : j < k => Less(g, Reported[j][1], Reported[k][1])
          /\ \A k \in 1..Len(Reported) : \A p, q \in 1..Len(Reported[k]) :
                p < q => Less(g, Reported[k][p], Reported[k][q])
      BY <3>1 DEF ReturnsTheCycles, Members
    <3> QED
      BY <3>1, <3>2, <3>3, <3>4 DEF DoneIsIdle
  <2>2. CASE StartRoot \/ Descend \/ LookAtVisited \/ Leave
    <3>1. ~result.done
      BY <2>2 DEF StartRoot, Descend, LookAtVisited, Leave, DoneIsIdle
    <3>2. result' = result
      BY <2>2 DEF StartRoot, Descend, LookAtVisited, Leave, Enter
    <3> QED
      BY <3>1, <3>2 DEF DoneIsIdle, ReturnsTheCycles
  <2>3. CASE Returned \/ UNCHANGED vars
    <3>1. g' = g /\ adj' = adj /\ frames' = frames /\ result' = result
      BY <2>3 DEF Returned, vars
    <3>2. ReturnsTheCycles' = ReturnsTheCycles
      BY <3>1 DEF ReturnsTheCycles
    <3> QED
      BY <3>1, <3>2 DEF DoneIsIdle
  <2> QED
    BY <2>1, <2>2, <2>3 DEF Next
<1> QED
  BY <1>1, <1>2, AlwaysIInv, PTL DEF Spec

=============================================================================
