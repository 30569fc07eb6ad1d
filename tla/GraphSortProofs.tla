-------------------------- MODULE GraphSortProofs --------------------------
(***************************************************************************)
(* Proofs about GraphSort, for every number of nodes, every set of names   *)
(* and every set of inputs: its invariants, that it implements             *)
(* DependencyOrder, and that the cycle it reports is a real one.           *)
(***************************************************************************)
EXTENDS GraphSort, FiniteSetTheorems, SequenceTheorems, TLAPS

\* What the other invariants need to know of the control state.
Phases ==
    /\ pc = "edges" => order = << >>
    /\ pc # "edges" => scan = N + 1

\* The inductive invariant.  ReadyIsExact follows from the counts only with
\* TopologicalOrder: a dependent of the node popped may not have been
\* emitted before it.
IInv ==
    /\ TypeOK
    /\ Phases
    /\ CountsAreExact
    /\ ReadyIsExact
    /\ TopologicalOrder

-----------------------------------------------------------------------------
(* Finite sets of nodes *)

\* The nodes are finitely many, so that counts of them are numbers.
LEMMA NodeIsFinite == IsFiniteSet(Node) /\ Cardinality(Node) = N
BY FS_Interval, SizeAssumption DEF Node

\* The dependencies of a node, and those among them not in a set, are
\* finitely many; taking a node out of them is a step of the count.
LEMMA TargetsAreFinite ==
    ASSUME NEW h, NEW i \in Node, NEW E
    PROVE  /\ Targets(h, i) \subseteq Node \ {i}
           /\ IsFiniteSet(Targets(h, i) \ E)
           /\ Cardinality(Targets(h, i) \ E) \in Nat
           /\ Cardinality(Targets(h, i) \ E) = 0 <=> Targets(h, i) \subseteq E
<1>1. Targets(h, i) \subseteq Node \ {i}
  BY DEF Targets
<1>2. Targets(h, i) \ E \in SUBSET Node
  BY <1>1
<1>3. IsFiniteSet(Targets(h, i) \ E)
  BY <1>2, NodeIsFinite, FS_Subset
<1>4. Cardinality(Targets(h, i) \ E) \in Nat
  BY <1>3, FS_CardinalityType
<1>5. Cardinality(Targets(h, i) \ E) = 0 <=> Targets(h, i) \ E = {}
  BY <1>3, FS_EmptySet
<1> QED
  BY <1>1, <1>3, <1>4, <1>5

\* Emitting i adds i to the nodes emitted.
LEMMA EmittedAppend ==
    ASSUME NEW s \in Seq(Node), NEW i \in Node
    PROVE  EmittedIn(Append(s, i)) = EmittedIn(s) \cup {i}
<1>1. /\ Len(s) \in Nat
      /\ Len(Append(s, i)) = Len(s) + 1
      /\ \A p \in 1..Len(s) : Append(s, i)[p] = s[p]
      /\ Append(s, i)[Len(s) + 1] = i
  BY AppendProperties, LenProperties
<1>2. ASSUME NEW x
      PROVE  x \in EmittedIn(Append(s, i)) <=> x \in EmittedIn(s) \cup {i}
  BY <1>1 DEF EmittedIn
<1> QED
  BY <1>2

\* Emitting i takes i out of the dependencies a node waits for.
LEMMA CountAfter ==
    ASSUME NEW h, NEW i \in Node, NEW j \in Node, NEW E, i \notin E
    PROVE  Cardinality(Targets(h, j) \ (E \cup {i})) =
              IF i \in Targets(h, j) THEN Cardinality(Targets(h, j) \ E) - 1
                                     ELSE Cardinality(Targets(h, j) \ E)
<1>1. Targets(h, j) \ (E \cup {i}) = (Targets(h, j) \ E) \ {i}
  OBVIOUS
<1>2. IsFiniteSet(Targets(h, j) \ E)
  BY TargetsAreFinite
<1>3. i \in Targets(h, j) \ E <=> i \in Targets(h, j)
  OBVIOUS
<1> QED
  BY <1>1, <1>2, <1>3, FS_RemoveElement

-----------------------------------------------------------------------------
(* The inductive invariant *)

\* The counters, the heap and the order are right before the first edge.
LEMMA InitIInv == Init => IInv
<1> SUFFICES ASSUME Init PROVE IInv
  OBVIOUS
<1>1. Node \subseteq Nat \ {0} /\ \A i \in Node : ~(i < 1)
  BY SizeAssumption DEF Node
<1>2. TypeOK
  BY InputsAssumption, SizeAssumption, EmptySeq DEF Init, TypeOK, Node
<1>3. Phases
  BY DEF Init, Phases
<1>4. CountsAreExact
  BY <1>1 DEF Init, CountsAreExact
<1>5. ReadyIsExact
  BY DEF Init, ReadyIsExact
<1>6. TopologicalOrder
  BY DEF Init, TopologicalOrder
<1> QED
  BY <1>2, <1>3, <1>4, <1>5, <1>6 DEF IInv

\* Adding the edges of one node counts each of its dependencies once.
LEMMA AddEdgesIInv == IInv /\ AddEdges => IInv'
<1> SUFFICES ASSUME IInv, AddEdges PROVE IInv'
  OBVIOUS
<1> USE DEF IInv
<1>1. /\ scan \in Node
      /\ scan' = scan + 1
      /\ order = << >>
      /\ UNCHANGED <<g, pc, ready, order, path>>
  BY SizeAssumption DEF AddEdges, Node, TypeOK, Phases
<1>2. Emitted = {} /\ Emitted' = {}
  BY <1>1 DEF Emitted, EmittedIn
<1>3. TypeOK'
  <2>1. Cardinality(Targets(g, scan) \ {}) \in Nat
    BY <1>1, TargetsAreFinite
  <2>2. Cardinality(Targets(g, scan)) \in Nat
    BY <2>1, Targets(g, scan) \ {} = Targets(g, scan)
  <2>3. scan' \in 1..(N + 1)
    BY <1>1, SizeAssumption DEF Node
  <2> QED
    BY <1>1, <2>2, <2>3 DEF TypeOK, AddEdges, Count
<1>4. Phases'
  BY <1>1 DEF AddEdges, Phases
<1>5. CountsAreExact'
  <2>1. ASSUME NEW i \in Node
        PROVE  indegree'[i] =
                  IF i < scan' THEN Cardinality(Targets(g, i) \ {}) ELSE 0
    <3>1. CASE i = scan
      BY <1>1, <3>1, Targets(g, scan) \ {} = Targets(g, scan) DEF AddEdges, Count, TypeOK, Node
    <3>2. CASE i # scan
      BY <1>1, <1>2, <3>2 DEF AddEdges, TypeOK, Node, CountsAreExact
    <3> QED
      BY <3>1, <3>2
  <2>2. ASSUME NEW j \in Node
        PROVE  dependents'[j] = {i \in 1..(scan' - 1) : j \in Targets(g, i)}
    BY <1>1 DEF AddEdges, TypeOK, Node, CountsAreExact
  <2> QED
    BY <1>1, <1>2, <2>1, <2>2 DEF CountsAreExact
<1>6. ReadyIsExact' /\ TopologicalOrder'
  BY <1>1 DEF AddEdges, ReadyIsExact, TopologicalOrder
<1> QED
  BY <1>3, <1>4, <1>5, <1>6

\* Once every edge is counted, the heap starts with the nodes that wait for
\* nothing.
LEMMA SeedReadyIInv == IInv /\ SeedReady => IInv'
<1> SUFFICES ASSUME IInv, SeedReady PROVE IInv'
  OBVIOUS
<1> USE DEF IInv
<1>1. /\ scan = N + 1
      /\ order = << >>
      /\ ready' = {i \in Node : indegree[i] = 0}
      /\ pc' = "pop"
      /\ UNCHANGED <<g, scan, indegree, dependents, order, path>>
  BY DEF SeedReady, Free, Phases
<1>2. TypeOK' /\ Phases'
  BY <1>1 DEF TypeOK, Phases
<1>3. CountsAreExact' /\ TopologicalOrder'
  BY <1>1 DEF CountsAreExact, TopologicalOrder, Emitted
<1>4. ReadyIsExact'
  <2>1. Emitted = {}
    BY <1>1 DEF Emitted, EmittedIn
  <2>2. ASSUME NEW i \in Node
        PROVE  indegree[i] = 0 <=> Targets(g, i) \subseteq {}
    <3>1. indegree[i] = Cardinality(Targets(g, i) \ {})
      BY <1>1, <2>1, SizeAssumption DEF CountsAreExact, Node
    <3>2. Cardinality(Targets(g, i) \ {}) = 0 <=> Targets(g, i) \subseteq {}
      BY TargetsAreFinite
    <3> QED
      BY <3>1, <3>2
  <2> QED
    BY <1>1, <2>1, <2>2 DEF ReadyIsExact, CanFollow, Emitted
<1> QED
  BY <1>2, <1>3, <1>4

\* An iteration of Kahn's loop: the count of each dependent goes down, and
\* those that reach zero enter the heap.
LEMMA PopReadyIInv == IInv /\ PopReady => IInv'
<1> SUFFICES ASSUME IInv, PopReady PROVE IInv'
  OBVIOUS
<1> USE DEF IInv
<1>1. PICK i \in ready :
          /\ order' = Append(order, i)
          /\ indegree' = Released(i)
          /\ ready' = (ready \ {i}) \cup {j \in dependents[i] : Released(i)[j] = 0}
  BY DEF PopReady
<1>2. /\ pc = "pop"
      /\ scan = N + 1
      /\ UNCHANGED <<g, pc, scan, dependents, path>>
  BY DEF PopReady, Phases
<1>3. /\ i \in Node
      /\ i \notin Emitted
      /\ Targets(g, i) \subseteq Emitted
      /\ ready = CanFollow(g, order)
  BY <1>2 DEF ReadyIsExact, CanFollow, Emitted
<1>4. /\ Emitted' = Emitted \cup {i}
      /\ order \in Seq(Node)
  BY <1>1, <1>3, EmittedAppend DEF Emitted, TypeOK
<1>5. /\ Len(order) \in Nat
      /\ order' \in Seq(Node)
      /\ Len(order') = Len(order) + 1
      /\ \A p \in 1..Len(order) : order'[p] = order[p]
      /\ order'[Len(order) + 1] = i
  BY <1>1, <1>3, <1>4, AppendProperties, LenProperties
<1>6. \A j \in Node : /\ indegree[j] = Cardinality(Targets(g, j) \ Emitted)
                      /\ j \in dependents[i] <=> i \in Targets(g, j)
  BY <1>2, <1>3, SizeAssumption DEF CountsAreExact, Node
<1>7. \A j \in Node : Released(i)[j] = Cardinality(Targets(g, j) \ (Emitted \cup {i}))
  <2> SUFFICES ASSUME NEW j \in Node
               PROVE  Released(i)[j] = Cardinality(Targets(g, j) \ (Emitted \cup {i}))
    OBVIOUS
  <2>1. Released(i)[j] = IF i \in Targets(g, j) THEN indegree[j] - 1 ELSE indegree[j]
    BY <1>6 DEF Released
  <2>2. Cardinality(Targets(g, j) \ (Emitted \cup {i})) =
           IF i \in Targets(g, j) THEN Cardinality(Targets(g, j) \ Emitted) - 1
                                  ELSE Cardinality(Targets(g, j) \ Emitted)
    BY <1>3, CountAfter
  <2> QED
    BY <1>6, <2>1, <2>2
<1>8. TypeOK'
  <2>1. \A j \in Node : Released(i)[j] \in Nat
    <3> SUFFICES ASSUME NEW j \in Node PROVE Released(i)[j] \in Nat
      OBVIOUS
    <3>1. Cardinality(Targets(g, j) \ (Emitted \cup {i})) \in Nat
      BY TargetsAreFinite
    <3> QED
      BY <1>7, <3>1
  <2>2. Released(i) \in [Node -> Nat]
    BY <2>1 DEF Released
  <2>3. dependents[i] \subseteq Node
    BY <1>3 DEF TypeOK
  <2> QED
    BY <1>1, <1>2, <1>5, <2>2, <2>3 DEF TypeOK
<1>9. Phases'
  BY <1>2 DEF Phases
<1>10. CountsAreExact'
  BY <1>1, <1>2, <1>4, <1>7, SizeAssumption DEF CountsAreExact, Node
<1>11. TopologicalOrder'
  <2>1. ASSUME NEW p \in 1..Len(order'), NEW q \in 1..Len(order'), order'[p] = order'[q]
        PROVE  p = q
    BY <1>3, <1>5, <2>1 DEF TopologicalOrder, Emitted, EmittedIn
  <2>2. ASSUME NEW p \in 1..Len(order'), NEW j \in Targets(g, order'[p])
        PROVE  \E q \in 1..(p - 1) : order'[q] = j
    <3>1. CASE p = Len(order) + 1
      BY <1>3, <1>5, <3>1 DEF Emitted, EmittedIn
    <3>2. CASE p \in 1..Len(order)
      <4>1. PICK q \in 1..(p - 1) : order[q] = j
        BY <1>5, <3>2, <2>2 DEF TopologicalOrder
      <4>2. q \in 1..Len(order)
        BY <1>5, <3>2
      <4> QED
        BY <1>5, <4>1, <4>2
    <3> QED
      BY <1>5, <3>1, <3>2
  <2> QED
    BY <1>2, <2>1, <2>2 DEF TopologicalOrder
<1>12. ReadyIsExact'
  <2>1. ASSUME NEW k \in Node
        PROVE  k \in ready' <=> k \in Node \ Emitted' /\ Targets(g, k) \subseteq Emitted'
    <3>1. Released(i)[k] = 0 <=> Targets(g, k) \subseteq Emitted \cup {i}
      BY <1>7, TargetsAreFinite
    <3>2. CASE i \notin Targets(g, k)
      BY <1>1, <1>3, <1>4, <1>6, <3>2 DEF CanFollow, Emitted
    <3>3. CASE i \in Targets(g, k)
      <4>1. k # i /\ k \notin ready
        BY <1>3, <3>3, TargetsAreFinite DEF CanFollow, Emitted
      <4>2. k \notin Emitted
        <5> SUFFICES ASSUME NEW p \in 1..Len(order), order[p] = k PROVE FALSE
          BY DEF Emitted, EmittedIn
        <5>1. PICK q \in 1..(p - 1) : order[q] = i
          BY <3>3 DEF TopologicalOrder
        <5>2. q \in 1..Len(order)
          BY <1>5
        <5> QED
          BY <1>3, <5>1, <5>2 DEF Emitted, EmittedIn
      <4> QED
        BY <1>1, <1>4, <1>6, <3>1, <3>3, <4>1, <4>2
    <3> QED
      BY <3>2, <3>3
  <2>2. ready' \subseteq Node
    BY <1>8 DEF TypeOK
  <2> QED
    BY <1>2, <2>1, <2>2 DEF ReadyIsExact, CanFollow, Emitted
<1> QED
  BY <1>8, <1>9, <1>10, <1>11, <1>12

\* The steps after the main loop change neither the order nor the counts.
LEMMA AfterLoopIInv ==
    IInv /\ (ReturnOrder \/ StartCyclePath \/ FollowHop \/ UNCHANGED vars) => IInv'
<1> SUFFICES ASSUME IInv, ReturnOrder \/ StartCyclePath \/ FollowHop \/ UNCHANGED vars
             PROVE  IInv'
  OBVIOUS
<1> USE DEF IInv
<1>1. /\ UNCHANGED <<g, scan, indegree, dependents, ready, order>>
      /\ pc' = "edges" => pc = "edges"
      /\ pc' = "pop" => pc = "pop"
      /\ pc = "edges" => pc' = "edges"
  BY DEF ReturnOrder, StartCyclePath, FollowHop, vars
<1>2. /\ pc' \in {"edges", "pop", "walk", "sorted", "cycle"}
      /\ path' \in Seq(Node)
  <2>1. CASE ReturnOrder \/ UNCHANGED vars
    BY <2>1 DEF ReturnOrder, vars, TypeOK
  <2>2. CASE StartCyclePath
    <3>1. PICK i \in Remaining : path' = <<i>>
      BY <2>2 DEF StartCyclePath
    <3> QED
      BY <2>2, <3>1 DEF StartCyclePath, Remaining
  <2>3. CASE FollowHop
    <3> DEFINE hops == Hops(path[Len(path)])
    <3>1. CASE hops = {}
      BY <2>3, <3>1 DEF FollowHop, TypeOK
    <3>2. CASE hops # {}
      <4>1. PICK next \in hops :
              IF \E p \in 1..Len(path) : path[p] = next
              THEN \E p \in 1..Len(path) :
                     /\ path[p] = next
                     /\ path' = SubSeq(Append(path, next), p, Len(path) + 1)
                     /\ pc' = "cycle"
              ELSE path' = Append(path, next) /\ pc' = "walk"
        BY <2>3, <3>2 DEF FollowHop
      <4>2. next \in Node /\ path \in Seq(Node)
        BY DEF Hops, Remaining, TypeOK
      <4>3. /\ Append(path, next) \in Seq(Node)
            /\ Len(Append(path, next)) = Len(path) + 1
            /\ Len(path) \in Nat
        BY <4>2, AppendProperties, LenProperties
      <4>4. ASSUME NEW p \in 1..Len(path)
            PROVE  SubSeq(Append(path, next), p, Len(path) + 1) \in Seq(Node)
        <5>1. \A m \in p..(Len(path) + 1) : Append(path, next)[m] \in Node
          BY <4>3, ElementOfSeq
        <5> QED
          BY <4>3, <5>1, SubSeqProperties
      <4> QED
        BY <4>1, <4>3, <4>4
    <3> QED
      BY <3>1, <3>2
  <2> QED
    BY <2>1, <2>2, <2>3
<1>3. TypeOK' /\ Phases'
  BY <1>1, <1>2 DEF TypeOK, Phases
<1>4. CountsAreExact' /\ TopologicalOrder' /\ ReadyIsExact'
  BY <1>1 DEF CountsAreExact, TopologicalOrder, ReadyIsExact, Emitted
<1> QED
  BY <1>3, <1>4

\* Every step of Sort preserves the invariant.
LEMMA NextIInv == IInv /\ [Next]_vars => IInv'
BY AddEdgesIInv, SeedReadyIInv, PopReadyIInv, AfterLoopIInv DEF Next, Returned

\* The inductive invariant holds throughout every run of Sort.
THEOREM Inductive == Spec => []IInv
BY InitIInv, NextIInv, PTL DEF Spec

-----------------------------------------------------------------------------
(* What follows for the order returned *)

\* The variables of Sort keep their types: no count is ever negative.
THEOREM TypeCorrect == Spec => []TypeOK
<1>1. IInv => TypeOK
  BY DEF IInv
<1> QED
  BY <1>1, Inductive, PTL

\* Kahn's counters stay exact, whatever the shape of the graph.
THEOREM CountsCorrect == Spec => []CountsAreExact
<1>1. IInv => CountsAreExact
  BY DEF IInv
<1> QED
  BY <1>1, Inductive, PTL

\* The heap of Sort never misses a node and never holds one too many.
THEOREM ReadyCorrect == Spec => []ReadyIsExact
<1>1. IInv => ReadyIsExact
  BY DEF IInv
<1> QED
  BY <1>1, Inductive, PTL

\* Every order Sort builds can be executed from the top, for any number of
\* statements.
THEOREM OrderCorrect == Spec => []TopologicalOrder
<1>1. IInv => TopologicalOrder
  BY DEF IInv
<1> QED
  BY <1>1, Inductive, PTL

-----------------------------------------------------------------------------
(* The promise of DependencyOrder, and the cycle that is reported *)

\* No node is emitted twice, counted: order is as long as Emitted is large.
Progress == Cardinality(Emitted) = Len(order)

\* findCyclePath's walk stays among the remaining nodes, along edges, without
\* repeating a node; and each of these nodes waits for another one.
Walk ==
    pc = "walk" =>
        /\ CanFollow(g, order) = {}
        /\ Len(path) >= 1
        /\ \A p \in 1..Len(path) : path[p] \in Remaining
        /\ \A p \in 1..(Len(path) - 1) : path[p + 1] \in Targets(g, path[p])
        /\ \A p, q \in 1..Len(path) : path[p] = path[q] => p = q

JInv == IInv /\ Progress /\ Walk /\ CycleIsReal

-----------------------------------------------------------------------------

\* A sequence of nodes emits some of the nodes, finitely many.
LEMMA EmittedAreNodes ==
    ASSUME TypeOK
    PROVE  /\ Emitted \subseteq Node
           /\ IsFiniteSet(Emitted)
           /\ Cardinality(Emitted) = N => Emitted = Node
           /\ Len(order) \in Nat
<1>1. Len(order) \in Nat /\ \A p \in 1..Len(order) : order[p] \in Node
  BY LenProperties, ElementOfSeq DEF TypeOK
<1>2. Emitted \in SUBSET Node
  BY <1>1 DEF Emitted, EmittedIn
<1> QED
  BY <1>1, <1>2, NodeIsFinite, FS_Subset

\* The steps before and after the main loop leave the order alone, and an
\* iteration of the loop adds a node that was not in it.
LEMMA ProgressStep == IInv /\ Progress /\ [Next]_vars => Progress'
<1> SUFFICES ASSUME IInv, Progress, [Next]_vars PROVE Progress'
  OBVIOUS
<1>1. CASE PopReady
  <2>1. PICK i \in ready : order' = Append(order, i)
    BY <1>1 DEF PopReady
  <2>2. i \in Node /\ i \notin Emitted
    BY <1>1, <2>1 DEF PopReady, IInv, ReadyIsExact, CanFollow, Emitted
  <2>3. Emitted' = Emitted \cup {i} /\ Len(order') = Len(order) + 1
    BY <2>1, <2>2, EmittedAppend, AppendProperties DEF IInv, TypeOK, Emitted
  <2>4. Cardinality(Emitted \cup {i}) = Cardinality(Emitted) + 1
    BY <2>2, EmittedAreNodes, FS_AddElement DEF IInv
  <2> QED
    BY <2>3, <2>4 DEF Progress
<1>2. CASE UNCHANGED order
  BY <1>2 DEF Progress, Emitted
<1> QED
  BY <1>1, <1>2 DEF Next, AddEdges, SeedReady, ReturnOrder, StartCyclePath, FollowHop,
                    Returned, vars

\* A node of the walk has a hop: it is not emitted, and could be if all its
\* dependencies were.
LEMMA HopExists ==
    ASSUME NEW i \in Remaining, CanFollow(g, order) = {}
    PROVE  Hops(i) # {}
<1>1. ~(Targets(g, i) \subseteq Emitted)
  BY DEF CanFollow, Remaining, Emitted
<1> QED
  BY <1>1 DEF Hops, Remaining, Targets

\* The walk starts at a single remaining node.
LEMMA StartWalk == IInv /\ StartCyclePath => Walk' /\ CycleIsReal'
<1> SUFFICES ASSUME IInv, StartCyclePath PROVE Walk' /\ CycleIsReal'
  OBVIOUS
<1>1. PICK i \in Remaining : path' = <<i>>
  BY DEF StartCyclePath
<1>2. /\ pc' = "walk"
      /\ UNCHANGED <<g, order>>
      /\ CanFollow(g, order) = {}
  BY DEF StartCyclePath, IInv, ReadyIsExact
<1>3. /\ Len(path') = 1
      /\ path'[1] = i
  BY <1>1
<1>4. Walk'
  BY <1>1, <1>2, <1>3 DEF Walk, Remaining, Emitted
<1> QED
  BY <1>2, <1>4 DEF CycleIsReal

\* A hop extends the walk or closes it: to a node other than the last one,
\* since no node depends on itself.
LEMMA HopWalk == IInv /\ Walk /\ FollowHop => Walk' /\ CycleIsReal'
<1> SUFFICES ASSUME IInv, Walk, FollowHop PROVE Walk' /\ CycleIsReal'
  OBVIOUS
<1> DEFINE last == path[Len(path)]
           n == Len(path)
<1>1. /\ pc = "walk"
      /\ UNCHANGED <<g, order>>
      /\ path \in Seq(Node)
      /\ n \in Nat
      /\ n >= 1
      /\ last \in Remaining
      /\ Hops(last) # {}
  <2>1. /\ pc = "walk" /\ UNCHANGED <<g, order>>
        /\ path \in Seq(Node)
        /\ CanFollow(g, order) = {} /\ n >= 1
        /\ \A p \in 1..n : path[p] \in Remaining
    BY DEF FollowHop, Walk, IInv, TypeOK
  <2>2. n \in Nat /\ n \in 1..n
    BY <2>1, LenProperties
  <2>3. last \in Remaining
    BY <2>1, <2>2
  <2> QED
    BY <2>1, <2>2, <2>3, HopExists
<1>2. PICK next \in Hops(last) :
        IF \E p \in 1..n : path[p] = next
        THEN \E p \in 1..n :
               /\ path[p] = next
               /\ path' = SubSeq(Append(path, next), p, n + 1)
               /\ pc' = "cycle"
        ELSE path' = Append(path, next) /\ pc' = "walk"
  BY <1>1 DEF FollowHop
<1>3. /\ next \in Targets(g, last)
      /\ next \in Remaining
      /\ next \in Node
      /\ next # last
  BY <1>2 DEF Hops, Remaining, Targets
<1>4. /\ Append(path, next) \in Seq(Node)
      /\ Len(Append(path, next)) = n + 1
      /\ \A p \in 1..n : Append(path, next)[p] = path[p]
      /\ Append(path, next)[n + 1] = next
  BY <1>1, <1>3, AppendProperties
<1>5. \A p \in 1..n : Append(path, next)[p + 1] \in Targets(g, Append(path, next)[p])
  BY <1>1, <1>3, <1>4 DEF Walk
<1>6. CASE \E p \in 1..n : path[p] = next
  <2>1. PICK p \in 1..n : /\ path[p] = next
                          /\ path' = SubSeq(Append(path, next), p, n + 1)
                          /\ pc' = "cycle"
    BY <1>2, <1>6
  <2>2. p \in 1..(n - 1)
    BY <1>1, <1>3, <2>1
  <2>3. /\ Len(path') = n + 2 - p
        /\ \A k \in 1..(n + 2 - p) : path'[k] = Append(path, next)[p + k - 1]
    <3>1. \A k \in p..(n + 1) : Append(path, next)[k] \in Node
      BY <1>4, ElementOfSeq, <2>1
    <3> QED
      BY <1>1, <2>1, <3>1, SubSeqProperties
  <2>4. Len(path') >= 3 /\ path'[1] = path'[Len(path')]
    BY <1>1, <1>4, <2>1, <2>2, <2>3
  <2>5. ASSUME NEW k \in 1..(Len(path') - 1)
        PROVE  path'[k + 1] \in Targets(g, path'[k])
    <3> DEFINE at == p + k - 1
    <3>1. /\ at \in 1..n
          /\ k \in 1..(n + 2 - p)
          /\ k + 1 \in 1..(n + 2 - p)
          /\ p + (k + 1) - 1 = at + 1
      BY <1>1, <2>3
    <3>2. /\ path'[k] = Append(path, next)[p + k - 1]
          /\ path'[k + 1] = Append(path, next)[p + (k + 1) - 1]
      BY <2>3, <3>1
    <3>3. Append(path, next)[at + 1] \in Targets(g, Append(path, next)[at])
      BY <1>5, <3>1
    <3> QED
      BY <3>1, <3>2, <3>3
  <2>6. ASSUME NEW k \in 1..(Len(path') - 1), NEW m \in 1..(Len(path') - 1),
               path'[k] = path'[m]
        PROVE  k = m
    <3>1. /\ p + k - 1 \in 1..n
          /\ p + m - 1 \in 1..n
          /\ {k, m} \subseteq 1..(n + 2 - p)
      BY <1>1, <2>3
    <3>2. path[p + k - 1] = path[p + m - 1]
      BY <1>4, <2>3, <2>6, <3>1
    <3>3. p + k - 1 = p + m - 1
      BY <1>1, <3>1, <3>2 DEF Walk
    <3> QED
      BY <1>1, <3>1, <3>3
  <2> QED
    BY <1>1, <2>1, <2>4, <2>5, <2>6 DEF CycleIsReal, Walk
<1>7. CASE ~\E p \in 1..n : path[p] = next
  <2>1. path' = Append(path, next) /\ pc' = "walk"
    BY <1>2, <1>7
  <2>2. Remaining' = Remaining
    BY <1>1 DEF Remaining, Emitted
  <2>3. \A p \in 1..(n + 1) : path'[p] \in Remaining
    BY <1>1, <1>3, <1>4, <2>1 DEF Walk
  <2>4. \A p, q \in 1..(n + 1) : path'[p] = path'[q] => p = q
    BY <1>1, <1>4, <1>7, <2>1 DEF Walk
  <2> QED
    BY <1>1, <1>4, <1>5, <2>1, <2>2, <2>3, <2>4 DEF CycleIsReal, Walk
<1> QED
  BY <1>6, <1>7

\* Every step of Sort preserves the invariant of the walk.
LEMMA NextJInv == JInv /\ [Next]_vars => JInv'
<1> SUFFICES ASSUME JInv, [Next]_vars PROVE JInv'
  OBVIOUS
<1>1. IInv' /\ Progress'
  BY NextIInv, ProgressStep DEF JInv
<1>2. Walk' /\ CycleIsReal'
  <2>1. CASE StartCyclePath
    BY <2>1, StartWalk DEF JInv
  <2>2. CASE FollowHop
    BY <2>2, HopWalk DEF JInv
  <2>3. CASE AddEdges \/ SeedReady \/ PopReady \/ ReturnOrder
    BY <2>3 DEF AddEdges, SeedReady, PopReady, ReturnOrder, Walk, CycleIsReal
  <2>4. CASE UNCHANGED vars
    BY <2>4 DEF JInv, vars, Walk, CycleIsReal, Remaining, Emitted
  <2> QED
    BY <2>1, <2>2, <2>3, <2>4 DEF Next, Returned
<1> QED
  BY <1>1, <1>2 DEF JInv

\* The invariant of the walk holds throughout every run of Sort.
THEOREM WalkInductive == Spec => []JInv
<1>1. Init => JInv
  <2> SUFFICES ASSUME Init PROVE Progress /\ Walk /\ CycleIsReal
    BY InitIInv DEF JInv
  <2>1. Emitted = {} /\ Len(order) = 0
    BY DEF Init, Emitted, EmittedIn
  <2> QED
    BY <2>1, FS_EmptySet DEF Init, Progress, Walk, CycleIsReal
<1> QED
  BY <1>1, NextJInv, PTL DEF Spec

\* A CycleError names a closed chain of dependencies, whatever the graph.
THEOREM CycleCorrect == Spec => []CycleIsReal
<1>1. JInv => CycleIsReal
  BY DEF JInv
<1> QED
  BY <1>1, WalkInductive, PTL

-----------------------------------------------------------------------------
(* Refinement of DependencyOrder *)

\* What the abstract specification sees of Sort.
Outcome == CASE pc \in {"edges", "pop"} -> "running"
             [] pc = "sorted" -> "sorted"
             [] OTHER -> "cycle"

\* The abstract specification reads the graph the way Sort's module does.
LEMMA SameReading ==
    /\ Promised!Node = Node
    /\ \A s : Promised!EmittedIn(s) = EmittedIn(s)
    /\ \A s : Promised!CanFollow(g, s) = CanFollow(g, s)
    /\ \A i, S : Promised!IsLeast(g, i, S) <=> IsLeast(g, i, S)
<1>1. Promised!Node = Node
  BY DEF Node, Promised!Node
<1>2. \A s : Promised!EmittedIn(s) = EmittedIn(s)
  BY DEF EmittedIn, Promised!EmittedIn
<1>3. \A j : Promised!WinsName(g, j) <=> WinsName(g, j)
  BY <1>1 DEF WinsName, Promised!WinsName
<1>4. \A i : Promised!Targets(g, i) = Targets(g, i)
  BY <1>1, <1>3 DEF Targets, Promised!Targets
<1>5. \A s : Promised!CanFollow(g, s) = CanFollow(g, s)
  BY <1>1, <1>2, <1>4 DEF CanFollow, Promised!CanFollow
<1>6. \A i, S : Promised!IsLeast(g, i, S) <=> IsLeast(g, i, S)
  BY DEF IsLeast, Promised!IsLeast, Less, Promised!Less
<1> QED
  BY <1>1, <1>2, <1>5, <1>6

\* A step of Sort is a step of DependencyOrder or leaves its variables as
\* they are: popping the heap emits the first node that can follow, an empty
\* heap means that all nodes are emitted or that none can follow.
LEMMA StepKeepsPromise == JInv /\ [Next]_vars => [Promised!Step]_(Promised!dvars)
<1> SUFFICES ASSUME JInv, [Next]_vars, ~UNCHANGED <<g, order, Outcome>>
             PROVE  Promised!Step
  BY DEF Promised!dvars, Outcome
<1> USE DEF JInv, IInv
<1>1. CASE PopReady
  <2>1. PICK i \in ready : FirstReady(i) /\ order' = Append(order, i)
    BY <1>1 DEF PopReady
  <2>2. ready = CanFollow(g, order) /\ pc = "pop" /\ pc' = "pop" /\ g' = g
    BY <1>1 DEF PopReady, ReadyIsExact
  <2>3. Promised!Emit
    BY <2>1, <2>2, SameReading DEF Promised!Emit, FirstReady
  <2> QED
    BY <2>3 DEF Promised!Step
<1>2. CASE ReturnOrder
  <2>1. Len(order) >= N /\ pc = "pop" /\ pc' = "sorted" /\ UNCHANGED <<g, order>>
    BY <1>2 DEF ReturnOrder
  <2>2. Cardinality(Emitted) <= N
    BY EmittedAreNodes, NodeIsFinite, FS_Subset
  <2>3. Emitted = Node
    BY <2>1, <2>2, EmittedAreNodes, SizeAssumption DEF Progress
  <2>4. Promised!Complete
    BY <2>1, <2>3, SameReading DEF Promised!Complete, Emitted
  <2> QED
    BY <2>4 DEF Promised!Step
<1>3. CASE StartCyclePath
  <2>1. Len(order) < N /\ ready = {} /\ pc = "pop" /\ pc' = "walk" /\ UNCHANGED <<g, order>>
    BY <1>3 DEF StartCyclePath
  <2>2. Emitted # Node
    BY <2>1, EmittedAreNodes, NodeIsFinite, SizeAssumption DEF Progress
  <2>3. CanFollow(g, order) = {}
    BY <2>1 DEF ReadyIsExact
  <2>4. Promised!Reject
    BY <2>1, <2>2, <2>3, SameReading DEF Promised!Reject, Emitted
  <2> QED
    BY <2>4 DEF Promised!Step
<1>4. CASE AddEdges \/ SeedReady \/ FollowHop \/ UNCHANGED vars
  BY <1>4 DEF AddEdges, SeedReady, FollowHop, vars, Outcome
<1> QED
  BY <1>1, <1>2, <1>3, <1>4 DEF Next, Returned

\* Sort implements DependencyOrder for every schema: it makes the same choices
\* and gives the same verdict as the specification without counters.
THEOREM PromiseKept == Spec => KeepsPromise
<1>1. Init => Promised!Start
  BY DEF Init, Promised!Start
<1> QED
  BY <1>1, StepKeepsPromise, WalkInductive, PTL DEF Spec, KeepsPromise, Promised!Promise

=============================================================================
