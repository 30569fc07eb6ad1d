-------------------------- MODULE CycleFlagProofs ---------------------------
(***************************************************************************)
(* Proofs that the graph command flags exactly the cycles of the graph it  *)
(* draws, for any schema tree: the flags come from the components of the   *)
(* statements, the drawn edges from a second walk over the references.     *)
(***************************************************************************)
EXTENDS CommandProofs

-----------------------------------------------------------------------------
(* Two graphs, one over positions and one over names *)

\* What the edges of a drawing reach from x.
Reached(ids, edges, x) ==
    {m \in ids : \A S \in {T \in SUBSET ids : \A e \in edges : e.from \in T \cup {x} => e.to \in T} : m \in S}

LEMMA ReachedIsClosed ==
    ASSUME NEW ids, NEW edges, NEW x, \A e \in edges : e.to \in ids,
           NEW e \in edges, e.from = x \/ e.from \in Reached(ids, edges, x)
    PROVE  e.to \in Reached(ids, edges, x)
BY DEF Reached

LEMMA ReachedIsLeast ==
    ASSUME NEW ids, NEW edges, NEW x, NEW S \in SUBSET ids,
           \A e \in edges : e.from \in S \cup {x} => e.to \in S
    PROVE  Reached(ids, edges, x) \subseteq S
BY DEF Reached

\* The drawing of a graph a over 1..n, each of whose named nodes has a name of
\* its own, by these names; a name without a node is the end of edges only.
Draws(n, a, name, named, ids, edges) ==
    /\ named \subseteq ids
    /\ \A x \in named : \E i \in 1..n : name[i] = x
    /\ \A i, j \in 1..n : name[i] \in named /\ name[i] = name[j] => i = j
    /\ \A i \in 1..n : \A j \in a[i] : name[j] \in named
    /\ \A i \in 1..n : name[i] \in named => \A j \in a[i] : \E e \in edges : e.from = name[i] /\ e.to = name[j]
    /\ \A e \in edges : e.from \in named /\ e.to \in ids
    /\ \A e \in edges : \A i, j \in 1..n :
          e.from = name[i] /\ e.to = name[j] /\ e.to \in named => j \in a[i]

\* Drawn paths are paths of the graph, and the other way round.
LEMMA PathsAreDrawn ==
    ASSUME NEW n \in Nat, NEW a \in [1..n -> SUBSET (1..n)], NEW name, NEW named, NEW ids, NEW edges,
           Draws(n, a, name, named, ids, edges),
           NEW i \in 1..n, NEW j \in 1..n, name[i] \in named, name[j] \in named
    PROVE  name[j] \in Reached(ids, edges, name[i]) <=> j \in Graph(n)!Reachable(a, i)
<1>1. PICK R : R = Graph(n)!Reachable(a, i)
  OBVIOUS
<1>2. R \subseteq 1..n /\ a[i] \subseteq R /\ \A w \in R : a[w] \subseteq R
  BY <1>1, ReachableIsClosed
<1>3. ASSUME name[j] \in Reached(ids, edges, name[i]) PROVE j \in R
  <2>1. PICK S : S = {x \in ids : x \in named => \E k \in R : name[k] = x}
    OBVIOUS
  <2>2. ASSUME NEW e \in edges, e.from \in S \cup {name[i]} PROVE e.to \in S
    <3>1. PICK k \in 1..n : name[k] = e.from /\ k \in R \cup {i}
      BY <1>2, <2>1, <2>2 DEF Draws
    <3>2. ASSUME e.to \in named PROVE \E h \in R : name[h] = e.to
      <4>1. PICK h \in 1..n : name[h] = e.to
        BY <3>2 DEF Draws
      <4>2. h \in a[k]
        BY <3>1, <3>2, <4>1 DEF Draws
      <4> QED
        BY <1>2, <3>1, <4>1, <4>2
    <3> QED
      BY <2>1, <3>2 DEF Draws
  <2>3. name[j] \in S
    BY <1>3, <2>1, <2>2, ReachedIsLeast
  <2>4. PICK k \in R : name[k] = name[j]
    BY <2>1, <2>3
  <2>5. k = j
    BY <1>2, <2>4 DEF Draws
  <2> QED
    BY <2>5
<1>4. ASSUME j \in R PROVE name[j] \in Reached(ids, edges, name[i])
  <2>1. PICK T : T = {k \in 1..n : name[k] \in named /\ name[k] \in Reached(ids, edges, name[i])}
    OBVIOUS
  <2>2. ASSUME NEW k \in 1..n, k = i \/ k \in T PROVE a[k] \subseteq T
    <3> SUFFICES ASSUME NEW h \in a[k] PROVE h \in T
      OBVIOUS
    <3>1. h \in 1..n /\ name[h] \in named /\ name[k] \in named
      BY <2>1, <2>2 DEF Draws
    <3>2. PICK e \in edges : e.from = name[k] /\ e.to = name[h]
      BY <3>1 DEF Draws
    <3>3. e.to \in Reached(ids, edges, name[i])
      BY <2>1, <2>2, <3>2, ReachedIsClosed DEF Draws
    <3> QED
      BY <2>1, <3>1, <3>2, <3>3
  <2>3. R \subseteq T
    BY <1>1, <2>1, <2>2, ReachableIsLeast
  <2> QED
    BY <1>4, <2>1, <2>3
<1> QED
  BY <1>1, <1>3, <1>4

\* A name without a node reaches nothing.
LEMMA OutsideReachesNothing ==
    ASSUME NEW n \in Nat, NEW a \in [1..n -> SUBSET (1..n)], NEW name, NEW named, NEW ids, NEW edges,
           Draws(n, a, name, named, ids, edges), NEW x, x \notin named
    PROVE  Reached(ids, edges, x) = {}
<1>1. {} \in SUBSET ids /\ \A e \in edges : e.from \in {} \cup {x} => e.to \in {}
  BY DEF Draws
<1>2. Reached(ids, edges, x) \subseteq {}
  BY <1>1, ReachedIsLeast
<1> QED
  BY <1>2

-----------------------------------------------------------------------------
(* The components of the graph command *)

\* Every cycle of the statements is among the components, and the edges are
\* still those the components were found with.
AllCyclesFound ==
    mode = "graph" /\ (pc = "break" \/ Exported) =>
        /\ nodes = SourceNodes
        /\ comps = {SourceCycle(i) : i \in {j \in Sources : InCycle(j)}}

LEMMA FindCyclesFinds ==
    ASSUME StmtsInv, FindCycles, mode = "graph"
    PROVE  AllCyclesFound'
<1>1. /\ UNCHANGED <<input, mode, nextFile, stmts, nodes, adj>> /\ pc = "components"
  BY DEF FindCycles
<1>2. LoadedPlaces' = LoadedPlaces
  BY <1>1 DEF LoadedPlaces
<1>3. Positions /\ Sources' = Sources /\ SourcePlaces' = SourcePlaces
  BY <1>1, <1>2, SameStmts DEF StmtsInv
<1>4. nodes = SourceNodes /\ adj = SourceAdj /\ \A i \in DOMAIN stmts : AsLoaded(i)
  BY <1>1 DEF StmtsInv, CyclesAreTheirs, LoadedAsTheyAre, Untouched
<1>5. /\ \A i \in Sources : SourceCycle(i)' = SourceCycle(i) /\ (InCycle(i)' <=> InCycle(i))
      /\ SourceNodes' = SourceNodes
  BY <1>1, <1>3, SameSources
<1>6. Sources = DOMAIN stmts /\ Len(stmts) \in Nat /\ DOMAIN stmts = 1..Len(stmts)
  BY <1>3, <1>4, StmtShapes DEF Sources, AsLoaded, Loaded
<1>7. Len(stmts) = Cardinality(SourcePlaces)
  BY <1>3, <1>6, SourcesAreCounted
<1>8. comps' = {SourceCycle(i) : i \in {j \in Sources : SourceCycle(j) # {j}}}
  BY <1>3, <1>4, <1>6, <1>7, SourceGraph DEF FindCycles
<1>9. \A i \in Sources : InCycle(i) <=> SourceCycle(i) # {i}
  BY DEF InCycle
<1>10. comps' = {SourceCycle(i)' : i \in {j \in Sources' : InCycle(j)'}}
  BY <1>3, <1>5, <1>8, <1>9
<1> QED
  BY <1>1, <1>4, <1>5, <1>10 DEF AllCyclesFound

\* Nothing that the components depend on changes.
LEMMA CyclesStayFound ==
    ASSUME Positions, AllCyclesFound, mode = "graph", pc = "break" \/ Exported,
           UNCHANGED <<input, nextFile, stmts, nodes, comps>>
    PROVE  AllCyclesFound'
<1>1. Sources' = Sources /\ SourcePlaces' = SourcePlaces
  BY DEF Sources, SourcePlaces
<1>2. /\ \A i \in Sources : SourceCycle(i)' = SourceCycle(i) /\ (InCycle(i)' <=> InCycle(i))
      /\ SourceNodes' = SourceNodes
  BY <1>1, SameSources
<1>3. {SourceCycle(i)' : i \in {j \in Sources' : InCycle(j)'}} = {SourceCycle(i) : i \in {j \in Sources : InCycle(j)}}
  BY <1>1, <1>2
<1> QED
  BY <1>2, <1>3 DEF AllCyclesFound

LEMMA AllCyclesFoundNext ==
    ASSUME CommandsInv, AllCyclesFound, [CommandsNext]_allVars
    PROVE  AllCyclesFound'
<1>1. StmtsInv /\ Positions
  BY DEF CommandsInv, StateInv, StmtsInv
<1>2. CASE BundleStep
  <2>1. mode' # "graph"
    BY <1>2, ModesFollow DEF BundleStep
  <2> QED
    BY <2>1 DEF AllCyclesFound
<1>3. CASE RunGraph
  <2>1. pc' = "load"
    BY <1>3 DEF RunGraph, StartOver
  <2> QED
    BY <2>1 DEF AllCyclesFound, Exported
<1>4. CASE GraphLoadStep
  <2>1. mode = "graph" /\ (ReadFails \/ LexFails \/ LoadFile \/ FinishLoad \/ PassGate \/ ResolveEdges \/ FindCycles)
    BY <1>4 DEF GraphLoadStep
  <2>2. CASE FindCycles
    BY <1>1, <2>1, <2>2, FindCyclesFinds
  <2>3. CASE ReadFails
    <3>1. pc' = "end" /\ verdict' = [verdict EXCEPT !["graph"] = "io"] /\ verdict \in [Mode -> Verdict]
      BY <2>1, <2>3 DEF ReadFails, Conclude, CommandsInv, StateInv, LoadInv, LoadTypes
    <3>2. verdict'["graph"] = "io"
      BY <3>1 DEF Mode
    <3> QED
      BY <3>1, <3>2 DEF AllCyclesFound, Exported
  <2>4. CASE LexFails \/ LoadFile \/ FinishLoad \/ PassGate \/ ResolveEdges
    <3>1. pc' \in {"load", "gate", "cycles", "components"}
      BY <2>4 DEF LexFails, LoadFile, FinishLoad, PassGate, ResolveEdges
    <3> QED
      BY <3>1 DEF AllCyclesFound, Exported
  <2> QED
    BY <2>1, <2>2, <2>3, <2>4
<1>5. CASE ExportGraph
  <2>1. mode = "graph" /\ pc = "break" /\ UNCHANGED work /\ UNCHANGED input
    BY <1>5 DEF ExportGraph, Conclude
  <2> QED
    BY <1>1, <2>1, CyclesStayFound DEF work
<1>6. CASE CommandsEnded \/ UNCHANGED allVars
  <2>1. UNCHANGED <<mode, pc, verdict>> /\ UNCHANGED <<input, nextFile, stmts, nodes, comps>>
    BY <1>6 DEF CommandsEnded, allVars, vars, work
  <2>2. Exported' <=> Exported
    BY <2>1 DEF Exported
  <2>3. CASE mode = "graph" /\ (pc = "break" \/ Exported)
    BY <1>1, <2>1, <2>3, CyclesStayFound
  <2>4. CASE ~(mode = "graph" /\ (pc = "break" \/ Exported))
    BY <2>1, <2>2, <2>4 DEF AllCyclesFound
  <2> QED
    BY <2>3, <2>4
<1> QED
  BY <1>2, <1>3, <1>4, <1>5, <1>6 DEF CommandsNext

LEMMA AlwaysAllCyclesFound == CommandsSpec => [](CommandsInv /\ AllCyclesFound)
<1>1. CommandsInit => CommandsInv /\ AllCyclesFound
  BY CommandsInvInit DEF CommandsInit, Init, AllCyclesFound
<1>2. CommandsInv /\ AllCyclesFound /\ [CommandsNext]_allVars => (CommandsInv /\ AllCyclesFound)'
  BY CommandsInvNext, AllCyclesFoundNext
<1> QED
  BY <1>1, <1>2, PTL DEF CommandsSpec

-----------------------------------------------------------------------------
(* The payload draws the graph of the statements *)

\* Where the graph command ends well.
Drawing ==
    /\ LoadInv /\ Positions /\ Complete /\ graph = Payload /\ nodes = SourceNodes
    /\ \A i \in DOMAIN stmts : AsLoaded(i)
    /\ comps = {SourceCycle(i) : i \in {j \in Sources : InCycle(j)}}

LEMMA ExportedDraws ==
    ASSUME CommandsInv, AllCyclesFound, Exported
    PROVE  Drawing
BY DEF CommandsInv, StateInv, StmtsInv, DiskInv, LoadedAsTheyAre, Untouched, Exported, AllCyclesFound, Drawing

\* Its statements are those of the files.
LEMMA DrawnStatements ==
    ASSUME Drawing
    PROVE  /\ DOMAIN stmts = Sources
           /\ \A i \in DOMAIN stmts :
                 /\ stmts[i].at \in LoadedPlaces /\ stmts[i].src = Original(i) /\ stmts[i].deps = Deps(Original(i))
                 /\ Original(i) \in Statement
           /\ \A x : x \in Defined <=> x # NoName /\ \E i \in DOMAIN stmts : Original(i).name = x
           /\ Defined \subseteq Name
<1>1. DOMAIN stmts = Sources
  BY DEF Drawing, Sources, AsLoaded, Loaded
<1>2. \A i \in DOMAIN stmts : /\ stmts[i].at \in LoadedPlaces /\ stmts[i].src = Original(i)
                              /\ stmts[i].deps = Deps(Original(i))
  BY <1>1 DEF Drawing, Positions, AsLoaded, Loaded
<1>3. \A i \in DOMAIN stmts : Original(i) \in Statement
  BY <1>2, SourcesAreStatements DEF Drawing, LoadInv, Original
<1>4. \A x : x \in Defined <=> \E a \in Named : SourceStatement(a).name = x
  <2> DEFINE Def(a) == [name |-> SourceStatement(a).name, at |-> a]
  <2>1. \A d : d \in defs <=> \E a \in Named : d = Def(a)
    BY DEF Drawing, LoadInv, SymbolsAreTheirs
  <2>2. \A a : Def(a).name = SourceStatement(a).name
    OBVIOUS
  <2> HIDE DEF Def
  <2> QED
    BY <2>1, <2>2 DEF Defined
<1>5. \A a \in LoadedPlaces : \E i \in DOMAIN stmts : stmts[i].at = a
  BY <1>1 DEF Drawing, Positions
<1>6. \A x : x \in Defined <=> x # NoName /\ \E i \in DOMAIN stmts : Original(i).name = x
  <2>1. \A a : a \in Named <=> a \in LoadedPlaces /\ SourceStatement(a).name # NoName
    BY DEF Named
  <2>2. \A i \in DOMAIN stmts : Original(i) = SourceStatement(stmts[i].at)
    BY DEF Original
  <2> QED
    BY <1>2, <1>4, <1>5, <2>1, <2>2
<1>7. Defined \subseteq Name
  BY <1>3, <1>6 DEF Statement
<1> QED
  BY <1>1, <1>2, <1>3, <1>6, <1>7

\* When no name is defined twice, a name is that of one statement.
LEMMA DrawnOnce ==
    ASSUME Drawing, DefinedOnce, NEW i \in DOMAIN stmts, NEW j \in DOMAIN stmts,
           Original(i).name \in Defined, Original(j).name = Original(i).name
    PROVE  i = j
<1>1. /\ i \in Sources /\ j \in Sources /\ Original(i).name # NoName
      /\ stmts[i].at \in LoadedPlaces /\ stmts[j].at \in LoadedPlaces
  BY DrawnStatements
<1>2. PICK a, b : a = stmts[i].at /\ b = stmts[j].at
  OBVIOUS
<1>3. a \in Named /\ b \in Named /\ SourceStatement(a).name = SourceStatement(b).name
  BY <1>1, <1>2 DEF Named, Original
<1>4. /\ [name |-> SourceStatement(a).name, at |-> a] \in defs
      /\ [name |-> SourceStatement(b).name, at |-> b] \in defs
  BY <1>3 DEF Drawing, LoadInv, SymbolsAreTheirs
<1>5. a = b
  BY <1>3, <1>4 DEF DefinedOnce
<1> QED
  BY <1>1, <1>2, <1>5 DEF Drawing, Positions

\* The nodes and edges of the payload.
Ids == {v.id : v \in graph.nodes}

LEMMA DrawnEdges ==
    ASSUME Drawing
    PROVE  /\ \A e \in graph.edges : \E i \in DOMAIN stmts : \E r \in Drawn(stmts[i]) :
                 e.from = stmts[i].src.name /\ e.to = r.name /\ e.inCycle = EdgeInCycle(e.from, e.to)
           /\ \A i \in DOMAIN stmts : \A r \in Drawn(stmts[i]) : \E e \in graph.edges :
                 e.from = stmts[i].src.name /\ e.to = r.name
           /\ \A x : x \in Ids <=> x \in Defined \/ \E e \in graph.edges : e.to = x
           /\ \A v \in graph.nodes :
                 v.inCycle = (\E i \in DOMAIN stmts : stmts[i].src.name = v.id /\ InSomeCycle(i))
<1> DEFINE Arrow(i, r) == [from |-> stmts[i].src.name, to |-> r.name, kind |-> EdgeKind(stmts[i], r)]
<1> DEFINE Edge(a) == [from |-> a.from, to |-> a.to, kind |-> a.kind, inCycle |-> EdgeInCycle(a.from, a.to)]
<1> DEFINE Cyclic(x) == \E i \in DOMAIN stmts : stmts[i].src.name = x /\ InSomeCycle(i)
<1> DEFINE Vertex(x) == [id |-> x, external |-> x \notin Defined, inCycle |-> Cyclic(x)]
<1>1. PICK arrows : arrows = UNION {{Arrow(i, r) : r \in Drawn(stmts[i])} : i \in DOMAIN stmts}
  OBVIOUS
<1>2. PICK ids : ids = Defined \cup {a.to : a \in arrows}
  OBVIOUS
<1>3. graph.nodes = {Vertex(x) : x \in ids} /\ graph.edges = {Edge(a) : a \in arrows}
  BY <1>1, <1>2 DEF Drawing, Payload
<1>4. \A a : a \in arrows <=> \E i \in DOMAIN stmts : \E r \in Drawn(stmts[i]) : a = Arrow(i, r)
  BY <1>1
<1>5. \A i, r : Arrow(i, r).from = stmts[i].src.name /\ Arrow(i, r).to = r.name
  OBVIOUS
<1>6. \A a : /\ Edge(a).from = a.from /\ Edge(a).to = a.to
             /\ Edge(a).inCycle = EdgeInCycle(Edge(a).from, Edge(a).to)
  OBVIOUS
<1>7. \A x : Vertex(x).id = x /\ Vertex(x).inCycle = Cyclic(Vertex(x).id)
  OBVIOUS
<1> HIDE DEF Arrow, Edge, Vertex, Cyclic
<1>8. PICK drawn, lines : drawn = graph.nodes /\ lines = graph.edges
  OBVIOUS
<1>9. \A e \in lines : \E i \in DOMAIN stmts : \E r \in Drawn(stmts[i]) :
         e.from = stmts[i].src.name /\ e.to = r.name /\ e.inCycle = EdgeInCycle(e.from, e.to)
  BY <1>3, <1>4, <1>5, <1>6, <1>8
<1>10. \A i \in DOMAIN stmts : \A r \in Drawn(stmts[i]) : \E e \in lines :
          e.from = stmts[i].src.name /\ e.to = r.name
  BY <1>3, <1>4, <1>5, <1>6, <1>8
<1>11. {v.id : v \in drawn} = ids
  BY <1>3, <1>7, <1>8
<1>12. \A x : x \in ids <=> x \in Defined \/ \E e \in lines : e.to = x
  BY <1>2, <1>3, <1>6, <1>8
<1>13. \A v \in drawn : v.inCycle = Cyclic(v.id)
  BY <1>3, <1>7, <1>8
<1> QED
  BY <1>8, <1>9, <1>10, <1>11, <1>12, <1>13 DEF Ids, Cyclic

LEMMA PayloadDraws ==
    ASSUME Drawing, DefinedOnce, NEW n, n = Cardinality(SourcePlaces)
    PROVE  /\ Draws(n, SourceAdj, SourceNodes.name, Defined, Ids, graph.edges)
           /\ \A i, j \in 1..n :
                 j \in SourceAdj[i] <=> j # i /\ SourceNodes.name[j] \in Deps(Original(i))
<1> DEFINE name == SourceNodes.name
<1> DEFINE a == SourceAdj
<1>1. /\ n \in Nat /\ Sources = 1..n /\ a \in [1..n -> SUBSET (1..n)]
      /\ \A i \in 1..n : i \notin a[i]
      /\ \A i \in 1..n : name[i] = Original(i).name
  BY SourceGraph DEF Drawing
<1>2. /\ DOMAIN stmts = 1..n
      /\ \A i \in 1..n : stmts[i].src.name = name[i] /\ stmts[i].src = Original(i) /\ Original(i) \in Statement
      /\ \A x : x \in Defined <=> x # NoName /\ \E i \in 1..n : name[i] = x
  BY <1>1, DrawnStatements
<1>3. \A i, j \in 1..n : name[i] \in Defined /\ name[i] = name[j] => i = j
  BY <1>1, <1>2, DrawnOnce
<1>4. \A i, j \in 1..n : j \in a[i] <=> j # i /\ name[j] \in Deps(Original(i))
  <2> SUFFICES ASSUME NEW i \in 1..n, NEW j \in 1..n, j # i, name[j] \in Deps(Original(i))
               PROVE  j \in a[i]
    BY SourceGraph DEF Drawing
  <2>1. name[j] \in Name /\ name[j] # NoName
    BY <1>2, NamesOf, NamesAssumption
  <2>2. name[j] \in Defined
    BY <1>2, <2>1
  <2>3. Graph(n)!WinsName(SourceNodes, j)
    BY <1>3, <2>2 DEF Graph!WinsName, Graph!Node
  <2>4. SourceStmts = [h \in 1..n |-> Loaded(Original(h), stmts[h].at[1], stmts[h].at[2])]
    BY DEF SourceStmts
  <2>5. SourceNodes.deps[i] = Deps(Original(i))
    BY <2>4 DEF SourceNodes, GraphNodes, Loaded
  <2>6. j \in Graph(n)!Targets(SourceNodes, i)
    BY <2>3, <2>5 DEF Graph!Targets, Graph!Node
  <2> QED
    BY <2>6 DEF SourceAdj, Edges
<1>5. \A i \in 1..n : \A j \in a[i] : j \in 1..n /\ name[j] \in Defined
  <2> SUFFICES ASSUME NEW i \in 1..n, NEW j \in a[i] PROVE j \in 1..n /\ name[j] \in Defined
    OBVIOUS
  <2>1. j \in 1..n /\ name[j] \in Deps(Original(i))
    BY <1>1, <1>4
  <2>2. name[j] # NoName
    BY <1>2, <2>1, NamesOf, NamesAssumption
  <2> QED
    BY <1>2, <2>1, <2>2
<1>6. ASSUME NEW i \in 1..n, name[i] \in Defined, NEW j \in a[i]
      PROVE  \E e \in graph.edges : e.from = name[i] /\ e.to = name[j]
  <2>1. j \in 1..n /\ j # i /\ name[j] \in Defined /\ name[j] \in Deps(stmts[i].src)
    BY <1>1, <1>2, <1>4, <1>5
  <2>2. PICK r \in DepRefs(stmts[i].src) : r.name = name[j]
    BY <2>1 DEF Deps
  <2>3. name[j] # name[i] /\ name[i] # NoName
    BY <1>2, <1>3, <1>6, <2>1
  <2>4. r \in Drawn(stmts[i])
    BY <1>2, <2>1, <2>2, <2>3 DEF Drawn
  <2> QED
    BY <1>2, <2>2, <2>4, DrawnEdges
<1>7. ASSUME NEW e \in graph.edges
      PROVE  /\ e.from \in Defined /\ e.to \in Ids
             /\ \A i, j \in 1..n : e.from = name[i] /\ e.to = name[j] /\ e.to \in Defined => j \in a[i]
  <2>1. PICK h \in 1..n : \E r \in Drawn(stmts[h]) : e.from = stmts[h].src.name /\ e.to = r.name
    BY <1>2, DrawnEdges
  <2>2. PICK r \in Drawn(stmts[h]) : e.from = stmts[h].src.name /\ e.to = r.name
    BY <2>1
  <2>3. /\ r \in DepRefs(Original(h)) /\ e.from = name[h] /\ name[h] # NoName
        /\ r.name # name[h] /\ r.name \in Deps(Original(h))
    BY <1>2, <2>2 DEF Drawn, Deps
  <2>4. e.from \in Defined
    BY <1>2, <2>3
  <2>5. e.to \in Ids
    BY DrawnEdges
  <2>6. ASSUME NEW i \in 1..n, NEW j \in 1..n, e.from = name[i], e.to = name[j] PROVE j \in a[i]
    <3>1. i = h
      BY <1>3, <2>3, <2>4, <2>6
    <3> QED
      BY <1>4, <2>2, <2>3, <2>6, <3>1
  <2> QED
    BY <2>4, <2>5, <2>6
<1>8. Defined \subseteq Ids /\ \A x \in Defined : \E i \in 1..n : name[i] = x
  BY <1>2, DrawnEdges
<1> QED
  BY <1>3, <1>4, <1>5, <1>6, <1>7, <1>8 DEF Draws

-----------------------------------------------------------------------------
(* The flags *)

\* A statement is in some component when it is on a cycle.
LEMMA FlaggedAreOnCycles ==
    ASSUME Drawing, NEW n, n = Cardinality(SourcePlaces), NEW i \in 1..n
    PROVE  /\ InSomeCycle(i) <=> i \in Graph(n)!Reachable(SourceAdj, i)
           /\ \A C : C \in comps /\ i \in C <=>
                        C = Graph(n)!CycleMates(SourceAdj, i) /\ i \in Graph(n)!Reachable(SourceAdj, i)
<1>1. /\ n \in Nat /\ Sources = 1..n /\ SourceAdj \in [1..n -> SUBSET (1..n)] /\ i \notin SourceAdj[i]
      /\ \A h : SourceCycle(h) = Graph(n)!CycleMates(SourceAdj, h)
  BY SourceGraph DEF Drawing
<1>2. InCycle(i) <=> i \in Graph(n)!Reachable(SourceAdj, i)
  BY <1>1, MatesMeanACycle DEF InCycle
<1>3. i \in SourceCycle(i)
  BY <1>1 DEF Graph!CycleMates
<1>4. ASSUME NEW C \in comps, i \in C PROVE C = SourceCycle(i) /\ InCycle(i)
  <2>1. PICK h \in Sources : InCycle(h) /\ C = SourceCycle(h)
    BY DEF Drawing
  <2>2. h \in SourceCycle(i) /\ SourceCycle(i) = SourceCycle(h) /\ SourceCycle(h) # {h}
    BY <1>4, <2>1, CyclesAgree DEF Drawing, InCycle
  <2> QED
    BY <1>1, <2>1, <2>2, <1>4 DEF InCycle
<1>5. InCycle(i) => SourceCycle(i) \in comps
  BY <1>1 DEF Drawing
<1> QED
  BY <1>1, <1>2, <1>3, <1>4, <1>5 DEF InSomeCycle

LEMMA FlagsHold == CommandsInv /\ AllCyclesFound => FlagsAreCycles
<1> SUFFICES ASSUME CommandsInv, AllCyclesFound, Exported, DefinedOnce
             PROVE  /\ \A v \in graph.nodes : v.inCycle <=> v.id \in ReachedFrom(v.id)
                    /\ \A e \in graph.edges : e.inCycle <=> e.from \in ReachedFrom(e.to)
  BY DEF FlagsAreCycles
<1> DEFINE name == SourceNodes.name
<1> DEFINE a == SourceAdj
<1>1. Drawing
  BY ExportedDraws
<1>2. PICK n : n = Cardinality(SourcePlaces)
  OBVIOUS
<1>3. /\ n \in Nat /\ Sources = 1..n /\ a \in [1..n -> SUBSET (1..n)]
      /\ \A i \in 1..n : i \notin a[i]
      /\ \A i \in 1..n : name[i] = Original(i).name
      /\ Len(name) = n
  BY <1>1, <1>2, SourceGraph DEF Drawing
<1>4. /\ DOMAIN stmts = 1..n
      /\ \A i \in 1..n : stmts[i].src.name = name[i] /\ stmts[i].src = Original(i)
                         /\ stmts[i].deps = Deps(Original(i))
      /\ \A x : x \in Defined <=> x # NoName /\ \E i \in 1..n : name[i] = x
      /\ Defined \subseteq Name
  BY <1>1, <1>3, DrawnStatements
<1>5. /\ Draws(n, a, name, Defined, Ids, graph.edges)
      /\ \A i, j \in 1..n : j \in a[i] <=> j # i /\ name[j] \in Deps(Original(i))
  BY <1>1, <1>2, PayloadDraws
<1>6. \A x : ReachedFrom(x) = Reached(Ids, graph.edges, x)
  BY DEF ReachedFrom, Reached, Ids
<1>7. \A i, j \in 1..n : name[i] \in Defined /\ name[j] \in Defined =>
          (name[j] \in ReachedFrom(name[i]) <=> j \in Graph(n)!Reachable(a, i))
  BY <1>3, <1>5, <1>6, PathsAreDrawn
<1>8. \A x : x \notin Defined => ReachedFrom(x) = {}
  BY <1>3, <1>5, <1>6, OutsideReachesNothing
<1>9. \A i, j \in 1..n : name[i] \in Defined /\ name[i] = name[j] => i = j
  BY <1>5 DEF Draws
<1>10. \A i \in 1..n : InSomeCycle(i) <=> i \in Graph(n)!Reachable(a, i)
  BY <1>1, <1>2, FlaggedAreOnCycles
<1>11. ASSUME NEW v \in graph.nodes PROVE v.inCycle <=> v.id \in ReachedFrom(v.id)
  <2>1. v.inCycle = (\E i \in DOMAIN stmts : stmts[i].src.name = v.id /\ InSomeCycle(i))
    BY <1>1, DrawnEdges
  <2>2. CASE v.id \in Defined
    <3>1. PICK i \in 1..n : name[i] = v.id
      BY <1>4, <2>2
    <3>2. (\E h \in DOMAIN stmts : stmts[h].src.name = v.id /\ InSomeCycle(h)) <=> InSomeCycle(i)
      BY <1>4, <1>9, <2>2, <3>1
    <3> QED
      BY <1>7, <1>10, <2>1, <2>2, <3>1, <3>2
  <2>3. CASE v.id \notin Defined
    <3>1. v.id \in Ids
      BY DEF Ids
    <3>2. PICK e \in graph.edges : e.to = v.id
      BY <1>1, <2>3, <3>1, DrawnEdges
    <3>3. PICK h \in DOMAIN stmts : \E r \in Drawn(stmts[h]) : r.name = v.id
      BY <1>1, <3>2, DrawnEdges
    <3>4. v.id # NoName
      BY <1>1, <1>4, <3>3, DrawnStatements, NamesOf, NamesAssumption DEF Drawn
    <3>5. ~\E i \in DOMAIN stmts : stmts[i].src.name = v.id /\ InSomeCycle(i)
      BY <1>4, <2>3, <3>4
    <3> QED
      BY <1>8, <2>1, <2>3, <3>5
  <2> QED
    BY <2>2, <2>3
<1>12. ASSUME NEW e \in graph.edges PROVE e.inCycle <=> e.from \in ReachedFrom(e.to)
  <2>1. e.inCycle = EdgeInCycle(e.from, e.to)
    BY <1>1, DrawnEdges
  <2>2. PICK h \in 1..n : \E r \in Drawn(stmts[h]) : e.from = stmts[h].src.name /\ e.to = r.name
    BY <1>1, <1>4, DrawnEdges
  <2>3. e.from = name[h] /\ name[h] \in Defined /\ e.to \in Deps(Original(h))
    BY <1>4, <1>5, <2>2 DEF Drawn, Deps, Draws
  <2>4. \A C, i : ResolvesIn(C, i, e.to) = {j \in C \ {i} : name[j] = e.to /\ Graph(n)!WinsName(SourceNodes, j)}
    BY <1>1, <1>3 DEF ResolvesIn, Drawing
  <2>5. CASE e.to \in Defined
    <3>1. PICK j \in 1..n : name[j] = e.to
      BY <1>4, <2>5
    <3>2. j \in a[h]
      BY <1>5, <2>3, <2>5, <3>1 DEF Draws
    <3>3. h # j /\ j \in Graph(n)!Reachable(a, h)
      BY <1>3, <3>2, ReachableIsClosed
    <3>4. e.from \in ReachedFrom(e.to) <=> h \in Graph(n)!Reachable(a, j)
      BY <1>7, <2>3, <2>5, <3>1
    <3>5. h \in Graph(n)!Reachable(a, j) => h \in Graph(n)!Reachable(a, h)
      BY <1>3, <3>3, ReachableIsTransitive
    <3>6. Graph(n)!WinsName(SourceNodes, j)
      BY <1>9, <2>5, <3>1 DEF Graph!WinsName, Graph!Node
    <3>7. ASSUME h \in Graph(n)!Reachable(a, j) PROVE EdgeInCycle(e.from, e.to)
      <4>1. PICK C : C = Graph(n)!CycleMates(a, h)
        OBVIOUS
      <4>2. C \in comps /\ h \in C
        BY <1>1, <1>2, <3>5, <3>7, <4>1, FlaggedAreOnCycles
      <4>3. j \in C
        BY <3>3, <3>7, <4>1 DEF Graph!CycleMates
      <4>4. j \in ResolvesIn(C, h, e.to)
        BY <2>4, <3>1, <3>3, <3>6, <4>3
      <4> QED
        BY <1>4, <2>3, <4>2, <4>4 DEF EdgeInCycle
    <3>8. ASSUME EdgeInCycle(e.from, e.to) PROVE h \in Graph(n)!Reachable(a, j)
      <4>1. PICK C \in comps : \E i \in C : stmts[i].src.name = e.from /\ ResolvesIn(C, i, e.to) # {}
        BY <3>8 DEF EdgeInCycle
      <4>2. PICK i \in C : stmts[i].src.name = e.from /\ ResolvesIn(C, i, e.to) # {}
        BY <4>1
      <4>3. C \subseteq 1..n
        BY <1>1, <1>3, CyclesAgree DEF Drawing
      <4>4. i = h
        BY <1>4, <1>9, <2>3, <4>2, <4>3
      <4>5. PICK k \in C : k # h /\ name[k] = e.to
        BY <2>4, <4>2, <4>4
      <4>6. k = j
        BY <1>9, <2>5, <3>1, <4>3, <4>5
      <4>7. C = Graph(n)!CycleMates(a, h)
        BY <1>1, <1>2, <4>2, <4>4, FlaggedAreOnCycles
      <4> QED
        BY <3>3, <4>5, <4>6, <4>7 DEF Graph!CycleMates
    <3> QED
      BY <2>1, <3>4, <3>7, <3>8
  <2>6. CASE e.to \notin Defined
    <3>1. e.to \in Name
      BY <1>1, <1>4, <2>3, DrawnStatements, NamesOf
    <3>2. \A j \in 1..n : name[j] # e.to
      BY <1>4, <2>6, <3>1, NamesAssumption
    <3>3. \A C \in comps : C \subseteq 1..n
      BY <1>1, <1>3, CyclesAgree DEF Drawing
    <3>4. ~EdgeInCycle(e.from, e.to)
      BY <2>4, <3>2, <3>3 DEF EdgeInCycle
    <3> QED
      BY <1>8, <2>1, <2>6, <3>4
  <2> QED
    BY <2>5, <2>6
<1> QED
  BY <1>11, <1>12

\* The graph command's flags, for any schema tree in which no name is defined
\* twice: a node or an edge is flagged exactly if it lies on a cycle of the
\* edges drawn.
THEOREM FlagsMarkTheCycles == CommandsSpec => []FlagsAreCycles
<1>1. CommandsInv /\ AllCyclesFound => FlagsAreCycles
  BY FlagsHold
<1> QED
  BY <1>1, AlwaysAllCyclesFound, PTL

=============================================================================
