------------------------------ MODULE Commands ------------------------------
(***************************************************************************)
(* The commands of cmd/sqldefkit around internal/bundle, one after the     *)
(* other on the same schema tree: check, bundle, which may leave its       *)
(* output in the tree, and graph with the payload of                       *)
(* internal/graphexport, a second walk over the references beside the one  *)
(* that resolves them for SCCs and Sort.                                   *)
(***************************************************************************)
EXTENDS Bundle

CONSTANT Destinations   \* [flag, config]: what -o and the config's out say

\* A destination is "" for none, a file outside the tree or one inside it.
Path == {"", "outside", "inside"}

ASSUME DestinationsAssumption == Destinations \subseteq [flag : Path, config : Path]

VARIABLES
    disk,       \* Path -> the command whose output the file holds, or "old"
    graph       \* the payload of the graph command, [nodes, edges]

allVars == <<vars, disk, graph>>

NoGraph == [nodes |-> {}, edges |-> {}]

CommandsInit ==
    /\ Init
    /\ disk = [p \in Path |-> "old"]
    /\ graph = NoGraph

\* resolveOut: the flag, else the config, else standard output.
BundleTo(d) == IF d.flag # "" THEN d.flag ELSE d.config

\* graph takes no output path from the config.
GraphTo(d) == d.flag

\* Standard output is no file.
Write(path, command) ==
    disk' = IF path = "" THEN disk ELSE [disk EXCEPT ![path] = command]

BundleSucceeds == mode = "build" /\ pc # "end" /\ pc' = "end" /\ verdict'["build"] = "ok"

\* runCheck and runBundle: the output is written when there is one.
BundleStep ==
    /\ mode # "graph" /\ Next
    /\ IF BundleSucceeds THEN \E d \in Destinations : Write(BundleTo(d), "build") ELSE UNCHANGED disk
    /\ UNCHANGED graph

-----------------------------------------------------------------------------
(* graph *)

\* The bundle as a file of the tree, the last of it by its path.
BundleFile == [status |-> "ok", stmts |-> [p \in DOMAIN output |-> output[p].src]]

\* bundle has ended; graph is run on the tree as it is now.
RunGraph ==
    /\ pc = "end" /\ mode = "build"
    /\ input' = IF disk["inside"] = "build"
                THEN [input EXCEPT !.files = Append(@, BundleFile)] ELSE input
    /\ StartOver("graph")
    /\ UNCHANGED <<disk, graph>>

\* Loading goes as for the other commands, whatever the diagnostics, and the
\* components come from the same SCCs as breakFKCycles has them from.
GraphLoadStep ==
    /\ mode = "graph"
    /\ ReadFails \/ LexFails \/ LoadFile \/ FinishLoad \/ PassGate \/ ResolveEdges \/ FindCycles
    /\ UNCHANGED <<disk, graph>>

\* The statements of a component are in a cycle.
InSomeCycle(i) == i \in UNION comps

Defined == {d.name : d \in defs}

\* classifyRefs.  A statement's own name is not drawn, so the kind "alter"
\* never shows; an index or a trigger has one name after ON.
EdgeKind(st, ref) ==
    CASE ref.kind = "scan" -> "view"
      [] ref.kind = "directive" -> "directive"
      [] st.src.kind = "alter" /\ ref.name = st.src.name -> "alter"
      [] st.src.kind = "index" -> "on"
      [] OTHER -> "fk"

\* Slip: a view's sources are drawn whether they are defined or not.
DrawnAnyway(st) ==
    {r \in DepRefs(st.src) : st.src.name # NoName /\ r.name # st.src.name}

\* The references of a statement that become edges.
Drawn(st) ==
    {r \in DepRefs(st.src) :
        /\ st.src.name # NoName /\ r.name # st.src.name
        /\ r.kind = "scan" => r.name \in Defined}

\* Slip: an edge that leaves a cycle is marked with the cycle.
EdgeInCycleByStart(from, to) == \E i \in DOMAIN stmts : stmts[i].src.name = from /\ InSomeCycle(i)

\* buildSCCEdgeSet: some statement that defines `from' and depends on the
\* name `to' is in one component with the statement the name resolves to.
EdgeInCycle(from, to) ==
    \E C \in comps : \E i \in C :
        /\ stmts[i].src.name = from /\ to \in stmts[i].deps
        /\ ResolvesIn(C, i, to) # {}

\* graphexport.Build.
Payload ==
    LET arrows == UNION {{[from |-> stmts[i].src.name, to |-> r.name, kind |-> EdgeKind(stmts[i], r)] :
                             r \in Drawn(stmts[i])} : i \in DOMAIN stmts}
        ids == Defined \cup {a.to : a \in arrows}
    IN  [nodes |-> {[id |-> n, external |-> n \notin Defined,
                     inCycle |-> \E i \in DOMAIN stmts : stmts[i].src.name = n /\ InSomeCycle(i)] :
                        n \in ids},
         edges |-> {[from |-> a.from, to |-> a.to, kind |-> a.kind,
                     inCycle |-> EdgeInCycle(a.from, a.to)] : a \in arrows}]

\* runGraph once the tree is loaded: a format it does not know is an error
\* only then; diagnostics and cycles are none.
ExportGraph ==
    /\ mode = "graph" /\ pc = "break"
    /\ \/ \E d \in Destinations : Write(GraphTo(d), "graph") /\ graph' = Payload /\ Conclude("ok")
       \/ Conclude("usage") /\ UNCHANGED <<disk, graph>>
    /\ UNCHANGED work

CommandsEnded == pc = "end" /\ mode = "graph" /\ UNCHANGED allVars

CommandsNext == BundleStep \/ RunGraph \/ GraphLoadStep \/ ExportGraph \/ CommandsEnded

CommandsSpec == CommandsInit /\ [][CommandsNext]_allVars

-----------------------------------------------------------------------------
(* Properties *)

Exported == pc = "end" /\ mode = "graph" /\ verdict["graph"] = "ok"

DefinedOnce == \A d, e \in defs : d.name = e.name => d = e

\* The names reached from n over the edges of the payload.
ReachedFrom(n) ==
    LET ids == {v.id : v \in graph.nodes}
        closed == {S \in SUBSET ids : \A e \in graph.edges : e.from \in S \cup {n} => e.to \in S}
    IN  {m \in ids : \A S \in closed : m \in S}

\* README, "Visualizing the dependency graph": when no name is defined twice,
\* a node or edge of the payload is flagged exactly if it lies on a cycle of
\* the payload's own edges.
FlagsAreCycles ==
    Exported /\ DefinedOnce =>
        /\ \A v \in graph.nodes : v.inCycle <=> v.id \in ReachedFrom(v.id)
        /\ \A e \in graph.edges : e.inCycle <=> e.from \in ReachedFrom(e.to)

\* The external nodes of the payload are the names check warns about, those
\* that only statements without a name refer to excepted: the two walks over
\* the references agree on what is unknown.
ExternalsAreTheUnknowns ==
    Exported =>
        {v.id : v \in {w \in graph.nodes : w.external}} =
            {d.name : d \in {w \in diags : w.what = "unknown" /\
                                \E i \in DOMAIN stmts : stmts[i].at = w.at /\ stmts[i].src.name # NoName}}

\* A bundle that was written into the tree it was made from is noticed by the
\* next command that loads the tree, unless it defines no name at all.
BundleInTreeIsReported ==
    Exported /\ Len(input.files) > 0 /\ disk["inside"] = "build" /\ Defined # {} =>
        \E d \in diags : d.what = "duplicate" /\ d.at[1] = Len(input.files)
=============================================================================
