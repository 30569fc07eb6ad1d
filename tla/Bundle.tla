------------------------------- MODULE Bundle -------------------------------
(***************************************************************************)
(* internal/bundle: Load, CheckDiagnostics and Build.  A schema tree is    *)
(* first checked (sqldefkit check) and then bundled (sqldefkit bundle),    *)
(* with nothing changing on disk in between: both load every file, break   *)
(* foreign-key cycles and sort, but only Build stops at the first error    *)
(* diagnostic and emits.                                                   *)
(*                                                                         *)
(* graph.SCCs and graph.Sort appear here by their contracts: the strongly  *)
(* connected components in key order (GraphSCC!ReturnsTheCycles) and one   *)
(* node at a time, the least that can follow (DependencyOrder, which       *)
(* GraphSort implements).                                                  *)
(***************************************************************************)
EXTENDS Schema, FiniteSets

CONSTANT Inputs     \* schema trees: [dialect, files], files in path order

VARIABLES
    input,      \* the schema tree
    mode,       \* the command: "check", "build" or "graph" (see Commands)
    pc,
    nextFile,   \* Load's loop
    stmts,      \* Loaded.Stmts, then with the synthesized ALTER TABLEs
    defs,       \* Symbols.Definitions: [name, at]
    refs,       \* Symbols.References: [name, kind, at]
    diags,      \* diagnostics: [severity, what, at, name]
    nodes,      \* graphNodes() of stmts, as last computed
    adj,        \* its edges: the positions each statement depends on
    comps,      \* the components still to be broken, as sets of positions
    moves,      \* the clauses extracted from the last one, still to be added
    rewritten,  \* position -> item list after Remove
    order,      \* positions emitted by Sort
    output,     \* the statements Build has emitted
    verdict     \* mode -> how the command ended

work == <<nextFile, stmts, defs, refs, diags, nodes, adj, comps, moves, rewritten, order, output>>
vars == <<input, mode, pc, work, verdict>>

Dialect == {"postgres", "mysql", "sqlite"}
Mode == {"check", "build", "graph"}
Verdict == {"none", "ok", "io", "diagnostic", "cycle", "unsplittable", "usage"}

\* A statement between Load and emit.  at is its (file, index).
Loaded(s, f, i) ==
    [src |-> s, at |-> <<f, i>>, sub |-> 0, synthesized |-> FALSE, deps |-> Deps(s)]

Key(st) == <<st.at[1], st.at[2], st.sub>>
Before(x, y) == \E n \in 1..3 : x[n] < y[n] /\ \A m \in 1..(n - 1) : x[m] = y[m]

\* graphNodes: a synthesized ALTER TABLE never defines its table's name.
GraphNodes(ss) ==
    [name |-> [i \in DOMAIN ss |-> IF ss[i].synthesized THEN NoName ELSE ss[i].src.name],
     deps |-> [i \in DOMAIN ss |-> ss[i].deps],
     key  |-> [i \in DOMAIN ss |-> Key(ss[i])]]

Graph(n) == INSTANCE DepGraph WITH N <- n

\* A schema tree: some files, in path order, each of which can be read and
\* split into statements or not.
Tree ==
    {t \in [dialect : Dialect,
            files : Seq([status : {"ok", "unlexable", "unreadable"}, stmts : Seq(Statement)])] :
        Len(t.files) > 0}

ASSUME InputsAssumption == Inputs \subseteq Tree

TypeOK ==
    /\ input \in Tree
    /\ mode \in Mode
    /\ pc \in {"load", "gate", "cycles", "components", "break", "resort", "sort", "end"}
    /\ nextFile \in 1..(Len(input.files) + 1)
    /\ \A i \in DOMAIN stmts :
          /\ stmts[i].src \in Statement
          /\ stmts[i].deps \subseteq Name
          /\ stmts[i].sub \in Nat
    /\ \A d \in diags : d.severity \in {"error", "warning"}
    /\ DOMAIN rewritten \subseteq DOMAIN stmts
    /\ order \in Seq(DOMAIN stmts)
    /\ verdict \in [Mode -> Verdict]

Fresh ==
    /\ nextFile = 1
    /\ stmts = << >>
    /\ defs = {}
    /\ refs = {}
    /\ diags = {}
    /\ nodes = << >>
    /\ adj = << >>
    /\ comps = {}
    /\ moves = {}
    /\ rewritten = << >>
    /\ order = << >>
    /\ output = << >>

Init ==
    /\ input \in Inputs
    /\ mode = "check"
    /\ pc = "load"
    /\ Fresh
    /\ verdict = [m \in Mode |-> "none"]

\* The command returns.
Conclude(v) ==
    /\ pc' = "end"
    /\ verdict' = [verdict EXCEPT ![mode] = v]
    /\ UNCHANGED <<input, mode>>

-----------------------------------------------------------------------------
(* Load *)

\* A file that cannot be read aborts the command.
ReadFails ==
    /\ pc = "load"
    /\ nextFile <= Len(input.files)
    /\ input.files[nextFile].status = "unreadable"
    /\ Conclude("io")
    /\ UNCHANGED work

\* A file that cannot be split is reported; loading goes on without it.
LexFails ==
    /\ pc = "load"
    /\ nextFile <= Len(input.files)
    /\ input.files[nextFile].status = "unlexable"
    /\ diags' = diags \cup {[severity |-> "error", what |-> "lex",
                             at |-> <<nextFile, 0>>, name |-> NoName]}
    /\ nextFile' = nextFile + 1
    /\ UNCHANGED <<input, mode, pc, stmts, defs, refs, nodes, adj, comps, moves, rewritten, order, output, verdict>>

\* Slip: only the definitions of the same file count.
DefinedBeforeInFile(ss, i) == \E h \in 1..(i - 1) : ss[h].name = ss[i].name

\* The name of statement i of the file has a definition already.
DefinedBefore(ss, i) ==
    \/ \E d \in defs : d.name = ss[i].name
    \/ \E h \in 1..(i - 1) : ss[h].name = ss[i].name

\* Every statement of a file is parsed, indexed and appended; a name that
\* already has a definition, in this file or an earlier one, is an error.
LoadFile ==
    /\ pc = "load"
    /\ nextFile <= Len(input.files)
    /\ input.files[nextFile].status = "ok"
    /\ LET ss == input.files[nextFile].stmts
           named == {i \in DOMAIN ss : ss[i].name # NoName}
       IN  /\ stmts' = stmts \o [i \in DOMAIN ss |-> Loaded(ss[i], nextFile, i)]
           /\ defs' = defs \cup {[name |-> ss[i].name, at |-> <<nextFile, i>>] : i \in named}
           /\ refs' = refs \cup UNION {{[name |-> r.name, kind |-> r.kind, at |-> <<nextFile, i>>] :
                                           r \in DepRefs(ss[i])} : i \in DOMAIN ss}
           /\ diags' = diags \cup {[severity |-> "error", what |-> "duplicate",
                                    at |-> <<nextFile, i>>, name |-> ss[i].name] :
                                       i \in {j \in named : DefinedBefore(ss, j)}}
    /\ nextFile' = nextFile + 1
    /\ UNCHANGED <<input, mode, pc, nodes, adj, comps, moves, rewritten, order, output, verdict>>

\* Slip: a definition in a later file does not resolve a reference.
UnresolvedSoFar ==
    {[severity |-> "warning", what |-> "unknown", at |-> r.at, name |-> r.name] :
        r \in {q \in refs : q.kind # "scan" /\
                  \A d \in defs : d.name # q.name \/ d.at[1] > q.at[1]}}

\* unresolvedReferenceDiagnostics, once every file is loaded.
UnresolvedReferences ==
    {[severity |-> "warning", what |-> "unknown", at |-> r.at, name |-> r.name] :
        r \in {q \in refs : q.kind # "scan" /\ \A d \in defs : d.name # q.name}}

FinishLoad ==
    /\ pc = "load"
    /\ nextFile > Len(input.files)
    /\ diags' = diags \cup UnresolvedReferences
    /\ pc' = "gate"
    /\ UNCHANGED <<input, mode, nextFile, stmts, defs, refs, nodes, adj, comps, moves, rewritten, order, output, verdict>>

HasError == \E d \in diags : d.severity = "error"

\* Slip: check ends well although it has an error to report.
PassesAnyway == "ok"

\* What check and build end with once every statement is placed.
FinalVerdict == IF HasError THEN "diagnostic" ELSE "ok"

\* Build fails on an error diagnostic (firstErrorDiagnostic) ...
StopAtDiagnostic ==
    /\ pc = "gate"
    /\ mode = "build"
    /\ HasError
    /\ Conclude("diagnostic")
    /\ UNCHANGED work

\* ... and CheckDiagnostics goes on to look for cycles all the same.
PassGate ==
    /\ pc = "gate"
    /\ mode # "build" \/ ~HasError
    /\ pc' = "cycles"
    /\ UNCHANGED <<input, mode, work, verdict>>

-----------------------------------------------------------------------------
(* breakFKCycles *)

\* The edges of a graph of n nodes, as SCCs and Sort resolve them.
Edges(g, n) == [i \in 1..n |-> Graph(n)!Targets(g, i)]

\* loaded.graphNodes(), and the edges SCCs builds from it.
ResolveEdges ==
    /\ pc = "cycles"
    /\ nodes' = GraphNodes(stmts)
    /\ adj' = Edges(GraphNodes(stmts), Len(stmts))
    /\ pc' = "components"
    /\ UNCHANGED <<input, mode, nextFile, stmts, defs, refs, diags, comps, moves, rewritten, order, output, verdict>>

\* graph.SCCs: the components with several members.
FindCycles ==
    /\ pc = "components"
    /\ LET mates(i) == Graph(Len(stmts))!CycleMates(adj, i)
       IN  comps' = {mates(i) : i \in {j \in DOMAIN stmts : mates(j) # {j}}}
    /\ pc' = "break"
    /\ UNCHANGED <<input, mode, nextFile, stmts, defs, refs, diags, nodes, adj, moves, rewritten, order, output, verdict>>

\* Components are broken in the order of their least members, which is that
\* of their keys: the statements are in (file, index) order.
IsFirst(C) == \E i \in C : \A j \in UNION comps : i <= j

\* The members of component C, other than i, that name n resolves to.
ResolvesIn(C, i, n) ==
    {j \in C \ {i} : nodes.name[j] = n /\ Graph(Len(nodes.name))!WinsName(nodes, j)}

\* Slip: references that leave the component count as well.
AllForeignKeysAnywhere(C) ==
    \A i \in C : \A r \in DepRefs(stmts[i].src) :
        stmts[i].src.kind = "table" /\ r.kind = "auto"

\* sccAllFKEdges: every reference that closes the cycle comes from the text
\* of a CREATE TABLE.
AllForeignKeys(C) ==
    \A i \in C : \A r \in DepRefs(stmts[i].src) :
        ResolvesIn(C, i, r.name) # {} =>
            stmts[i].src.kind = "table" /\ r.kind = "auto"

\* neededTargets: the tables i must shed its references to.
NeededTargets(C, i) ==
    {n \in AutoNames(stmts[i].src) : ResolvesIn(C, i, n) # {}}

\* Every clause Extract finds whose target is needed, not just enough of
\* them to break the cycle.
ToExtract(C, i) ==
    {k \in Clauses(stmts[i].src) : stmts[i].src.items[k].target \in NeededTargets(C, i)}

\* Extraction succeeds on every member and covers every needed target.
Splittable(C) ==
    \A i \in C :
        /\ Extractable(stmts[i].src)
        /\ \A n \in NeededTargets(C, i) :
              \E k \in ToExtract(C, i) : stmts[i].src.items[k].target = n

\* Slip: the dialect is not consulted.
SplitsAlways == TRUE

\* SQLite has no ALTER TABLE ADD CONSTRAINT.
Splits == input.dialect # "sqlite"

\* A component with another kind of edge, or with a clause that cannot be
\* extracted, is the cycle error of the whole command.
UnbreakableCycle ==
    /\ pc = "break"
    /\ moves = {}
    /\ \E C \in comps :
          /\ IsFirst(C)
          /\ \/ /\ ~AllForeignKeys(C)
                /\ Conclude("cycle")
             \/ /\ AllForeignKeys(C)
                /\ Splits
                /\ ~Splittable(C)
                /\ Conclude("unsplittable")
    /\ UNCHANGED work

\* dropFKEdgesSQLite: forget the references inside the component.
DropEdgesSQLite ==
    /\ pc = "break"
    /\ input.dialect = "sqlite"
    /\ \E C \in comps :
          /\ IsFirst(C)
          /\ AllForeignKeys(C)
          /\ stmts' = [i \in DOMAIN stmts |->
                IF i \in C
                THEN [stmts[i] EXCEPT !.deps = {n \in @ : ResolvesIn(C, i, n) = {}}]
                ELSE stmts[i]]
          /\ comps' = comps \ {C}
    /\ UNCHANGED <<input, mode, pc, nextFile, defs, refs, diags, nodes, adj, moves, rewritten, order, output, verdict>>

\* The clauses of component C, each with its number among the clauses of its
\* statement.
MovesOf(C) ==
    UNION {{[of |-> i, clause |-> k, target |-> stmts[i].src.items[k].target,
             subN |-> Cardinality({j \in ToExtract(C, i) : j < k})] :
                k \in ToExtract(C, i)} : i \in C}

\* breakOneSCC (postgres, mysql): rewrite each member without its clauses;
\* the clauses are added back one by one as ALTER TABLE statements.
SplitComponent ==
    /\ pc = "break"
    /\ moves = {}
    /\ Splits
    /\ \E C \in comps :
          /\ IsFirst(C)
          /\ AllForeignKeys(C)
          /\ Splittable(C)
          /\ rewritten' = [i \in DOMAIN rewritten \cup {j \in C : ToExtract(C, j) # {}} |->
                IF i \in DOMAIN rewritten
                THEN rewritten[i]
                ELSE Remove(stmts[i].src.items, ToExtract(C, i))]
          /\ moves' = MovesOf(C)
          /\ comps' = comps \ {C}
    /\ UNCHANGED <<input, mode, pc, nextFile, stmts, defs, refs, diags, nodes, adj, order, output, verdict>>

\* Slip: the largest subIndex in use is given out again.
LastSubIndex(ss, at) ==
    LET used == {ss[i].sub : i \in {j \in DOMAIN ss : ss[j].at = at}}
    IN  CHOOSE m \in used : \A u \in used : u <= m

\* The smallest subIndex above those used at this (file, index), from 1.
NextSubIndex(ss, at) ==
    LET used == {ss[i].sub : i \in {j \in DOMAIN ss : ss[j].at = at}}
    IN  IF used = {} THEN 1 ELSE (CHOOSE m \in used : \A u \in used : u <= m) + 1

\* Slip: the statement waits for its own table only.
OwnTable(alter) == {alter.name}

\* What the added statement depends on: it is parsed like any other.
AlterDeps(alter) == Deps(alter)

\* The next clause, in statement and list order.
IsNext(mv) ==
    \A other \in moves \ {mv} :
        mv.of < other.of \/ (mv.of = other.of /\ mv.clause < other.clause)

\* Append ALTER TABLE <table> ADD <clause>.
AddAlterTable ==
    /\ pc = "break"
    /\ \E mv \in moves :
          /\ IsNext(mv)
          /\ LET table == stmts[mv.of]
                 alter == [kind |-> "alter", name |-> table.src.name,
                           items |-> <<[form |-> "table", target |-> mv.target]>>,
                           sources |-> {}, requires |-> {}]
             IN  stmts' = Append(stmts,
                    [src |-> alter, at |-> table.at,
                     sub |-> NextSubIndex(stmts, table.at) + mv.subN,
                     synthesized |-> TRUE, deps |-> AlterDeps(alter)])
          /\ moves' = moves \ {mv}
    /\ UNCHANGED <<input, mode, pc, nextFile, defs, refs, diags, nodes, adj, comps, rewritten, order, output, verdict>>

\* The rewritten text is parsed again, without the leading comments, which
\* are carried over to the result afterwards.
Reparsed(st, items) ==
    LET text == [st.src EXCEPT !.items = items]
    IN  [st EXCEPT !.src = text, !.deps = Deps([text EXCEPT !.requires = {}])]

ApplyRewrites ==
    /\ pc = "break"
    /\ moves = {}
    /\ comps = {}
    /\ stmts' = [i \in DOMAIN stmts |->
          IF i \in DOMAIN rewritten THEN Reparsed(stmts[i], rewritten[i]) ELSE stmts[i]]
    /\ pc' = "resort"
    /\ UNCHANGED <<input, mode, nextFile, defs, refs, diags, nodes, adj, comps, moves, rewritten, order, output, verdict>>

-----------------------------------------------------------------------------
(* graph.Sort, by its contract, and emit *)

\* loaded.graphNodes(), again, for Sort.
StartSort ==
    /\ pc = "resort"
    /\ nodes' = GraphNodes(stmts)
    /\ adj' = Edges(GraphNodes(stmts), Len(stmts))
    /\ pc' = "sort"
    /\ UNCHANGED <<input, mode, nextFile, stmts, defs, refs, diags, comps, moves, rewritten, order, output, verdict>>

Sorted == {order[p] : p \in DOMAIN order}
Followers == {i \in DOMAIN stmts \ Sorted : adj[i] \subseteq Sorted}

EmitNext ==
    /\ pc = "sort"
    /\ LET ready == Followers
       IN  \E i \in ready :
              /\ \A j \in ready \ {i} : Before(nodes.key[i], nodes.key[j])
              /\ order' = Append(order, i)
    /\ UNCHANGED <<input, mode, pc, nextFile, stmts, defs, refs, diags, nodes, adj, comps, moves, rewritten, output, verdict>>

SortFails ==
    /\ pc = "sort"
    /\ Followers = {}
    /\ Len(order) < Len(stmts)
    /\ Conclude("cycle")
    /\ UNCHANGED work

\* byKey: the statement emit finds for a sorted node is the last one with
\* its (file, index, subIndex).
Lookup(i) ==
    LET same == {j \in DOMAIN stmts : Key(stmts[j]) = nodes.key[i]}
    IN  stmts[CHOOSE j \in same : \A k \in same : k <= j]

\* Sort has placed every statement.  Build emits them; check fails if it has
\* an error to report.
Finish ==
    /\ pc = "sort"
    /\ Len(order) = Len(stmts)
    /\ output' = IF mode = "build" THEN [p \in DOMAIN order |-> Lookup(order[p])] ELSE << >>
    /\ Conclude(FinalVerdict)
    /\ UNCHANGED <<nextFile, stmts, defs, refs, diags, nodes, adj, comps, moves, rewritten, order>>

\* The next command starts from the files.
StartOver(command) ==
    /\ mode' = command
    /\ pc' = "load"
    /\ nextFile' = 1
    /\ stmts' = << >>
    /\ defs' = {}
    /\ refs' = {}
    /\ diags' = {}
    /\ nodes' = << >>
    /\ adj' = << >>
    /\ comps' = {}
    /\ moves' = {}
    /\ rewritten' = << >>
    /\ order' = << >>
    /\ output' = << >>
    /\ UNCHANGED verdict

\* check has ended; bundle is run on the same files.
RunBuild == pc = "end" /\ mode = "check" /\ StartOver("build") /\ UNCHANGED input

Ended == pc = "end" /\ mode = "build" /\ UNCHANGED vars

Next ==
    \/ ReadFails
    \/ LexFails
    \/ LoadFile
    \/ FinishLoad
    \/ StopAtDiagnostic
    \/ PassGate
    \/ ResolveEdges
    \/ FindCycles
    \/ UnbreakableCycle
    \/ DropEdgesSQLite
    \/ SplitComponent
    \/ AddAlterTable
    \/ ApplyRewrites
    \/ StartSort
    \/ EmitNext
    \/ SortFails
    \/ Finish
    \/ RunBuild
    \/ Ended

Spec == Init /\ [][Next]_vars

-----------------------------------------------------------------------------
(* Properties *)

Built == pc = "end" /\ mode = "build" /\ verdict["build"] = "ok"

\* The statements of the files, as loaded.
SourceStatement(at) == input.files[at[1]].stmts[at[2]]
SourcePlaces == {stmts[i].at : i \in DOMAIN stmts}
SourceOf(p) == SourceStatement(output[p].at)
Verbatim(p) == ~output[p].synthesized /\ output[p].src = SourceOf(p)

\* The tables p and q of the output lie on a cycle of foreign keys that
\* SQLite resolves when rows are written.
LazyInSQLite(p, q) ==
    /\ input.dialect = "sqlite"
    /\ output[p].src.kind = "table"
    /\ output[q].src.kind = "table"

\* README, "Dependency ordering": the bundle can be executed from the top.
\* Every object a statement of the output names, and every object an
\* unmodified statement requires by directive, is created before it; only
\* SQLite's foreign keys may point forward.  An ALTER TABLE split off a
\* table thus follows both tables.
Executable ==
    Built => \A p \in DOMAIN output :
        \A r \in DepRefs(output[p].src) :
            r.kind # "directive" \/ Verbatim(p) =>
                \A q \in (p + 1)..Len(output) :
                    (~output[q].synthesized /\ output[q].src.name = r.name)
                        => LazyInSQLite(p, q) /\ r.kind = "auto"

\* How many times the statements at ps declare a foreign key to t.
ForeignKeysTo(items, t) == Cardinality({k \in DOMAIN items : items[k].target = t})

EmittedKeys(at, t) ==
    Cardinality(UNION {
        {<<p, k>> : k \in {j \in DOMAIN output[p].src.items : output[p].src.items[j].target = t}} :
            p \in {q \in DOMAIN output : output[q].at = at}})

\* The table ends in two adjacent table constraints that are foreign keys,
\* the shape Remove mishandles (see SkippedByRemove).
EndsInPair(items) ==
    /\ Len(items) >= 2
    /\ items[Len(items)].form = "table"
    /\ items[Len(items) - 1].form = "table"

\* Nothing of the source is lost or multiplied by breaking cycles: every
\* statement is emitted once, and every foreign key of a table appears in
\* the output, once, in its CREATE TABLE or in an ALTER TABLE (a pair at
\* the end of a list may leave one of its keys in both).
NothingLost ==
    Built =>
        /\ \A at \in SourcePlaces :
              Cardinality({p \in DOMAIN output :
                  output[p].at = at /\ ~output[p].synthesized}) = 1
        /\ \A at \in SourcePlaces : \A t \in ForeignTargets(SourceStatement(at).items) :
              LET items == SourceStatement(at).items
              IN  /\ EmittedKeys(at, t) >= ForeignKeysTo(items, t)
                  /\ ~EndsInPair(items) => EmittedKeys(at, t) = ForeignKeysTo(items, t)

\* The source statements that share a cycle with the one at position i.
SourceCycle(i) ==
    LET n == Cardinality(SourcePlaces)
        src == [j \in 1..n |->
                    Loaded(SourceStatement(stmts[j].at), stmts[j].at[1], stmts[j].at[2])]
    IN  Graph(n)!CycleMates(Edges(GraphNodes(src), n), i)

\* "Statements untouched by any cycle are left byte-identical in all
\* dialects", and SQLite's are always.
UntouchedOutsideCycles ==
    Built => \A i \in 1..Cardinality(SourcePlaces) :
        input.dialect = "sqlite" \/ SourceCycle(i) = {i} =>
            /\ stmts[i].src = SourceStatement(stmts[i].at)
            /\ \A j \in DOMAIN stmts : stmts[j].at = stmts[i].at => j = i

\* A cycle error means a cycle that could not be broken: one with an edge
\* that is not a foreign key of a CREATE TABLE or, except for SQLite, with
\* a table whose foreign keys cannot be split off (a pair at the end of a
\* list included).
CyclesAreGenuine ==
    (pc = "end" /\ mode = "build" /\ verdict["build"] \in {"cycle", "unsplittable"}) =>
        \E i \in 1..Cardinality(SourcePlaces) :
            LET s == SourceStatement(stmts[i].at)
                inside == {SourceStatement(stmts[j].at).name : j \in SourceCycle(i) \ {i}}
            IN  /\ inside # {}
                /\ \/ \E r \in DepRefs(s) :
                         r.name \in inside /\ (s.kind # "table" \/ r.kind # "auto")
                   \/ input.dialect # "sqlite" /\ (~Extractable(s) \/ EndsInPair(s.items))

\* sqldefkit check reports an error exactly when sqldefkit bundle fails on
\* the same files.
CheckPredictsBuild ==
    (pc = "end" /\ mode = "build") => (verdict["check"] = "ok") = (verdict["build"] = "ok")

\* An unknown-reference warning names an object no loaded file defines,
\* however late its definition is read.
NoFalseUnknown ==
    \A d \in diags : d.what = "unknown" =>
        \A f \in DOMAIN input.files : input.files[f].status = "ok" =>
            \A i \in DOMAIN input.files[f].stmts : input.files[f].stmts[i].name # d.name

-----------------------------------------------------------------------------
(* What the documentation says and the code does not do *)

\* README, "The require directive": a statement is emitted after the objects
\* it requires explicitly.
RequiresRespected ==
    Built => \A p \in DOMAIN output : \A n \in output[p].src.requires :
        \A q \in (p + 1)..Len(output) :
            output[q].synthesized \/ output[q].src.name # n

\* README: each foreign key of a broken cycle is extracted out of its CREATE
\* TABLE; it is not declared a second time by it.
ForeignKeysOnce ==
    Built => \A at \in SourcePlaces : \A t \in ForeignTargets(SourceStatement(at).items) :
        EmittedKeys(at, t) = ForeignKeysTo(SourceStatement(at).items, t)

\* README: an ALTER TABLE depends on the table it modifies.  It does not
\* define it, so creating a table and altering it later is not a duplicate.
AlterIsNoDefinition ==
    \A d \in diags : d.what = "duplicate" =>
        \E f \in DOMAIN input.files, e \in DOMAIN input.files : 
            \E i \in DOMAIN input.files[f].stmts, j \in DOMAIN input.files[e].stmts :
                /\ <<f, i>> # <<e, j>>
                /\ input.files[f].stmts[i].name = d.name
                /\ input.files[e].stmts[j].name = d.name
                /\ "alter" \notin {input.files[f].stmts[i].kind, input.files[e].stmts[j].kind}
=============================================================================
