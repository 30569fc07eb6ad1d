--------------------------- MODULE CommandProofs ---------------------------
(***************************************************************************)
(* Properties of the commands (Bundle and Commands), for any schema trees, *)
(* names and output paths.                                                 *)
(***************************************************************************)
EXTENDS Commands, FiniteSetTheorems, SequenceTheorems, TLAPS

Stmt == [src : Statement, at : Nat \X Nat, sub : Nat, synthesized : BOOLEAN, deps : SUBSET Name]

-----------------------------------------------------------------------------
(* What is loaded *)

\* The statements of the files that have been read.
LoadedPlaces ==
    {a \in Nat \X Nat : /\ a[1] \in 1..(nextFile - 1)
                        /\ input.files[a[1]].status = "ok"
                        /\ a[2] \in DOMAIN input.files[a[1]].stmts}
Named == {a \in LoadedPlaces : SourceStatement(a).name # NoName}

Complete == nextFile = Len(input.files) + 1

LoadTypes ==
    /\ input \in Tree
    /\ mode \in Mode
    /\ pc \in {"load", "gate", "cycles", "components", "break", "resort", "sort", "end"}
    /\ nextFile \in 1..(Len(input.files) + 1)
    /\ verdict \in [Mode -> Verdict]
    /\ pc \notin {"load", "end"} => Complete

\* The symbols are those of the files that have been read.
SymbolsAreTheirs ==
    /\ defs = {[name |-> SourceStatement(a).name, at |-> a] : a \in Named}
    /\ refs = UNION {{[name |-> r.name, kind |-> r.kind, at |-> a] : r \in DepRefs(SourceStatement(a))} :
                        a \in LoadedPlaces}

WarningsAreTheirs ==
    {d \in diags : d.what = "unknown"} = IF pc = "load" \/ ~Complete THEN {} ELSE UnresolvedReferences

\* a comes before b in the order of the files.
Precedes(a, b) == a[1] < b[1] \/ (a[1] = b[1] /\ a[2] < b[2])

DuplicateAt(a) ==
    [severity |-> "error", what |-> "duplicate", at |-> a, name |-> SourceStatement(a).name]

RedefinitionsAreErrors ==
    \A a, b \in Named :
        Precedes(a, b) /\ SourceStatement(a).name = SourceStatement(b).name => DuplicateAt(b) \in diags

LoadInv == LoadTypes /\ SymbolsAreTheirs /\ WarningsAreTheirs /\ RedefinitionsAreErrors

-----------------------------------------------------------------------------
(* The statements *)

\* The positions of statements of the files.
Sources == {i \in DOMAIN stmts : ~stmts[i].synthesized}

Original(i) == SourceStatement(stmts[i].at)
AsLoaded(i) == stmts[i] = Loaded(Original(i), stmts[i].at[1], stmts[i].at[2])

\* Cycles are not broken yet, or never.
Untouched == pc \in {"load", "gate", "cycles", "components"} \/ mode = "graph"

\* Cycles are being broken, or they are broken.
Broken == pc \in {"resort", "sort"} \/ Built
Touched == mode # "graph" /\ (pc = "break" \/ Broken)

Positions ==
    /\ stmts \in Seq(Stmt)
    /\ \E n \in Nat : n <= Len(stmts) /\ Sources = 1..n
    /\ \A i \in Sources : stmts[i].at \in LoadedPlaces /\ stmts[i].sub = 0
    /\ \A a \in LoadedPlaces : \E i \in Sources : stmts[i].at = a
    /\ \A j \in DOMAIN stmts : \E i \in Sources : stmts[i].at = stmts[j].at
    /\ \A i, j \in Sources : stmts[i].at = stmts[j].at => i = j

LoadedAsTheyAre ==
    /\ Untouched => \A i \in DOMAIN stmts : AsLoaded(i)
    /\ pc \in {"load", "gate", "cycles", "components"} =>
          comps = {} /\ moves = {} /\ rewritten = << >> /\ order = << >>

\* The statements of the files, at their positions.
SourceStmts ==
    [i \in 1..Cardinality(SourcePlaces) |-> Loaded(Original(i), stmts[i].at[1], stmts[i].at[2])]
SourceNodes == GraphNodes(SourceStmts)
SourceAdj == Edges(SourceNodes, Cardinality(SourcePlaces))

InCycle(i) == i \in Sources /\ SourceCycle(i) # {i}

CyclesAreTheirs ==
    /\ pc \in {"components", "break"} => nodes = SourceNodes /\ adj = SourceAdj
    /\ pc = "break" \/ mode = "graph" => \A C \in comps : \A i \in C : InCycle(i) /\ SourceCycle(i) = C

\* A statement split off table i.
AddedTo(j, i) ==
    /\ stmts[j].at = stmts[i].at /\ stmts[j].sub > 0
    /\ stmts[j].src.kind = "alter" /\ stmts[j].src.name = Original(i).name
    /\ stmts[j].deps = Deps(stmts[j].src)

CanSplit(i) == InCycle(i) /\ input.dialect # "sqlite"

OnlyCyclesAreSplit ==
    Touched =>
        /\ \A mv \in moves : CanSplit(mv.of) /\ mv.target \in Name /\ mv.subN \in Nat
        /\ \A i \in DOMAIN rewritten :
              CanSplit(i) /\ rewritten[i] \in Seq(Item) /\ rewritten[i] # Original(i).items
        /\ \A j \in DOMAIN stmts \ Sources : \E i \in Sources : CanSplit(i) /\ AddedTo(j, i)

TextsAreTheirs ==
    Touched =>
        \A i \in Sources :
            stmts[i].src = IF Broken /\ i \in DOMAIN rewritten
                           THEN [Original(i) EXCEPT !.items = rewritten[i]] ELSE Original(i)

KeysAreDistinct ==
    Touched =>
        /\ \A i, j \in DOMAIN stmts : stmts[i].at = stmts[j].at /\ stmts[i].sub = stmts[j].sub => i = j
        /\ \A i \in Sources : \E k \in DOMAIN stmts :
              /\ stmts[k].at = stmts[i].at
              /\ \A l \in DOMAIN stmts : stmts[l].at = stmts[i].at => stmts[l].sub <= stmts[k].sub

\* The reference r of statement i may point forward: SQLite resolves it late.
Lazy(i, r) ==
    /\ input.dialect = "sqlite" /\ Original(i).kind = "table" /\ r.kind = "auto"
    /\ \A j \in Sources :
          /\ Original(j).name = r.name
          /\ \A k \in Sources : Original(k).name = r.name => k <= j
          => Original(j).kind = "table"

DepsAreKept ==
    Touched =>
        \A i \in Sources : \A r \in DepRefs(stmts[i].src) :
            \/ r.name \in stmts[i].deps
            \/ Broken /\ i \in DOMAIN rewritten /\ r.kind = "directive"
            \/ Lazy(i, r)

StmtsInv ==
    /\ Positions /\ LoadedAsTheyAre /\ CyclesAreTheirs /\ OnlyCyclesAreSplit /\ TextsAreTheirs
    /\ KeysAreDistinct /\ DepsAreKept

-----------------------------------------------------------------------------
(* The order and the output *)

OrderIsGood ==
    /\ mode # "graph" /\ (pc = "sort" \/ Built) =>
        /\ nodes = GraphNodes(stmts) /\ adj = Edges(GraphNodes(stmts), Len(stmts))
        /\ order \in Seq(DOMAIN stmts)
        /\ \A p, q \in DOMAIN order : order[p] = order[q] => p = q
        /\ \A p \in DOMAIN order : adj[order[p]] \subseteq {order[q] : q \in 1..(p - 1)}
    /\ pc \in {"break", "resort"} => order = << >>
    /\ Built =>
        /\ ~HasError /\ Complete
        /\ DOMAIN order = DOMAIN stmts
        /\ output = [p \in DOMAIN order |-> stmts[order[p]]]

\* The names file f defines.
NamesIn(files, f) == {files[f].stmts[i].name : i \in DOMAIN files[f].stmts} \ {NoName}

\* The last of these files is a bundle of the others.
LastIsTheBundle(files) ==
    /\ files[Len(files)].status = "ok"
    /\ NamesIn(files, Len(files)) =
          UNION {NamesIn(files, f) : f \in {e \in 1..(Len(files) - 1) : files[e].status = "ok"}}

DiskInv ==
    /\ disk \in [Path -> {"old", "build", "graph"}]
    /\ disk["inside"] = "build" => Built \/ (mode = "graph" /\ LastIsTheBundle(input.files))
    /\ Exported => Complete /\ graph = Payload

StateInv == LoadInv /\ StmtsInv /\ OrderIsGood

CommandsInv == StateInv /\ DiskInv

-----------------------------------------------------------------------------
(* Sequences, files and names *)

LEMMA Concatenation ==
    ASSUME NEW S, NEW s \in Seq(S), NEW t \in Seq(S)
    PROVE  /\ s \o t \in Seq(S) /\ Len(s \o t) = Len(s) + Len(t)
           /\ \A i \in 1..Len(s) : (s \o t)[i] = s[i]
           /\ \A i \in 1..Len(t) : (s \o t)[Len(s) + i] = t[i]
OBVIOUS

LEMMA FieldsOfFiles ==
    ASSUME NEW S, NEW T, NEW files \in Seq([status : S, stmts : T]), NEW f \in 1..Len(files)
    PROVE  files[f].stmts \in T
<1>1. \A R : files \in Seq(R) => files[f] \in R
  OBVIOUS
<1>2. files[f] \in [status : S, stmts : T]
  BY <1>1
<1> QED
  BY <1>2

LEMMA NamesOf ==
    ASSUME NEW s \in Statement
    PROVE  /\ ForeignTargets(s.items) \subseteq Name
           /\ \A r \in DepRefs(s) : r.name \in Name /\ r.kind \in {"auto", "scan", "directive"}
           /\ Deps(s) \subseteq Name
<1>1. s.items \in Seq(Item) /\ s.sources \subseteq Name /\ s.requires \subseteq Name /\ s.name \in Name \cup {NoName}
  BY DEF Statement
<1>2. ForeignTargets(s.items) \subseteq Name
  <2>1. \A k \in DOMAIN s.items : s.items[k] \in Item
    BY <1>1
  <2>2. \A k \in DOMAIN s.items : s.items[k].target \in Name \cup {NoName}
    BY <2>1 DEF Item, Plain
  <2> QED
    BY <2>2 DEF ForeignTargets
<1>3. AutoNames(s) \subseteq Name
  <2>1. CASE s.kind = "table"
    BY <1>2, <2>1 DEF AutoNames
  <2>2. CASE s.kind = "alter"
    BY <1>1, <1>2, <2>2 DEF AutoNames
  <2>3. CASE s.kind \notin {"table", "alter"}
    BY <1>1, <2>3 DEF AutoNames
  <2> QED
    BY <2>1, <2>2, <2>3
<1>4. \A r \in DepRefs(s) : r.name \in Name /\ r.kind \in {"auto", "scan", "directive"}
  BY <1>1, <1>3 DEF DepRefs
<1> QED
  BY <1>2, <1>4 DEF Deps

\* The statements of the files that have been read.
LEMMA SourcesAreStatements ==
    ASSUME LoadTypes, NEW a \in LoadedPlaces
    PROVE  /\ SourceStatement(a) \in Statement
           /\ a \in Nat \X Nat /\ a = <<a[1], a[2]>> /\ a[1] \in 1..Len(input.files) /\ a[2] \in Nat \ {0}
           /\ \A r \in DepRefs(SourceStatement(a)) : r.name \in Name /\ r.name # NoName
<1>1. PICK files : files = input.files
  OBVIOUS
<1>2. files \in Seq([status : {"ok", "unlexable", "unreadable"}, stmts : Seq(Statement)])
  BY <1>1 DEF LoadTypes, Tree
<1>3. a \in Nat \X Nat /\ a[1] \in 1..Len(files) /\ a[2] \in DOMAIN files[a[1]].stmts
  BY <1>1, <1>2 DEF LoadedPlaces, LoadTypes
<1>4. files[a[1]].stmts \in Seq(Statement)
  BY <1>2, <1>3, FieldsOfFiles
<1>5. SourceStatement(a) \in Statement /\ a[2] \in Nat \ {0}
  BY <1>1, <1>3, <1>4 DEF SourceStatement
<1> QED
  BY <1>1, <1>3, <1>5, NamesOf, NamesAssumption

-----------------------------------------------------------------------------
(* Loading *)

LEMMA LoadInit == CommandsInit => LoadInv
<1> SUFFICES ASSUME CommandsInit PROVE LoadInv
  OBVIOUS
<1>1. /\ input \in Tree /\ mode = "check" /\ pc = "load" /\ nextFile = 1 /\ defs = {} /\ refs = {} /\ diags = {}
      /\ verdict = [m \in Mode |-> "none"]
  BY InputsAssumption DEF CommandsInit, Init, Fresh
<1>2. LoadedPlaces = {} /\ Named = {}
  BY <1>1 DEF LoadedPlaces, Named
<1>3. Len(input.files) \in Nat
  BY <1>1 DEF Tree
<1>4. LoadTypes
  BY <1>1, <1>3 DEF LoadTypes, Mode, Verdict
<1>5. SymbolsAreTheirs /\ WarningsAreTheirs /\ RedefinitionsAreErrors
  BY <1>1, <1>2 DEF SymbolsAreTheirs, WarningsAreTheirs, RedefinitionsAreErrors
<1> QED
  BY <1>4, <1>5 DEF LoadInv

\* A command is begun.
LEMMA StartOverLoads ==
    ASSUME LoadInv, input' \in Tree, NEW command \in Mode, StartOver(command)
    PROVE  LoadInv'
<1>1. /\ mode' = command /\ pc' = "load" /\ nextFile' = 1 /\ defs' = {} /\ refs' = {} /\ diags' = {}
      /\ verdict' = verdict
  BY DEF StartOver
<1>2. LoadedPlaces' = {} /\ Named' = {}
  BY <1>1 DEF LoadedPlaces, Named
<1>3. Len(input'.files) \in Nat
  BY DEF Tree
<1>4. LoadTypes'
  BY <1>1, <1>3 DEF LoadInv, LoadTypes
<1>5. SymbolsAreTheirs' /\ WarningsAreTheirs' /\ RedefinitionsAreErrors'
  BY <1>1, <1>2 DEF SymbolsAreTheirs, WarningsAreTheirs, RedefinitionsAreErrors
<1> QED
  BY <1>4, <1>5 DEF LoadInv

\* A step after the loading, or one that ends it early.
LEMMA LoadedKeeps ==
    ASSUME LoadInv, UNCHANGED <<input, mode, nextFile, defs, refs, diags>>,
           verdict' \in [Mode -> Verdict],
           pc' \in {"load", "gate", "cycles", "components", "break", "resort", "sort", "end"},
           pc' \notin {"load", "end"} => Complete,
           pc = "load" \/ ~Complete <=> pc' = "load" \/ ~Complete
    PROVE  LoadInv'
<1>1. LoadedPlaces' = LoadedPlaces /\ Named' = Named /\ Complete' = Complete
  BY DEF LoadedPlaces, Named, Complete, SourceStatement
<1>2. LoadTypes'
  BY <1>1 DEF LoadInv, LoadTypes
<1>3. SymbolsAreTheirs'
  BY <1>1 DEF LoadInv, SymbolsAreTheirs, SourceStatement
<1>4. WarningsAreTheirs'
  BY <1>1 DEF LoadInv, WarningsAreTheirs, UnresolvedReferences
<1>5. RedefinitionsAreErrors'
  BY <1>1 DEF LoadInv, RedefinitionsAreErrors, SourceStatement, DuplicateAt
<1> QED
  BY <1>2, <1>3, <1>4, <1>5 DEF LoadInv

LEMMA FinishLoadLoads ==
    ASSUME LoadInv, FinishLoad
    PROVE  LoadInv'
<1>1. /\ UNCHANGED <<input, mode, nextFile, defs, refs, verdict>> /\ pc = "load" /\ pc' = "gate"
      /\ diags' = diags \cup UnresolvedReferences /\ Complete
  BY DEF FinishLoad, LoadInv, LoadTypes, Complete, Tree
<1>2. LoadedPlaces' = LoadedPlaces /\ Named' = Named /\ Complete' = Complete
  BY <1>1 DEF LoadedPlaces, Named, Complete, SourceStatement
<1>3. LoadTypes'
  BY <1>1, <1>2 DEF LoadInv, LoadTypes
<1>4. SymbolsAreTheirs'
  BY <1>1, <1>2 DEF LoadInv, SymbolsAreTheirs, SourceStatement
<1>5. WarningsAreTheirs'
  <2>1. {d \in diags : d.what = "unknown"} = {}
    BY <1>1 DEF LoadInv, WarningsAreTheirs
  <2>2. \A d \in UnresolvedReferences : d.what = "unknown"
    BY DEF UnresolvedReferences
  <2>3. UnresolvedReferences' = UnresolvedReferences
    BY <1>1 DEF UnresolvedReferences
  <2> QED
    BY <1>1, <1>2, <2>1, <2>2, <2>3 DEF WarningsAreTheirs
<1>6. RedefinitionsAreErrors'
  BY <1>1, <1>2 DEF LoadInv, RedefinitionsAreErrors, SourceStatement, DuplicateAt
<1> QED
  BY <1>3, <1>4, <1>5, <1>6 DEF LoadInv

LEMMA LexFailsLoads ==
    ASSUME LoadInv, LexFails
    PROVE  LoadInv'
<1>1. /\ UNCHANGED <<input, mode, pc, defs, refs, verdict>> /\ pc = "load"
      /\ nextFile' = nextFile + 1 /\ nextFile <= Len(input.files) /\ nextFile \in Nat \ {0} /\ Len(input.files) \in Nat
      /\ input.files[nextFile].status = "unlexable"
      /\ \E d : diags' = diags \cup {d} /\ d.what = "lex"
  <2>1. nextFile \in Nat \ {0} /\ Len(input.files) \in Nat
    BY DEF LoadInv, LoadTypes, Tree
  <2>2. PICK d : d = [severity |-> "error", what |-> "lex", at |-> <<nextFile, 0>>, name |-> NoName]
    OBVIOUS
  <2>3. diags' = diags \cup {d} /\ d.what = "lex"
    BY <2>2 DEF LexFails
  <2> QED
    BY <2>1, <2>3 DEF LexFails
<1>2. LoadedPlaces' = LoadedPlaces
  <2>1. \A f \in Nat : input.files[f].status = "ok" => (f \in 1..(nextFile + 1 - 1) <=> f \in 1..(nextFile - 1))
    BY <1>1
  <2> QED
    BY <1>1, <2>1 DEF LoadedPlaces
<1>3. Named' = Named
  BY <1>1, <1>2 DEF Named, SourceStatement
<1>4. LoadTypes'
  BY <1>1 DEF LoadInv, LoadTypes
<1>5. SymbolsAreTheirs'
  BY <1>1, <1>2, <1>3 DEF LoadInv, SymbolsAreTheirs, SourceStatement
<1>6. WarningsAreTheirs'
  BY <1>1 DEF LoadInv, WarningsAreTheirs
<1>7. RedefinitionsAreErrors'
  BY <1>1, <1>2, <1>3 DEF LoadInv, RedefinitionsAreErrors, SourceStatement, DuplicateAt
<1> QED
  BY <1>4, <1>5, <1>6, <1>7 DEF LoadInv

\* What the next file adds.
NewPlaces == {<<nextFile, i>> : i \in DOMAIN input.files[nextFile].stmts}

LEMMA NewPlacesShape ==
    ASSUME LoadInv, LoadFile
    PROVE  /\ UNCHANGED <<input, mode, pc, verdict>> /\ pc = "load"
           /\ nextFile \in Nat \ {0} /\ nextFile <= Len(input.files) /\ Len(input.files) \in Nat
           /\ nextFile' = nextFile + 1
           /\ input.files[nextFile].stmts \in Seq(Statement)
           /\ LoadedPlaces' = LoadedPlaces \cup NewPlaces
           /\ NewPlaces \cap LoadedPlaces = {}
           /\ \A a \in LoadedPlaces : a[1] < nextFile
<1>1. /\ UNCHANGED <<input, mode, pc, verdict>> /\ pc = "load" /\ nextFile' = nextFile + 1
      /\ input.files[nextFile].status = "ok"
  BY DEF LoadFile
<1>2. PICK files : files = input.files
  OBVIOUS
<1>3. files \in Seq([status : {"ok", "unlexable", "unreadable"}, stmts : Seq(Statement)])
  BY <1>2 DEF LoadInv, LoadTypes, Tree
<1>4. nextFile \in 1..Len(files) /\ Len(files) \in Nat
  <2>1. Len(files) \in Nat
    BY <1>3
  <2>2. nextFile \in 1..(Len(files) + 1) /\ nextFile <= Len(files)
    BY <1>2 DEF LoadInv, LoadTypes, LoadFile
  <2> QED
    BY <2>1, <2>2
<1>5. files[nextFile].stmts \in Seq(Statement)
  BY <1>3, <1>4, FieldsOfFiles
<1>6. PICK ss : ss = files[nextFile].stmts
  OBVIOUS
<1>7. DOMAIN ss \subseteq Nat
  BY <1>5, <1>6
<1>8. ASSUME NEW a
      PROVE  a \in LoadedPlaces' <=> a \in LoadedPlaces \/ a \in NewPlaces
  <2>1. a \in LoadedPlaces' <=>
            a \in Nat \X Nat /\ a[1] \in 1..nextFile /\ files[a[1]].status = "ok" /\ a[2] \in DOMAIN files[a[1]].stmts
    BY <1>1, <1>2, <1>4 DEF LoadedPlaces
  <2>2. a \in LoadedPlaces <=>
            a \in Nat \X Nat /\ a[1] \in 1..(nextFile - 1) /\ files[a[1]].status = "ok" /\ a[2] \in DOMAIN files[a[1]].stmts
    BY <1>2 DEF LoadedPlaces
  <2>3. a \in NewPlaces <=> \E i \in DOMAIN ss : a = <<nextFile, i>>
    BY <1>2, <1>6 DEF NewPlaces
  <2>4. a \in NewPlaces <=> a \in Nat \X Nat /\ a[1] = nextFile /\ a[2] \in DOMAIN ss
    BY <1>4, <1>7, <2>3
  <2>5. files[nextFile].status = "ok"
    BY <1>1, <1>2
  <2>6. \A f : f \in 1..nextFile <=> f \in 1..(nextFile - 1) \/ f = nextFile
    BY <1>4
  <2> QED
    BY <1>6, <2>1, <2>2, <2>4, <2>5, <2>6
<1>9. \A a \in LoadedPlaces : a[1] < nextFile
  BY <1>4 DEF LoadedPlaces
<1>10. \A a \in NewPlaces : a[1] = nextFile
  BY DEF NewPlaces
<1>11. LoadedPlaces' = LoadedPlaces \cup NewPlaces
  BY <1>8
<1>12. NewPlaces \cap LoadedPlaces = {}
  BY <1>4, <1>9, <1>10
<1> QED
  BY <1>1, <1>2, <1>4, <1>5, <1>9, <1>11, <1>12

LEMMA LoadFileLoads ==
    ASSUME LoadInv, LoadFile
    PROVE  LoadInv'
<1>1. /\ UNCHANGED <<input, mode, pc, verdict>> /\ pc = "load"
      /\ nextFile \in Nat \ {0} /\ nextFile <= Len(input.files) /\ Len(input.files) \in Nat
      /\ nextFile' = nextFile + 1
      /\ input.files[nextFile].stmts \in Seq(Statement)
      /\ LoadedPlaces' = LoadedPlaces \cup NewPlaces
      /\ NewPlaces \cap LoadedPlaces = {}
      /\ \A a \in LoadedPlaces : a[1] < nextFile
  BY NewPlacesShape
<1>2. PICK ss : ss = input.files[nextFile].stmts
  OBVIOUS
<1>3. /\ defs' = defs \cup {[name |-> ss[i].name, at |-> <<nextFile, i>>] :
                               i \in {j \in DOMAIN ss : ss[j].name # NoName}}
      /\ refs' = refs \cup UNION {{[name |-> r.name, kind |-> r.kind, at |-> <<nextFile, i>>] :
                                      r \in DepRefs(ss[i])} : i \in DOMAIN ss}
      /\ diags' = diags \cup {[severity |-> "error", what |-> "duplicate", at |-> <<nextFile, i>>, name |-> ss[i].name] :
                                 i \in {j \in {k \in DOMAIN ss : ss[k].name # NoName} : DefinedBefore(ss, j)}}
  BY <1>2 DEF LoadFile
<1>4. /\ NewPlaces = {<<nextFile, i>> : i \in DOMAIN ss}
      /\ \A i \in DOMAIN ss : SourceStatement(<<nextFile, i>>) = ss[i]
  BY <1>2 DEF NewPlaces, SourceStatement
<1>5. LoadTypes'
  BY <1>1 DEF LoadInv, LoadTypes
<1>6. \A a : SourceStatement(a)' = SourceStatement(a)
  BY <1>1 DEF SourceStatement
<1>7. Named' = Named \cup {<<nextFile, i>> : i \in {j \in DOMAIN ss : ss[j].name # NoName}}
  BY <1>1, <1>4, <1>6 DEF Named
<1>8. defs' = {[name |-> SourceStatement(a).name, at |-> a] : a \in Named'}
  BY <1>3, <1>4, <1>7 DEF LoadInv, SymbolsAreTheirs
<1>9. refs' = UNION {{[name |-> r.name, kind |-> r.kind, at |-> a] : r \in DepRefs(SourceStatement(a))} :
                        a \in LoadedPlaces'}
  <2>1. refs = UNION {{[name |-> r.name, kind |-> r.kind, at |-> a] : r \in DepRefs(SourceStatement(a))} :
                         a \in LoadedPlaces}
    BY DEF LoadInv, SymbolsAreTheirs
  <2>2. UNION {{[name |-> r.name, kind |-> r.kind, at |-> <<nextFile, i>>] : r \in DepRefs(ss[i])} : i \in DOMAIN ss}
           = UNION {{[name |-> r.name, kind |-> r.kind, at |-> a] : r \in DepRefs(SourceStatement(a))} : a \in NewPlaces}
    BY <1>4
  <2> QED
    BY <1>1, <1>3, <2>1, <2>2
<1>10. SymbolsAreTheirs'
  BY <1>6, <1>8, <1>9 DEF SymbolsAreTheirs
<1>11. WarningsAreTheirs'
  <2>1. {d \in diags : d.what = "unknown"} = {}
    BY <1>1 DEF LoadInv, WarningsAreTheirs
  <2>2. {d \in diags' : d.what = "unknown"} = {}
    BY <1>3, <2>1
  <2> QED
    BY <1>1, <2>2 DEF WarningsAreTheirs
<1>12. RedefinitionsAreErrors'
  <2> SUFFICES ASSUME NEW a \in Named', NEW b \in Named', Precedes(a, b),
                      SourceStatement(a).name = SourceStatement(b).name
               PROVE  DuplicateAt(b) \in diags'
    BY <1>6 DEF RedefinitionsAreErrors, DuplicateAt, Precedes
  <2>1. CASE a \in Named /\ b \in Named
    BY <1>3, <2>1 DEF LoadInv, RedefinitionsAreErrors
  <2>2. CASE b \notin Named
    <3>1. PICK i \in DOMAIN ss : b = <<nextFile, i>> /\ ss[i].name # NoName
      BY <1>7, <2>2
    <3>2. ss[i] = SourceStatement(b)
      BY <1>4, <3>1
    <3>3. DefinedBefore(ss, i)
      <4>1. CASE a \in Named
        <5>1. [name |-> SourceStatement(a).name, at |-> a] \in defs
          BY <4>1 DEF LoadInv, SymbolsAreTheirs
        <5> QED
          BY <3>2, <5>1 DEF DefinedBefore
      <4>2. CASE a \notin Named
        <5>1. PICK h \in DOMAIN ss : a = <<nextFile, h>>
          BY <1>7, <4>2
        <5>2. h < i /\ ss[h].name = ss[i].name /\ h \in Nat \ {0} /\ i \in Nat
          BY <1>1, <1>2, <1>4, <3>1, <3>2, <5>1 DEF Precedes
        <5>3. h \in 1..(i - 1)
          BY <5>2
        <5> QED
          BY <5>2, <5>3 DEF DefinedBefore
      <4> QED
        BY <4>1, <4>2
    <3> QED
      BY <1>3, <3>1, <3>2, <3>3 DEF DuplicateAt
  <2>3. CASE a \notin Named /\ b \in Named
    <3>1. PICK h \in DOMAIN ss : a = <<nextFile, h>>
      BY <1>7, <2>3
    <3>2. b[1] < nextFile /\ b[1] \in Nat
      BY <1>1, <2>3 DEF Named, LoadedPlaces
    <3> QED
      BY <1>1, <3>1, <3>2 DEF Precedes
  <2> QED
    BY <2>1, <2>2, <2>3
<1> QED
  BY <1>5, <1>10, <1>11, <1>12 DEF LoadInv

-----------------------------------------------------------------------------
(* Cycles of a graph *)

LEMMA ReachableIsClosed ==
    ASSUME NEW n \in Nat, NEW a \in [1..n -> SUBSET (1..n)], NEW u \in 1..n
    PROVE  /\ Graph(n)!Reachable(a, u) \subseteq 1..n
           /\ a[u] \subseteq Graph(n)!Reachable(a, u)
           /\ \A w \in Graph(n)!Reachable(a, u) : a[w] \subseteq Graph(n)!Reachable(a, u)
BY DEF Graph!Reachable, Graph!Node

LEMMA ReachableIsLeast ==
    ASSUME NEW n \in Nat, NEW a \in [1..n -> SUBSET (1..n)], NEW u \in 1..n, NEW S \in SUBSET (1..n),
           a[u] \subseteq S, \A w \in S : a[w] \subseteq S
    PROVE  Graph(n)!Reachable(a, u) \subseteq S
BY DEF Graph!Reachable, Graph!Node

LEMMA ReachableIsTransitive ==
    ASSUME NEW n \in Nat, NEW a \in [1..n -> SUBSET (1..n)], NEW u \in 1..n,
           NEW w \in Graph(n)!Reachable(a, u)
    PROVE  w \in 1..n /\ Graph(n)!Reachable(a, w) \subseteq Graph(n)!Reachable(a, u)
<1>1. /\ w \in 1..n /\ Graph(n)!Reachable(a, u) \in SUBSET (1..n) /\ a[w] \subseteq Graph(n)!Reachable(a, u)
      /\ \A x \in Graph(n)!Reachable(a, u) : a[x] \subseteq Graph(n)!Reachable(a, u)
  BY ReachableIsClosed
<1> QED
  BY <1>1, ReachableIsLeast

\* The components are the classes of an equivalence.
LEMMA MatesAgree ==
    ASSUME NEW n \in Nat, NEW a \in [1..n -> SUBSET (1..n)], NEW v \in 1..n,
           NEW w \in Graph(n)!CycleMates(a, v)
    PROVE  /\ w \in 1..n /\ v \in Graph(n)!CycleMates(a, v)
           /\ Graph(n)!CycleMates(a, w) = Graph(n)!CycleMates(a, v)
<1>1. v \in Graph(n)!CycleMates(a, v)
  BY DEF Graph!CycleMates
<1>2. CASE w = v
  BY <1>1, <1>2
<1>3. CASE w # v
  <2>1. w \in Graph(n)!Reachable(a, v) /\ v \in Graph(n)!Reachable(a, w)
    BY <1>3 DEF Graph!CycleMates
  <2>2. w \in 1..n /\ Graph(n)!Reachable(a, w) = Graph(n)!Reachable(a, v)
    BY <2>1, ReachableIsTransitive
  <2>3. \A x : x \in Graph(n)!Reachable(a, v) =>
                  (w \in Graph(n)!Reachable(a, x) <=> v \in Graph(n)!Reachable(a, x))
    BY <2>1, <2>2, ReachableIsTransitive
  <2>4. v \in Graph(n)!Reachable(a, v) /\ w \in Graph(n)!Reachable(a, w)
    BY <2>1, <2>2
  <2> QED
    BY <1>1, <2>1, <2>2, <2>3, <2>4 DEF Graph!CycleMates
<1> QED
  BY <1>2, <1>3

\* A node that shares a cycle with another has an edge inside the component.
LEMMA EdgeInside ==
    ASSUME NEW n \in Nat, NEW a \in [1..n -> SUBSET (1..n)], NEW v \in 1..n,
           v \notin a[v], Graph(n)!CycleMates(a, v) # {v}
    PROVE  \E x \in a[v] : x \in Graph(n)!CycleMates(a, v)
<1> SUFFICES ASSUME \A x \in a[v] : x \notin Graph(n)!CycleMates(a, v) PROVE FALSE
  OBVIOUS
<1>1. PICK w : w # v /\ w \in Graph(n)!Reachable(a, v) /\ v \in Graph(n)!Reachable(a, w)
  BY DEF Graph!CycleMates
<1>2. \A x \in a[v] : x \in 1..n /\ x \in Graph(n)!Reachable(a, v) /\ v \notin Graph(n)!Reachable(a, x)
  BY ReachableIsClosed DEF Graph!CycleMates
<1> DEFINE S == a[v] \cup UNION {Graph(n)!Reachable(a, x) : x \in a[v]}
<1>3. /\ S \in SUBSET (1..n) /\ a[v] \subseteq S
      /\ \A y \in S : a[y] \subseteq S
  BY <1>2, ReachableIsClosed
<1>4. Graph(n)!Reachable(a, v) \subseteq S
  <2> HIDE DEF S
  <2> QED
    BY <1>3, ReachableIsLeast
<1>5. CASE w \in a[v]
  BY <1>1, <1>2, <1>5
<1>6. CASE w \notin a[v]
  <2>1. PICK x \in a[v] : w \in Graph(n)!Reachable(a, x)
    BY <1>1, <1>4, <1>6
  <2> QED
    BY <1>1, <1>2, <2>1, ReachableIsTransitive
<1> QED
  BY <1>5, <1>6

\* A node without an edge to itself is on a cycle if it has cycle mates.
LEMMA MatesMeanACycle ==
    ASSUME NEW n \in Nat, NEW a \in [1..n -> SUBSET (1..n)], NEW i \in 1..n, i \notin a[i]
    PROVE  Graph(n)!CycleMates(a, i) # {i} <=> i \in Graph(n)!Reachable(a, i)
<1>1. ASSUME Graph(n)!CycleMates(a, i) # {i} PROVE i \in Graph(n)!Reachable(a, i)
  <2>1. PICK w : w \in Graph(n)!Reachable(a, i) /\ i \in Graph(n)!Reachable(a, w)
    BY <1>1 DEF Graph!CycleMates
  <2> QED
    BY <2>1, ReachableIsTransitive
<1>2. ASSUME i \in Graph(n)!Reachable(a, i) PROVE Graph(n)!CycleMates(a, i) # {i}
  <2>1. PICK S : S = a[i] \cup UNION {Graph(n)!Reachable(a, x) : x \in a[i]}
    OBVIOUS
  <2>2. S \in SUBSET (1..n) /\ a[i] \subseteq S /\ \A y \in S : a[y] \subseteq S
    BY <2>1, ReachableIsClosed
  <2>3. i \in S
    BY <1>2, <2>2, ReachableIsLeast
  <2>4. PICK x \in a[i] : i \in Graph(n)!Reachable(a, x)
    BY <2>1, <2>3
  <2>5. x \in Graph(n)!Reachable(a, i) /\ x # i
    BY <2>4, ReachableIsClosed
  <2> QED
    BY <2>4, <2>5 DEF Graph!CycleMates
<1> QED
  BY <1>1, <1>2

-----------------------------------------------------------------------------
(* The statements of the files among those of the command *)

LEMMA StmtShapes ==
    ASSUME Positions
    PROVE  /\ Len(stmts) \in Nat /\ DOMAIN stmts = 1..Len(stmts)
           /\ \A i \in DOMAIN stmts : stmts[i] \in Stmt
           /\ Sources \subseteq DOMAIN stmts
BY DEF Positions, Sources

\* The statements of the files are the first ones, one for each place.
LEMMA SourcesAreCounted ==
    ASSUME Positions
    PROVE  /\ Cardinality(SourcePlaces) \in Nat
           /\ Cardinality(SourcePlaces) <= Len(stmts)
           /\ Sources = 1..Cardinality(SourcePlaces)
<1>1. PICK n \in Nat : n <= Len(stmts) /\ Sources = 1..n
  BY DEF Positions
<1>2. SourcePlaces = {stmts[i].at : i \in 1..n}
  BY <1>1 DEF Positions, SourcePlaces, Sources
<1> DEFINE f == [i \in 1..n |-> stmts[i].at]
<1>3. f \in Bijection(1..n, SourcePlaces)
  <2>1. \A i, j \in 1..n : f[i] = f[j] => i = j
    BY <1>1 DEF Positions
  <2>2. \A p \in SourcePlaces : \E i \in 1..n : f[i] = p
    BY <1>2
  <2>3. f \in [1..n -> SourcePlaces]
    BY <1>2
  <2> QED
    BY <2>1, <2>2, <2>3 DEF Bijection, Injection, IsInjective, Surjection
<1>4. ExistsBijection(1..n, SourcePlaces)
  BY <1>3 DEF ExistsBijection
<1>5. Cardinality(SourcePlaces) = n
  BY <1>4, FS_CountingElements
<1> QED
  BY <1>1, <1>5

\* The cycles of the files do not depend on what becomes of the statements.
LEMMA SameSources ==
    ASSUME Positions, UNCHANGED input,
           Sources' = Sources, SourcePlaces' = SourcePlaces,
           \A i \in Sources : stmts'[i].at = stmts[i].at
    PROVE  /\ \A i \in Sources : /\ Original(i)' = Original(i)
                                 /\ SourceCycle(i)' = SourceCycle(i)
                                 /\ InCycle(i)' <=> InCycle(i)
                                 /\ CanSplit(i)' <=> CanSplit(i)
           /\ \A i : i \notin Sources => ~InCycle(i) /\ ~InCycle(i)' /\ ~CanSplit(i) /\ ~CanSplit(i)'
           /\ SourceNodes' = SourceNodes /\ SourceAdj' = SourceAdj
<1>1. Sources = 1..Cardinality(SourcePlaces) /\ Cardinality(SourcePlaces)' = Cardinality(SourcePlaces)
  BY SourcesAreCounted
<1>3. \A i \in Sources : Original(i)' = Original(i)
  BY DEF Original, SourceStatement
<1>4. SourceStmts' = SourceStmts
  BY <1>1, <1>3 DEF SourceStmts
<1>5. SourceNodes' = SourceNodes /\ SourceAdj' = SourceAdj
  BY <1>1, <1>4 DEF SourceNodes, SourceAdj
<1>6. \A i : SourceCycle(i)' = SourceCycle(i)
  <2>1. \A i : SourceCycle(i) = Graph(Cardinality(SourcePlaces))!CycleMates(SourceAdj, i)
    BY DEF SourceCycle, SourceAdj, SourceNodes, SourceStmts, Original
  <2>2. \A i : SourceCycle(i)' = Graph(Cardinality(SourcePlaces)')!CycleMates(SourceAdj', i)
    BY DEF SourceCycle, SourceAdj, SourceNodes, SourceStmts, Original
  <2> QED
    BY <1>1, <1>5, <2>1, <2>2
<1> QED
  BY <1>3, <1>5, <1>6 DEF InCycle, CanSplit

-----------------------------------------------------------------------------
(* Before cycles are broken *)

LEMMA LoadedIsStmt ==
    ASSUME NEW s \in Statement, NEW f \in Nat, NEW i \in Nat
    PROVE  Loaded(s, f, i) \in Stmt
<1>1. Deps(s) \subseteq Name
  BY NamesOf
<1> QED
  BY <1>1 DEF Loaded, Stmt

\* Unless cycles are broken, there is little to show.
LEMMA NotTouched ==
    ASSUME ~Touched', Positions', LoadedAsTheyAre', CyclesAreTheirs'
    PROVE  StmtsInv'
BY DEF StmtsInv, OnlyCyclesAreSplit, TextsAreTheirs, KeysAreDistinct, DepsAreKept

LEMMA InitStmts == CommandsInit => StmtsInv /\ OrderIsGood
<1> SUFFICES ASSUME CommandsInit PROVE StmtsInv /\ OrderIsGood
  OBVIOUS
<1>1. /\ mode = "check" /\ pc = "load" /\ nextFile = 1 /\ stmts = << >> /\ comps = {} /\ moves = {}
      /\ rewritten = << >> /\ order = << >>
  BY DEF CommandsInit, Init, Fresh
<1>2. LoadedPlaces = {} /\ Sources = {} /\ Sources = 1..0 /\ Len(stmts) = 0
  BY <1>1 DEF LoadedPlaces, Sources
<1>3. Positions
  BY <1>1, <1>2 DEF Positions
<1>4. ~Touched /\ ~Built /\ LoadedAsTheyAre /\ CyclesAreTheirs
  BY <1>1 DEF Touched, Broken, Built, LoadedAsTheyAre, CyclesAreTheirs
<1> QED
  BY <1>1, <1>3, <1>4 DEF StmtsInv, OrderIsGood, OnlyCyclesAreSplit, TextsAreTheirs, KeysAreDistinct, DepsAreKept

LEMMA StartOverStmts ==
    ASSUME NEW command \in Mode, StartOver(command)
    PROVE  StmtsInv' /\ OrderIsGood'
<1>1. /\ mode' = command /\ pc' = "load" /\ nextFile' = 1 /\ stmts' = << >> /\ comps' = {} /\ moves' = {}
      /\ rewritten' = << >> /\ order' = << >>
  BY DEF StartOver
<1>2. LoadedPlaces' = {} /\ Sources' = {} /\ Sources' = 1..0 /\ Len(stmts') = 0
  BY <1>1 DEF LoadedPlaces, Sources
<1>3. Positions'
  BY <1>1, <1>2 DEF Positions
<1>4. ~Touched' /\ ~Built' /\ LoadedAsTheyAre' /\ CyclesAreTheirs'
  BY <1>1 DEF Touched, Broken, Built, LoadedAsTheyAre, CyclesAreTheirs
<1> QED
  BY <1>1, <1>3, <1>4, NotTouched DEF OrderIsGood

\* Statements are the same, and the places loaded.
LEMMA SameStmts ==
    ASSUME Positions, UNCHANGED <<input, stmts>>, LoadedPlaces' = LoadedPlaces
    PROVE  /\ Positions' /\ Sources' = Sources /\ SourcePlaces' = SourcePlaces
           /\ \A i \in DOMAIN stmts : AsLoaded(i)' <=> AsLoaded(i)
BY DEF Positions, Sources, SourcePlaces, AsLoaded, Original, SourceStatement

\* As long as every statement is as it was loaded, the graph is that of the
\* files.
LEMMA GraphOfTheFiles ==
    ASSUME Positions, \A i \in DOMAIN stmts : AsLoaded(i)
    PROVE  GraphNodes(stmts) = SourceNodes /\ Edges(GraphNodes(stmts), Len(stmts)) = SourceAdj
<1>1. \A i \in DOMAIN stmts : ~stmts[i].synthesized
  BY DEF AsLoaded, Loaded
<1>2. Sources = DOMAIN stmts /\ Len(stmts) \in Nat /\ DOMAIN stmts = 1..Len(stmts)
  BY <1>1, StmtShapes DEF Sources
<1>3. Sources = 1..Cardinality(SourcePlaces) /\ Cardinality(SourcePlaces) \in Nat
  BY SourcesAreCounted
<1>4. Cardinality(SourcePlaces) = Len(stmts)
  BY <1>2, <1>3
<1>5. SourceStmts = [i \in 1..Len(stmts) |-> stmts[i]]
  BY <1>2, <1>4 DEF SourceStmts, AsLoaded
<1>6. stmts = [i \in 1..Len(stmts) |-> stmts[i]]
  BY DEF Positions
<1> QED
  BY <1>4, <1>5, <1>6 DEF SourceNodes, SourceAdj

\* A step of the command before it looks for cycles.
LEMMA EarlyKeeps ==
    ASSUME StmtsInv, UNCHANGED <<input, mode, stmts, comps, moves, rewritten, order>>,
           LoadedPlaces' = LoadedPlaces,
           pc \in {"load", "gate", "cycles"}, pc' \in {"load", "gate", "cycles", "components"},
           pc' = "components" => nodes' = GraphNodes(stmts) /\ adj' = Edges(GraphNodes(stmts), Len(stmts))
    PROVE  StmtsInv' /\ OrderIsGood'
<1>1. Positions' /\ \A i \in DOMAIN stmts : AsLoaded(i)' /\ AsLoaded(i)
  BY SameStmts DEF StmtsInv, LoadedAsTheyAre, Untouched
<1>2. ~Touched' /\ ~Built'
  BY DEF Touched, Broken, Built
<1>3. LoadedAsTheyAre'
  BY <1>1 DEF StmtsInv, LoadedAsTheyAre, Untouched
<1>4. CyclesAreTheirs'
  <2>1. comps' = {}
    BY DEF StmtsInv, LoadedAsTheyAre
  <2>2. pc' = "components" => nodes' = SourceNodes' /\ adj' = SourceAdj'
    <3>1. GraphNodes(stmts) = SourceNodes /\ Edges(GraphNodes(stmts), Len(stmts)) = SourceAdj
      BY <1>1, GraphOfTheFiles DEF StmtsInv
    <3>2. SourceNodes' = SourceNodes /\ SourceAdj' = SourceAdj
      BY SameStmts, SameSources DEF StmtsInv
    <3> QED
      BY <3>1, <3>2
  <2> QED
    BY <2>1, <2>2 DEF CyclesAreTheirs
<1> QED
  BY <1>1, <1>2, <1>3, <1>4, NotTouched DEF OrderIsGood

\* The command ends without a bundle.
LEMMA EndKeeps ==
    ASSUME StmtsInv, UNCHANGED <<input, mode, nextFile, stmts, comps>>, pc' = "end", ~Built'
    PROVE  StmtsInv' /\ OrderIsGood'
<1>1. UNCHANGED <<nextFile, stmts, comps>>
  OBVIOUS
<1>2. LoadedPlaces' = LoadedPlaces
  BY <1>1 DEF LoadedPlaces
<1>3. Positions' /\ Sources' = Sources /\ SourcePlaces' = SourcePlaces
      /\ \A i \in DOMAIN stmts : AsLoaded(i)' <=> AsLoaded(i)
  BY <1>1, <1>2, SameStmts DEF StmtsInv
<1>4. ~Touched'
  BY DEF Touched, Broken
<1>5. LoadedAsTheyAre'
  BY <1>1, <1>3 DEF StmtsInv, LoadedAsTheyAre, Untouched
<1>6. CyclesAreTheirs'
  <2>1. \A i \in Sources : SourceCycle(i)' = SourceCycle(i) /\ (InCycle(i)' <=> InCycle(i))
    BY <1>1, <1>3, SameSources DEF StmtsInv
  <2>2. mode = "graph" => \A C \in comps : \A i \in C : i \in Sources /\ InCycle(i) /\ SourceCycle(i) = C
    BY DEF StmtsInv, CyclesAreTheirs, InCycle
  <2> QED
    BY <1>1, <2>1, <2>2 DEF CyclesAreTheirs
<1> QED
  BY <1>3, <1>4, <1>5, <1>6, NotTouched DEF OrderIsGood

LEMMA LexFailsPlaces == ASSUME LoadInv, LexFails PROVE LoadedPlaces' = LoadedPlaces
<1>1. nextFile \in Nat \ {0} /\ Len(input.files) \in Nat
  BY DEF LoadInv, LoadTypes, Tree
<1>2. input' = input /\ nextFile' = nextFile + 1 /\ input.files[nextFile].status = "unlexable"
  BY DEF LexFails
<1>3. \A f \in Nat : input.files[f].status = "ok" => (f \in 1..(nextFile + 1 - 1) <=> f \in 1..(nextFile - 1))
  BY <1>1, <1>2
<1> QED
  BY <1>1, <1>2, <1>3 DEF LoadedPlaces

\* The statements of a file are appended.
LEMMA LoadFileAppends ==
    ASSUME LoadInv, StmtsInv, LoadFile
    PROVE  LET ss == input.files[nextFile].stmts
               m == Len(stmts)
               k == Len(ss)
           IN  /\ m \in Nat /\ k \in Nat /\ DOMAIN stmts = 1..m /\ DOMAIN ss = 1..k
               /\ stmts' \in Seq(Stmt) /\ Len(stmts') = m + k /\ DOMAIN stmts' = 1..(m + k)
               /\ Sources = 1..m /\ Sources' = 1..(m + k)
               /\ \A i \in 1..m : stmts'[i] = stmts[i]
               /\ \A i \in 1..k : stmts'[m + i] = Loaded(ss[i], nextFile, i)
<1> PICK ss, m, k : ss = input.files[nextFile].stmts /\ m = Len(stmts) /\ k = Len(ss)
  OBVIOUS
<1>1. pc = "load" /\ nextFile \in Nat \ {0} /\ ss \in Seq(Statement)
  BY NewPlacesShape
<1>2. m \in Nat /\ DOMAIN stmts = 1..m
  BY StmtShapes DEF StmtsInv
<1>3. k \in Nat /\ DOMAIN ss = 1..k
  BY <1>1
<1>4. \A i \in 1..m : ~stmts[i].synthesized
  <2>1. \A i \in 1..m : AsLoaded(i)
    BY <1>1, <1>2 DEF StmtsInv, LoadedAsTheyAre, Untouched
  <2> SUFFICES ASSUME NEW i \in 1..m PROVE ~stmts[i].synthesized
    OBVIOUS
  <2>2. stmts[i] = Loaded(Original(i), stmts[i].at[1], stmts[i].at[2])
    BY <2>1 DEF AsLoaded
  <2> QED
    BY <2>2 DEF Loaded
<1> DEFINE added == [i \in 1..k |-> Loaded(ss[i], nextFile, i)]
<1>5. \A i \in 1..k : added[i] \in Stmt /\ ~added[i].synthesized
  <2>1. \A i \in 1..k : ss[i] \in Statement
    BY <1>1, <1>3
  <2> QED
    BY <1>1, <2>1, LoadedIsStmt DEF Loaded
<1>6. added \in Seq(Stmt) /\ Len(added) = k
  <2>1. added \in [1..k -> Stmt]
    BY <1>5
  <2> HIDE DEF added
  <2> QED
    BY <1>3, <2>1
<1>7. stmts' = stmts \o added
  BY <1>3 DEF LoadFile
<1>8. \A i \in 1..k : added[i] = Loaded(ss[i], nextFile, i)
  OBVIOUS
<1> HIDE DEF added
<1>9. /\ stmts' \in Seq(Stmt) /\ Len(stmts') = m + k /\ DOMAIN stmts' = 1..(m + k)
      /\ \A i \in 1..m : stmts'[i] = stmts[i]
      /\ \A i \in 1..k : stmts'[m + i] = added[i]
  <2>1. stmts \in Seq(Stmt)
    BY DEF StmtsInv, Positions
  <2>2. /\ stmts \o added \in Seq(Stmt) /\ Len(stmts \o added) = Len(stmts) + Len(added)
        /\ \A i \in 1..Len(stmts) : (stmts \o added)[i] = stmts[i]
        /\ \A i \in 1..Len(added) : (stmts \o added)[Len(stmts) + i] = added[i]
    <3>1. \A s, t \in Seq(Stmt) :
             /\ s \o t \in Seq(Stmt) /\ Len(s \o t) = Len(s) + Len(t)
             /\ \A i \in 1..Len(s) : (s \o t)[i] = s[i]
             /\ \A i \in 1..Len(t) : (s \o t)[Len(s) + i] = t[i]
      BY Concatenation
    <3>2. PICK s, t : s = stmts /\ t = added
      OBVIOUS
    <3> QED
      BY <1>6, <2>1, <3>1, <3>2
  <2>3. /\ stmts \o added \in Seq(Stmt) /\ Len(stmts \o added) = m + k
        /\ \A i \in 1..m : (stmts \o added)[i] = stmts[i]
        /\ \A i \in 1..k : (stmts \o added)[m + i] = added[i]
    BY <1>2, <1>6, <2>2
  <2>4. DOMAIN (stmts \o added) = 1..(m + k)
    BY <2>3
  <2> QED
    BY <1>7, <2>3, <2>4
<1>10. \A i \in 1..(m + k) : ~stmts'[i].synthesized
  <2>1. \A i \in 1..(m + k) : i \notin 1..m => i - m \in 1..k /\ i = m + (i - m)
    BY <1>2, <1>3
  <2>2. \A i \in 1..m : ~stmts'[i].synthesized
    BY <1>4, <1>9
  <2>3. \A i \in 1..k : ~stmts'[m + i].synthesized
    BY <1>5, <1>9
  <2> QED
    BY <2>1, <2>2, <2>3
<1>11. Sources = 1..m /\ Sources' = 1..(m + k)
  BY <1>2, <1>3, <1>4, <1>9, <1>10 DEF Sources
<1> QED
  BY <1>2, <1>3, <1>8, <1>9, <1>11

LEMMA LoadFileStmts ==
    ASSUME LoadInv, StmtsInv, LoadFile
    PROVE  StmtsInv' /\ OrderIsGood'
<1>1. /\ UNCHANGED <<input, mode, pc, verdict>> /\ pc = "load"
      /\ nextFile \in Nat \ {0}
      /\ input.files[nextFile].stmts \in Seq(Statement)
      /\ LoadedPlaces' = LoadedPlaces \cup NewPlaces
      /\ \A a \in LoadedPlaces : a[1] < nextFile
  BY NewPlacesShape
<1>2. UNCHANGED <<comps, moves, rewritten, order>>
  BY DEF LoadFile
<1>3. PICK ss : ss = input.files[nextFile].stmts
  OBVIOUS
<1> PICK m, k : m = Len(stmts) /\ k = Len(ss)
  OBVIOUS
<1>4. /\ m \in Nat /\ k \in Nat /\ DOMAIN stmts = 1..m /\ DOMAIN ss = 1..k
      /\ stmts' \in Seq(Stmt) /\ Len(stmts') = m + k /\ DOMAIN stmts' = 1..(m + k)
      /\ Sources = 1..m /\ Sources' = 1..(m + k)
      /\ \A i \in 1..m : stmts'[i] = stmts[i]
      /\ \A i \in 1..k : stmts'[m + i] = Loaded(ss[i], nextFile, i)
  BY <1>3, LoadFileAppends
<1>5. DOMAIN ss = 1..k
  BY <1>4
<1>6. \A i \in 1..m : AsLoaded(i) /\ ~stmts[i].synthesized /\ stmts[i].sub = 0
  <2>1. \A i \in 1..m : AsLoaded(i)
    BY <1>1, <1>4 DEF StmtsInv, LoadedAsTheyAre, Untouched
  <2> QED
    BY <2>1 DEF AsLoaded, Loaded
<1>7. Sources = 1..m
  BY <1>4
<1>8. \A i \in 1..m : stmts[i].at \in LoadedPlaces
  BY <1>7 DEF StmtsInv, Positions
<1>9. \A i \in 1..k : ~stmts'[m + i].synthesized /\ stmts'[m + i].sub = 0 /\ stmts'[m + i].at = <<nextFile, i>>
  <2>1. \A i \in 1..k : stmts'[m + i] = Loaded(ss[i], nextFile, i)
    BY <1>4
  <2>2. \A i : LET l == Loaded(ss[i], nextFile, i) IN ~l.synthesized /\ l.sub = 0 /\ l.at = <<nextFile, i>>
    BY DEF Loaded
  <2> QED
    BY <2>1, <2>2
<1>12. /\ stmts' \in Seq(Stmt) /\ Len(stmts') = m + k /\ DOMAIN stmts' = 1..(m + k)
       /\ \A i \in 1..m : stmts'[i] = stmts[i]
  BY <1>4
<1>13. \A i \in 1..(m + k) : i \notin 1..m => i - m \in 1..k /\ i = m + (i - m)
  OBVIOUS
<1>14. \A i \in 1..(m + k) : ~stmts'[i].synthesized /\ stmts'[i].sub = 0 /\ stmts'[i].at \in LoadedPlaces'
  <2>1. \A i \in 1..k : <<nextFile, i>> \in NewPlaces
    BY <1>3, <1>5 DEF NewPlaces
  <2>2. \A i \in 1..m : ~stmts'[i].synthesized /\ stmts'[i].sub = 0 /\ stmts'[i].at \in LoadedPlaces'
    BY <1>1, <1>6, <1>8, <1>12
  <2>3. \A i \in 1..k : ~stmts'[m + i].synthesized /\ stmts'[m + i].sub = 0 /\ stmts'[m + i].at \in LoadedPlaces'
    BY <1>1, <1>9, <2>1
  <2> SUFFICES ASSUME NEW i \in 1..(m + k)
               PROVE  ~stmts'[i].synthesized /\ stmts'[i].sub = 0 /\ stmts'[i].at \in LoadedPlaces'
    OBVIOUS
  <2>4. CASE i \in 1..m
    BY <2>2, <2>4
  <2>5. CASE i \notin 1..m
    <3>1. PICK j \in 1..k : i = m + j
      BY <1>13, <2>5
    <3> QED
      BY <2>3, <3>1
  <2> QED
    BY <2>4, <2>5
<1>15. Sources' = 1..(m + k)
  BY <1>4
<1>16. \A i \in 1..(m + k) : AsLoaded(i)'
  <2>1. \A i \in 1..m : AsLoaded(i)'
    BY <1>1, <1>6, <1>12 DEF AsLoaded, Original, SourceStatement
  <2>2. \A i \in 1..k : AsLoaded(m + i)'
    <3> SUFFICES ASSUME NEW i \in 1..k PROVE AsLoaded(m + i)'
      OBVIOUS
    <3>1. stmts'[m + i] = Loaded(ss[i], nextFile, i) /\ stmts'[m + i].at = <<nextFile, i>>
      BY <1>4, <1>9
    <3>2. stmts'[m + i].at[1] = nextFile /\ stmts'[m + i].at[2] = i
      BY <3>1
    <3>3. Original(m + i)' = ss[i]
      BY <1>1, <1>3, <3>2 DEF Original, SourceStatement
    <3> QED
      BY <3>1, <3>2, <3>3 DEF AsLoaded
  <2> QED
    BY <1>13, <2>1, <2>2
<1>17. Positions'
  <2>1. \A a \in LoadedPlaces' : \E i \in Sources' : stmts'[i].at = a
    <3> SUFFICES ASSUME NEW a \in LoadedPlaces' PROVE \E i \in 1..(m + k) : stmts'[i].at = a
      BY <1>15
    <3>1. CASE a \in LoadedPlaces
      <4>1. PICK i \in 1..m : stmts[i].at = a
        BY <1>7, <3>1 DEF StmtsInv, Positions
      <4> QED
        BY <1>12, <4>1
    <3>2. CASE a \in NewPlaces
      <4>1. PICK i \in 1..k : a = <<nextFile, i>>
        BY <1>3, <1>5, <3>2 DEF NewPlaces
      <4>2. stmts'[m + i].at = a
        BY <1>9, <1>12, <4>1
      <4> QED
        BY <4>2
    <3> QED
      BY <1>1, <3>1, <3>2
  <2>2. \A i, j \in Sources' : stmts'[i].at = stmts'[j].at => i = j
    <3> SUFFICES ASSUME NEW i \in 1..(m + k), NEW j \in 1..(m + k), stmts'[i].at = stmts'[j].at PROVE i = j
      BY <1>15
    <3>1. \A h \in 1..m : stmts'[h].at[1] # nextFile
      <4>1. \A a \in LoadedPlaces : a[1] < nextFile /\ a[1] \in Nat
        BY <1>1 DEF LoadedPlaces
      <4> QED
        BY <1>1, <1>8, <1>12, <4>1
    <3>2. \A h \in 1..(m + k) : h \notin 1..m => stmts'[h].at = <<nextFile, h - m>>
      BY <1>9, <1>12, <1>13
    <3>3. CASE i \in 1..m /\ j \in 1..m
      BY <1>7, <1>12, <3>3 DEF StmtsInv, Positions
    <3>4. CASE i \notin 1..m /\ j \notin 1..m
      BY <3>2, <3>4
    <3> QED
      BY <3>1, <3>2, <3>3, <3>4
  <2>3. m + k \in Nat /\ m + k <= Len(stmts')
    BY <1>12, <1>4
  <2>4. \E n \in Nat : n <= Len(stmts') /\ Sources' = 1..n
    BY <1>15, <2>3
  <2>5. \A i \in Sources' : stmts'[i].at \in LoadedPlaces' /\ stmts'[i].sub = 0
    BY <1>14, <1>15
  <2>6. \A j \in DOMAIN stmts' : \E i \in Sources' : stmts'[i].at = stmts'[j].at
    BY <1>12, <1>15
  <2>7. stmts' \in Seq(Stmt)
    BY <1>12
  <2> QED
    BY <2>1, <2>2, <2>4, <2>5, <2>6, <2>7 DEF Positions
<1>18. ~Touched' /\ ~Built'
  BY <1>1 DEF Touched, Broken, Built
<1>19. LoadedAsTheyAre' /\ CyclesAreTheirs'
  BY <1>1, <1>2, <1>12, <1>16 DEF StmtsInv, LoadedAsTheyAre, CyclesAreTheirs
<1> QED
  BY <1>1, <1>17, <1>18, <1>19, NotTouched DEF OrderIsGood

-----------------------------------------------------------------------------
(* Cycles are found *)

\* The graph of the files.
LEMMA SourceGraph ==
    ASSUME Positions, NEW n, n = Cardinality(SourcePlaces)
    PROVE  /\ n \in Nat /\ Sources = 1..n /\ SourceAdj \in [1..n -> SUBSET (1..n)]
           /\ \A i \in 1..n : i \notin SourceAdj[i]
           /\ DOMAIN SourceNodes.name = 1..n /\ Len(SourceNodes.name) = n
           /\ \A i \in 1..n : SourceNodes.name[i] = Original(i).name
           /\ \A i \in 1..n : \A j \in SourceAdj[i] :
                 SourceNodes.name[j] \in Deps(Original(i)) /\ Graph(n)!WinsName(SourceNodes, j)
           /\ \A i : SourceCycle(i) = Graph(n)!CycleMates(SourceAdj, i)
<1>1. n \in Nat /\ Sources = 1..n
  BY SourcesAreCounted
<1>2. SourceStmts = [i \in 1..n |-> Loaded(Original(i), stmts[i].at[1], stmts[i].at[2])]
  BY DEF SourceStmts
<1>3. /\ SourceNodes.name = [i \in 1..n |-> Original(i).name]
      /\ SourceNodes.deps = [i \in 1..n |-> Deps(Original(i))]
  BY <1>2 DEF SourceNodes, GraphNodes, Loaded
<1>4. SourceAdj = [i \in 1..n |-> Graph(n)!Targets(SourceNodes, i)]
  BY DEF SourceAdj, Edges
<1>5. \A i \in 1..n : /\ Graph(n)!Targets(SourceNodes, i) \subseteq 1..n
                      /\ i \notin Graph(n)!Targets(SourceNodes, i)
                      /\ \A j \in Graph(n)!Targets(SourceNodes, i) :
                            /\ SourceNodes.name[j] \in SourceNodes.deps[i]
                            /\ Graph(n)!WinsName(SourceNodes, j)
  BY DEF Graph!Targets, Graph!Node
<1>6. \A i : SourceCycle(i) = Graph(n)!CycleMates(SourceAdj, i)
  BY DEF SourceCycle, SourceAdj, SourceNodes, SourceStmts, Original
<1>7. Len(SourceNodes.name) = n
  BY <1>1, <1>3
<1> QED
  BY <1>1, <1>3, <1>4, <1>5, <1>6, <1>7

\* The members of a cycle have it in common.
LEMMA CyclesAgree ==
    ASSUME Positions, NEW i \in Sources, NEW j \in SourceCycle(i)
    PROVE  j \in Sources /\ i \in SourceCycle(i) /\ SourceCycle(j) = SourceCycle(i)
<1>1. PICK n : n = Cardinality(SourcePlaces)
  OBVIOUS
<1>2. /\ n \in Nat /\ Sources = 1..n /\ SourceAdj \in [1..n -> SUBSET (1..n)]
      /\ \A h : SourceCycle(h) = Graph(n)!CycleMates(SourceAdj, h)
  BY <1>1, SourceGraph
<1> QED
  BY <1>2, MatesAgree

LEMMA FindCyclesStmts ==
    ASSUME StmtsInv, FindCycles
    PROVE  StmtsInv' /\ OrderIsGood'
<1>1. /\ UNCHANGED <<input, mode, nextFile, stmts, nodes, adj, moves, rewritten, order, verdict>>
      /\ pc = "components" /\ pc' = "break"
  BY DEF FindCycles
<1>2. LoadedPlaces' = LoadedPlaces
  BY <1>1 DEF LoadedPlaces
<1>3. Positions /\ Positions' /\ Sources' = Sources /\ SourcePlaces' = SourcePlaces
  BY <1>1, <1>2, SameStmts DEF StmtsInv
<1>4. /\ nodes = SourceNodes /\ adj = SourceAdj /\ moves = {} /\ rewritten = << >> /\ order = << >>
      /\ \A i \in DOMAIN stmts : AsLoaded(i)
  BY <1>1 DEF StmtsInv, CyclesAreTheirs, LoadedAsTheyAre, Untouched
<1>5. /\ \A i \in Sources : /\ Original(i)' = Original(i)
                            /\ SourceCycle(i)' = SourceCycle(i)
                            /\ InCycle(i)' <=> InCycle(i)
                            /\ CanSplit(i)' <=> CanSplit(i)
      /\ SourceNodes' = SourceNodes /\ SourceAdj' = SourceAdj
  BY <1>1, <1>3, SameSources
<1>6. Sources = DOMAIN stmts /\ Len(stmts) \in Nat /\ DOMAIN stmts = 1..Len(stmts)
  BY <1>3, <1>4, StmtShapes DEF Sources, AsLoaded, Loaded
<1>7. Len(stmts) = Cardinality(SourcePlaces)
  BY <1>3, <1>6, SourcesAreCounted
<1>8. comps' = {SourceCycle(i) : i \in {j \in Sources : SourceCycle(j) # {j}}}
  BY <1>3, <1>4, <1>6, <1>7, SourceGraph DEF FindCycles
<1>9. \A C \in comps' : \A i \in C : InCycle(i) /\ SourceCycle(i) = C
  <2> SUFFICES ASSUME NEW h \in Sources, SourceCycle(h) # {h}, NEW i \in SourceCycle(h)
               PROVE  InCycle(i) /\ SourceCycle(i) = SourceCycle(h)
    BY <1>8
  <2> QED
    BY <1>3, CyclesAgree DEF InCycle
<1>10. CyclesAreTheirs'
  <2>1. \A C \in comps' : \A i \in C : InCycle(i)' /\ SourceCycle(i)' = C
    BY <1>5, <1>9 DEF InCycle
  <2> QED
    BY <1>1, <1>4, <1>5, <2>1 DEF CyclesAreTheirs
<1>11. LoadedAsTheyAre'
  BY <1>1, <1>3, <1>4, <1>5 DEF LoadedAsTheyAre, AsLoaded, Original, SourceStatement
<1>12. OnlyCyclesAreSplit'
  BY <1>1, <1>3, <1>4, <1>6 DEF OnlyCyclesAreSplit
<1>13. ~Broken'
  BY <1>1 DEF Broken, Built
<1>14. TextsAreTheirs'
  <2>1. \A i \in Sources : stmts[i].src = Original(i)
    BY <1>4, <1>6 DEF AsLoaded, Loaded
  <2> QED
    BY <1>1, <1>3, <1>5, <1>13, <2>1 DEF TextsAreTheirs
<1>15. KeysAreDistinct'
  <2>1. \A i \in DOMAIN stmts : stmts[i].sub = 0
    BY <1>4, <1>6 DEF AsLoaded, Loaded
  <2>2. \A i, j \in DOMAIN stmts : stmts[i].at = stmts[j].at => i = j
    BY <1>3, <1>6 DEF Positions
  <2> QED
    BY <1>1, <1>3, <1>6, <2>1, <2>2 DEF KeysAreDistinct
<1>16. DepsAreKept'
  <2>1. \A i \in Sources : \A r \in DepRefs(stmts[i].src) : r.name \in stmts[i].deps
    BY <1>4, <1>6 DEF AsLoaded, Loaded, Deps
  <2> QED
    BY <1>1, <1>3, <2>1 DEF DepsAreKept
<1> QED
  BY <1>1, <1>3, <1>4, <1>10, <1>11, <1>12, <1>13, <1>14, <1>15, <1>16
     DEF StmtsInv, OrderIsGood, Broken

-----------------------------------------------------------------------------
(* Cycles are broken *)

\* The statements keep their places.
LEMMA SamePlaces ==
    ASSUME Positions, UNCHANGED <<input, nextFile>>,
           stmts' \in Seq(Stmt), DOMAIN stmts' = DOMAIN stmts,
           \A i \in DOMAIN stmts : /\ stmts'[i].at = stmts[i].at /\ stmts'[i].sub = stmts[i].sub
                                   /\ stmts'[i].synthesized = stmts[i].synthesized
    PROVE  Positions' /\ Sources' = Sources /\ SourcePlaces' = SourcePlaces
<1>1. LoadedPlaces' = LoadedPlaces
  BY DEF LoadedPlaces
<1>2. Sources' = Sources /\ SourcePlaces' = SourcePlaces
  BY DEF Sources, SourcePlaces
<1>3. Len(stmts') = Len(stmts)
  <2>1. stmts \in Seq(Stmt)
    BY DEF Positions
  <2> QED
    BY <2>1
<1>4. Sources \subseteq DOMAIN stmts
  BY DEF Sources
<1>5. \E n \in Nat : n <= Len(stmts') /\ Sources' = 1..n
  BY <1>2, <1>3 DEF Positions
<1>6. /\ \A i \in Sources : stmts[i].at \in LoadedPlaces /\ stmts[i].sub = 0
      /\ \A a \in LoadedPlaces : \E i \in Sources : stmts[i].at = a
      /\ \A j \in DOMAIN stmts : \E i \in Sources : stmts[i].at = stmts[j].at
      /\ \A i, j \in Sources : stmts[i].at = stmts[j].at => i = j
  BY DEF Positions
<1>7. /\ \A i \in Sources' : stmts'[i].at \in LoadedPlaces' /\ stmts'[i].sub = 0
      /\ \A a \in LoadedPlaces' : \E i \in Sources' : stmts'[i].at = a
      /\ \A j \in DOMAIN stmts' : \E i \in Sources' : stmts'[i].at = stmts'[j].at
      /\ \A i, j \in Sources' : stmts'[i].at = stmts'[j].at => i = j
  BY <1>1, <1>2, <1>4, <1>6
<1> QED
  BY <1>2, <1>5, <1>7 DEF Positions

\* What holds of the files while components are being broken.
LEMMA WhileBreaking ==
    ASSUME StmtsInv, pc = "break", mode # "graph"
    PROVE  /\ Positions /\ nodes = SourceNodes /\ adj = SourceAdj /\ Touched /\ ~Broken
           /\ \A i \in Sources : stmts[i].src = Original(i)
           /\ \A C \in comps : \A i \in C : i \in Sources /\ i \in DOMAIN stmts /\ InCycle(i) /\ SourceCycle(i) = C
           /\ DOMAIN rewritten \subseteq Sources
           /\ \A i \in Sources : Original(i) \in Statement
<1>1. Touched /\ ~Broken
  BY DEF Touched, Broken, Built
<1>2. \A i \in Sources : stmts[i].src = Original(i) /\ stmts[i] \in Stmt
  BY <1>1, StmtShapes DEF StmtsInv, TextsAreTheirs
<1>3. \A i \in Sources : Original(i) \in Statement
  BY <1>2 DEF Stmt
<1>4. \A C \in comps : \A i \in C : i \in Sources /\ i \in DOMAIN stmts /\ InCycle(i) /\ SourceCycle(i) = C
  BY DEF StmtsInv, CyclesAreTheirs, InCycle, Sources
<1>5. DOMAIN rewritten \subseteq Sources
  BY <1>1 DEF StmtsInv, OnlyCyclesAreSplit, CanSplit, InCycle
<1> QED
  BY <1>1, <1>2, <1>3, <1>4, <1>5 DEF StmtsInv, CyclesAreTheirs

\* A member of a breakable component is a table: its own edge inside the
\* component comes from a CREATE TABLE.
LEMMA MembersAreTables ==
    ASSUME Positions, nodes = SourceNodes, NEW j \in Sources, InCycle(j),
           AllForeignKeys(SourceCycle(j)), stmts[j].src = Original(j)
    PROVE  Original(j).kind = "table"
<1>1. PICK n : n = Cardinality(SourcePlaces)
  OBVIOUS
<1>2. /\ n \in Nat /\ Sources = 1..n /\ SourceAdj \in [1..n -> SUBSET (1..n)]
      /\ j \notin SourceAdj[j] /\ Len(SourceNodes.name) = n
      /\ \A x \in SourceAdj[j] : SourceNodes.name[x] \in Deps(Original(j)) /\ Graph(n)!WinsName(SourceNodes, x)
      /\ \A h : SourceCycle(h) = Graph(n)!CycleMates(SourceAdj, h)
  BY <1>1, SourceGraph
<1>3. SourceCycle(j) # {j}
  BY DEF InCycle
<1>4. PICK x \in SourceAdj[j] : x \in SourceCycle(j)
  BY <1>2, <1>3, EdgeInside
<1>5. x # j /\ SourceNodes.name[x] \in Deps(Original(j)) /\ Graph(n)!WinsName(SourceNodes, x)
  BY <1>2, <1>4
<1>6. PICK r \in DepRefs(Original(j)) : r.name = SourceNodes.name[x]
  BY <1>5 DEF Deps
<1>7. x \in ResolvesIn(SourceCycle(j), j, r.name)
  BY <1>2, <1>4, <1>5, <1>6 DEF ResolvesIn
<1>8. j \in SourceCycle(j)
  BY <1>2 DEF Graph!CycleMates
<1> QED
  BY <1>6, <1>7, <1>8 DEF AllForeignKeys

\* A reference that SQLite resolves late.
LEMMA DroppedAreLazy ==
    ASSUME Positions, nodes = SourceNodes, input.dialect = "sqlite",
           \A h \in Sources : stmts[h].src = Original(h),
           NEW i \in Sources, InCycle(i), NEW C, C = SourceCycle(i), AllForeignKeys(C),
           NEW r \in DepRefs(stmts[i].src), ResolvesIn(C, i, r.name) # {}
    PROVE  Lazy(i, r)
<1>1. PICK n : n = Cardinality(SourcePlaces)
  OBVIOUS
<1>2. /\ n \in Nat /\ Sources = 1..n /\ Len(SourceNodes.name) = n
      /\ \A h \in 1..n : SourceNodes.name[h] = Original(h).name
      /\ \A h : SourceCycle(h) = Graph(n)!CycleMates(SourceAdj, h)
  BY <1>1, SourceGraph
<1>3. PICK j \in C \ {i} : SourceNodes.name[j] = r.name /\ Graph(n)!WinsName(SourceNodes, j)
  BY <1>2 DEF ResolvesIn
<1>4. j \in Sources /\ SourceCycle(j) = C /\ i \in C
  BY <1>3, CyclesAgree
<1>5. InCycle(j)
  BY <1>3, <1>4 DEF InCycle
<1>6. Original(j).kind = "table"
  BY <1>4, <1>5, MembersAreTables
<1>7. \A k \in Sources : Original(k).name = r.name => k <= j
  BY <1>2, <1>3, <1>4 DEF Graph!WinsName, Graph!Node
<1>8. ASSUME NEW k \in Sources, Original(k).name = r.name, \A h \in Sources : Original(h).name = r.name => h <= k
      PROVE  Original(k).kind = "table"
  <2>1. j <= k /\ k <= j
    BY <1>2, <1>3, <1>4, <1>7, <1>8
  <2>2. k = j
    BY <1>2, <1>4, <2>1
  <2> QED
    BY <1>6, <2>2
<1>9. i \in C /\ stmts[i].src.kind = "table" /\ r.kind = "auto"
  BY <1>4 DEF AllForeignKeys
<1> QED
  BY <1>8, <1>9 DEF Lazy

\* The statements of a component forget their references inside it.
LEMMA DropStmts ==
    ASSUME StmtsInv, OrderIsGood, DropEdgesSQLite, mode # "graph"
    PROVE  StmtsInv' /\ OrderIsGood'
<1>1. /\ UNCHANGED <<input, mode, pc, nextFile, nodes, adj, moves, rewritten, order, verdict>>
      /\ pc = "break" /\ input.dialect = "sqlite"
  BY DEF DropEdgesSQLite
<1>2. PICK C \in comps :
         /\ AllForeignKeys(C)
         /\ comps' = comps \ {C}
         /\ stmts' = [i \in DOMAIN stmts |->
                IF i \in C
                THEN [stmts[i] EXCEPT !.deps = {n \in @ : ResolvesIn(C, i, n) = {}}]
                ELSE stmts[i]]
  BY DEF DropEdgesSQLite
<1>3. /\ Positions /\ nodes = SourceNodes /\ adj = SourceAdj /\ Touched /\ ~Broken
      /\ \A i \in Sources : stmts[i].src = Original(i)
      /\ \A D \in comps : \A i \in D : i \in Sources /\ i \in DOMAIN stmts /\ InCycle(i) /\ SourceCycle(i) = D
  BY <1>1, WhileBreaking
<1>4. /\ Len(stmts) \in Nat /\ DOMAIN stmts = 1..Len(stmts) /\ \A i \in DOMAIN stmts : stmts[i] \in Stmt
  BY <1>3, StmtShapes
<1>5. DOMAIN stmts' = DOMAIN stmts
  BY <1>2
<1>6. ASSUME NEW i \in DOMAIN stmts
      PROVE  /\ stmts'[i].at = stmts[i].at /\ stmts'[i].sub = stmts[i].sub /\ stmts'[i].src = stmts[i].src
             /\ stmts'[i].synthesized = stmts[i].synthesized /\ stmts'[i] \in Stmt
             /\ i \notin C => stmts'[i] = stmts[i]
             /\ i \in C => stmts'[i].deps = {n \in stmts[i].deps : ResolvesIn(C, i, n) = {}}
  <2>1. stmts[i] \in Stmt
    BY <1>4
  <2>2. CASE i \in C
    <3>1. stmts'[i] = [stmts[i] EXCEPT !.deps = {n \in stmts[i].deps : ResolvesIn(C, i, n) = {}}]
      BY <1>2, <2>2
    <3>2. {n \in stmts[i].deps : ResolvesIn(C, i, n) = {}} \subseteq Name
      BY <2>1 DEF Stmt
    <3> QED
      BY <2>1, <2>2, <3>1, <3>2 DEF Stmt
  <2>3. CASE i \notin C
    BY <1>2, <2>1, <2>3
  <2> QED
    BY <2>2, <2>3
<1>7. stmts' \in Seq(Stmt)
  <2>1. PICK n \in Nat : n = Len(stmts) /\ DOMAIN stmts = 1..n
    BY <1>4
  <2>2. \A i \in 1..n : stmts'[i] \in Stmt
    BY <1>6, <2>1
  <2>3. stmts' = [i \in 1..n |-> stmts'[i]]
    BY <1>2, <2>1
  <2>4. stmts' \in [1..n -> Stmt]
    BY <2>2, <2>3
  <2> QED
    BY <2>4
<1>8. Positions' /\ Sources' = Sources /\ SourcePlaces' = SourcePlaces
  BY <1>1, <1>3, <1>5, <1>6, <1>7, SamePlaces
<1>9. Sources \subseteq DOMAIN stmts
  BY DEF Sources
<1>10. /\ \A i \in Sources : /\ Original(i)' = Original(i)
                             /\ SourceCycle(i)' = SourceCycle(i)
                             /\ InCycle(i)' <=> InCycle(i)
                             /\ CanSplit(i)' <=> CanSplit(i)
       /\ SourceNodes' = SourceNodes /\ SourceAdj' = SourceAdj
  BY <1>1, <1>3, <1>6, <1>8, <1>9, SameSources
<1>11. Touched' /\ ~Broken'
  BY <1>1, <1>3 DEF Touched, Broken, Built
<1>12. LoadedAsTheyAre' /\ CyclesAreTheirs'
  BY <1>1, <1>2, <1>3, <1>10 DEF LoadedAsTheyAre, Untouched, CyclesAreTheirs, InCycle, StmtsInv
<1>13. OnlyCyclesAreSplit'
  <2>1. \A j \in DOMAIN stmts \ Sources : j \notin C
    BY <1>3
  <2>2. \A i \in Sources, j \in DOMAIN stmts \ Sources : AddedTo(j, i) => AddedTo(j, i)'
    BY <1>6, <1>9, <1>10, <2>1 DEF AddedTo
  <2>3. \A i \in Sources : CanSplit(i)' <=> CanSplit(i)
    BY <1>10
  <2>4. \A i : CanSplit(i) => i \in Sources
    BY DEF CanSplit, InCycle
  <2>5. /\ \A mv \in moves : CanSplit(mv.of) /\ mv.target \in Name /\ mv.subN \in Nat
        /\ \A i \in DOMAIN rewritten :
              CanSplit(i) /\ rewritten[i] \in Seq(Item) /\ rewritten[i] # Original(i).items
        /\ \A j \in DOMAIN stmts \ Sources : \E i \in Sources : CanSplit(i) /\ AddedTo(j, i)
    BY <1>3 DEF StmtsInv, OnlyCyclesAreSplit
  <2>6. /\ \A mv \in moves' : CanSplit(mv.of)' /\ mv.target \in Name /\ mv.subN \in Nat
        /\ \A i \in DOMAIN rewritten' :
              CanSplit(i)' /\ rewritten'[i] \in Seq(Item) /\ rewritten'[i] # Original(i)'.items
    BY <1>1, <1>10, <2>3, <2>4, <2>5
  <2>7. \A j \in DOMAIN stmts' \ Sources' : \E i \in Sources' : CanSplit(i)' /\ AddedTo(j, i)'
    BY <1>5, <1>8, <2>2, <2>3, <2>5
  <2> QED
    BY <2>6, <2>7 DEF OnlyCyclesAreSplit
<1>14. TextsAreTheirs'
  BY <1>3, <1>6, <1>8, <1>9, <1>10, <1>11 DEF TextsAreTheirs
<1>15. KeysAreDistinct'
  BY <1>3, <1>5, <1>6, <1>8, <1>9 DEF StmtsInv, KeysAreDistinct
<1>16. DepsAreKept'
  <2> SUFFICES ASSUME NEW i \in Sources, NEW r \in DepRefs(stmts[i].src)
               PROVE  r.name \in stmts'[i].deps \/ Lazy(i, r)'
    BY <1>6, <1>8, <1>9 DEF DepsAreKept
  <2>1. Lazy(i, r)' <=> Lazy(i, r)
    BY <1>1, <1>8, <1>10 DEF Lazy
  <2>2. r.name \in stmts[i].deps \/ Lazy(i, r)
    BY <1>3 DEF StmtsInv, DepsAreKept
  <2>3. CASE i \notin C
    BY <1>6, <1>9, <2>1, <2>2, <2>3
  <2>4. CASE i \in C /\ ResolvesIn(C, i, r.name) # {}
    BY <1>1, <1>2, <1>3, <2>1, <2>4, DroppedAreLazy
  <2>5. CASE i \in C /\ ResolvesIn(C, i, r.name) = {}
    BY <1>6, <1>9, <2>1, <2>2, <2>5
  <2> QED
    BY <2>3, <2>4, <2>5
<1>17. OrderIsGood'
  <2>1. order' = << >>
    BY <1>1 DEF OrderIsGood
  <2>2. ~Built' /\ pc' = "break"
    BY <1>1 DEF Built
  <2> QED
    BY <1>1, <2>1, <2>2 DEF OrderIsGood
<1> QED
  BY <1>8, <1>12, <1>13, <1>14, <1>15, <1>16, <1>17 DEF StmtsInv

-----------------------------------------------------------------------------
(* Splitting tables *)

\* The items that Remove leaves.
Left(items, E) ==
    {k \in DOMAIN items : \/ k \notin E
                          \/ items[k].form = "inline"
                          \/ SkippedByRemove(items, E, k)}
Rank(S, k) == Cardinality({h \in S : h <= k})

\* The members of a finite set of numbers have ranks.
LEMMA RanksAreTaken ==
    ASSUME NEW n \in Nat, NEW S \in SUBSET (1..n), NEW j \in 1..Cardinality(S)
    PROVE  \E k \in S : Rank(S, k) = j
<1>1. IsFiniteSet(1..n)
  BY FS_Interval
<1>2. IsFiniteSet(S) /\ Cardinality(S) \in Nat
  BY <1>1, FS_Subset, FS_CardinalityType
<1>3. \A k \in S : Rank(S, k) \in 1..Cardinality(S)
  <2> SUFFICES ASSUME NEW k \in S PROVE Rank(S, k) \in 1..Cardinality(S)
    OBVIOUS
  <2>1. PICK T : T = {h \in S : h <= k}
    OBVIOUS
  <2>2. T \in SUBSET S /\ k \in T
    BY <2>1
  <2>3. IsFiniteSet(T) /\ Cardinality(T) <= Cardinality(S) /\ Cardinality(T) \in Nat
    BY <1>2, <2>2, FS_Subset, FS_CardinalityType
  <2>4. Cardinality(T) # 0
    BY <2>2, <2>3, FS_EmptySet
  <2>5. Rank(S, k) = Cardinality(T)
    BY <2>1 DEF Rank
  <2> QED
    BY <1>2, <2>3, <2>4, <2>5
<1>4. ASSUME NEW k \in S, NEW m \in S, k < m PROVE Rank(S, k) < Rank(S, m)
  <2>1. PICK T : T = {h \in S : h <= k}
    OBVIOUS
  <2>2. PICK U : U = {h \in S : h <= m}
    OBVIOUS
  <2>3. T \in SUBSET U /\ U \in SUBSET S /\ m \in U /\ m \notin T
    <3>1. k \in Int /\ m \in Int /\ \A h \in S : h \in Int
      OBVIOUS
    <3>2. \A h \in S : h <= k => h <= m
      BY <1>4, <3>1
    <3>3. m <= m /\ ~(m <= k)
      BY <1>4, <3>1
    <3> QED
      BY <2>1, <2>2, <3>2, <3>3
  <2>4. IsFiniteSet(U)
    BY <1>2, <2>3, FS_Subset
  <2>5. Cardinality(T) <= Cardinality(U) /\ Cardinality(T) # Cardinality(U)
    BY <2>3, <2>4, FS_Subset
  <2>6. Cardinality(T) \in Nat /\ Cardinality(U) \in Nat
    BY <2>3, <2>4, FS_Subset, FS_CardinalityType
  <2> QED
    BY <2>1, <2>2, <2>5, <2>6 DEF Rank
<1>5. \A k, m \in S : Rank(S, k) = Rank(S, m) => k = m
  <2>1. \A k \in S : Rank(S, k) \in Nat
    BY <1>3
  <2>2. \A k, m \in S : k < m \/ m < k \/ k = m
    OBVIOUS
  <2> QED
    BY <1>4, <2>1, <2>2
<1> DEFINE f == [k \in S |-> Rank(S, k)]
<1>6. f \in Injection(S, 1..Cardinality(S))
  BY <1>3, <1>5 DEF Injection, IsInjective
<1>7. IsFiniteSet(1..Cardinality(S)) /\ Cardinality(1..Cardinality(S)) = Cardinality(S)
  BY <1>2, FS_Interval
<1>8. f \in Surjection(S, 1..Cardinality(S))
  BY <1>6, <1>7, FS_Injection
<1> QED
  BY <1>8 DEF Surjection

\* What Remove returns is a list, and not the list it was given.
LEMMA RemoveShape ==
    ASSUME NEW items \in Seq(Item), NEW E \in SUBSET (DOMAIN items)
    PROVE  /\ Remove(items, E) \in Seq(Item)
           /\ (E # {} /\ \A k \in E : items[k].form \in {"inline", "table"}) => Remove(items, E) # items
<1>1. PICK n \in Nat : n = Len(items) /\ DOMAIN items = 1..n
  OBVIOUS
<1>2. PICK S : S = Left(items, E)
  OBVIOUS
<1>3. S \in SUBSET (1..n)
  BY <1>1, <1>2 DEF Left
<1>4. PICK c : c = Cardinality(S)
  OBVIOUS
<1>5. IsFiniteSet(1..n) /\ Cardinality(1..n) = n
  BY FS_Interval
<1>6. c \in Nat /\ IsFiniteSet(S)
  BY <1>3, <1>4, <1>5, FS_Subset, FS_CardinalityType
<1> DEFINE nth(j) == CHOOSE k \in S : Rank(S, k) = j
<1>7. \A j \in 1..c : nth(j) \in S /\ Rank(S, nth(j)) = j
  BY <1>3, <1>4, RanksAreTaken
<1>8. Remove(items, E) = [j \in 1..c |-> IF nth(j) \in E /\ items[nth(j)].form = "inline" THEN Plain ELSE items[nth(j)]]
  BY <1>2, <1>4 DEF Remove, Left, Rank
<1> HIDE DEF nth
<1>9. \A k \in 1..n : items[k] \in Item
  BY <1>1
<1>10. Plain \in Item
  BY DEF Plain, Item
<1>11. Remove(items, E) \in Seq(Item)
  <2>1. \A j \in 1..c : (IF nth(j) \in E /\ items[nth(j)].form = "inline" THEN Plain ELSE items[nth(j)]) \in Item
    BY <1>3, <1>7, <1>9, <1>10
  <2> QED
    BY <1>6, <1>8, <2>1
<1>12. ASSUME E # {}, \A k \in E : items[k].form \in {"inline", "table"}, Remove(items, E) = items
       PROVE  FALSE
  <2>1. 1..c = 1..n
    BY <1>1, <1>8, <1>12
  <2>2. c = n
    BY <1>1, <1>6, <2>1
  <2>3. S = 1..n
    BY <1>3, <1>4, <1>5, <2>2, FS_Subset
  <2>4. \A k \in 1..n : Rank(S, k) = k
    <3> SUFFICES ASSUME NEW k \in 1..n PROVE Rank(S, k) = k
      OBVIOUS
    <3>1. {h \in S : h <= k} = 1..k
      BY <2>3
    <3>2. Cardinality(1..k) = k
      BY FS_Interval
    <3> QED
      BY <3>1, <3>2 DEF Rank
  <2>5. \A k \in 1..n : nth(k) = k
    BY <1>3, <1>7, <2>2, <2>4
  <2>6. ASSUME NEW k \in E PROVE items[k].form = "table" /\ SkippedByRemove(items, E, k)
    <3>1. k \in 1..n /\ k \in S
      BY <1>1, <2>3
    <3>2. items[k] = (IF k \in E /\ items[k].form = "inline" THEN Plain ELSE items[k])
      BY <1>8, <1>12, <2>2, <2>5, <3>1
    <3>3. items[k].form # "inline"
      BY <2>6, <3>2 DEF Plain
    <3> QED
      BY <1>2, <1>12, <2>6, <3>1, <3>3 DEF Left
  <2>7. PICK k \in E : TRUE
    BY <1>12
  <2>8. k = n /\ k - 1 \in E
    BY <1>1, <2>6 DEF SkippedByRemove
  <2>9. k - 1 = n
    BY <1>1, <2>6, <2>8 DEF SkippedByRemove
  <2> QED
    BY <2>8, <2>9
<1> QED
  BY <1>11, <1>12

\* The tables of a component are to be rewritten.
LEMMA SplitStmts ==
    ASSUME StmtsInv, OrderIsGood, SplitComponent, mode # "graph"
    PROVE  StmtsInv' /\ OrderIsGood'
<1>1. /\ UNCHANGED <<input, mode, pc, nextFile, stmts, nodes, adj, order, verdict>>
      /\ pc = "break" /\ input.dialect # "sqlite"
  BY DEF SplitComponent, Splits
<1>2. PICK C \in comps :
         /\ comps' = comps \ {C} /\ moves' = MovesOf(C)
         /\ rewritten' = [i \in DOMAIN rewritten \cup {j \in C : ToExtract(C, j) # {}} |->
                IF i \in DOMAIN rewritten
                THEN rewritten[i]
                ELSE Remove(stmts[i].src.items, ToExtract(C, i))]
  BY DEF SplitComponent
<1>3. /\ Positions /\ nodes = SourceNodes /\ adj = SourceAdj /\ Touched /\ ~Broken
      /\ \A i \in Sources : stmts[i].src = Original(i) /\ Original(i) \in Statement
      /\ \A D \in comps : \A i \in D : i \in Sources /\ InCycle(i) /\ SourceCycle(i) = D
  BY <1>1, WhileBreaking
<1>4. LoadedPlaces' = LoadedPlaces
  BY <1>1 DEF LoadedPlaces
<1>5. Positions' /\ Sources' = Sources /\ SourcePlaces' = SourcePlaces
  BY <1>1, <1>3, <1>4, SameStmts
<1>6. /\ \A i \in Sources : /\ Original(i)' = Original(i)
                            /\ SourceCycle(i)' = SourceCycle(i)
                            /\ InCycle(i)' <=> InCycle(i)
                            /\ CanSplit(i)' <=> CanSplit(i)
      /\ SourceNodes' = SourceNodes /\ SourceAdj' = SourceAdj
  BY <1>1, <1>3, <1>5, SameSources
<1>7. Touched' /\ ~Broken'
  BY <1>1, <1>3 DEF Touched, Broken, Built
<1>8. LoadedAsTheyAre' /\ CyclesAreTheirs'
  BY <1>1, <1>2, <1>3, <1>6 DEF LoadedAsTheyAre, Untouched, CyclesAreTheirs, InCycle, StmtsInv
<1>9. \A i \in C : i \in Sources /\ CanSplit(i) /\ Original(i).items \in Seq(Item)
  BY <1>1, <1>2, <1>3 DEF CanSplit, Statement
<1>10. ASSUME NEW i \in C
       PROVE  /\ ToExtract(C, i) \subseteq DOMAIN Original(i).items
              /\ \A k \in ToExtract(C, i) : Original(i).items[k].form \in {"inline", "table"}
  <2>1. stmts[i].src = Original(i)
    BY <1>3, <1>9
  <2> QED
    BY <2>1 DEF ToExtract, Clauses
<1>11. ASSUME NEW i \in DOMAIN rewritten'
       PROVE  CanSplit(i)' /\ rewritten'[i] \in Seq(Item) /\ rewritten'[i] # Original(i)'.items
  <2>1. CASE i \in DOMAIN rewritten
    <3>1. CanSplit(i) /\ rewritten[i] \in Seq(Item) /\ rewritten[i] # Original(i).items
      BY <1>3, <2>1 DEF StmtsInv, OnlyCyclesAreSplit
    <3>2. i \in Sources
      BY <3>1 DEF CanSplit, InCycle
    <3>3. rewritten'[i] = rewritten[i]
      BY <1>2, <2>1
    <3> QED
      BY <1>6, <3>1, <3>2, <3>3
  <2>2. CASE i \notin DOMAIN rewritten
    <3>1. i \in C /\ ToExtract(C, i) # {} /\ rewritten'[i] = Remove(stmts[i].src.items, ToExtract(C, i))
      BY <1>2, <2>2
    <3>2. i \in Sources /\ stmts[i].src = Original(i) /\ CanSplit(i) /\ Original(i).items \in Seq(Item)
      BY <1>3, <1>9, <3>1
    <3>3. /\ Remove(Original(i).items, ToExtract(C, i)) \in Seq(Item)
          /\ Remove(Original(i).items, ToExtract(C, i)) # Original(i).items
      BY <1>10, <3>1, <3>2, RemoveShape
    <3> QED
      BY <1>6, <3>1, <3>2, <3>3
  <2> QED
    BY <2>1, <2>2
<1>12. ASSUME NEW mv \in moves' PROVE CanSplit(mv.of)' /\ mv.target \in Name /\ mv.subN \in Nat
  <2> DEFINE Move(i, k) == [of |-> i, clause |-> k, target |-> stmts[i].src.items[k].target,
                            subN |-> Cardinality({j \in ToExtract(C, i) : j < k})]
  <2>0. PICK i \in C : \E k \in ToExtract(C, i) : mv = Move(i, k)
    BY <1>2 DEF MovesOf
  <2>1. PICK k \in ToExtract(C, i) : mv = Move(i, k)
    BY <2>0
  <2>2. i \in Sources /\ CanSplit(i) /\ Original(i).items \in Seq(Item) /\ stmts[i].src = Original(i)
    BY <1>3, <1>9
  <2>3. k \in DOMAIN Original(i).items
    BY <1>10
  <2>4. Original(i).items[k] \in Item
    BY <2>2, <2>3
  <2>5. IsFiniteSet(DOMAIN Original(i).items)
    <3>1. PICK n \in Nat : DOMAIN Original(i).items = 1..n
      BY <2>2
    <3> QED
      BY <3>1, FS_Interval
  <2>6. {j \in ToExtract(C, i) : j < k} \in SUBSET (DOMAIN Original(i).items)
    BY <1>10
  <2>7. Cardinality({j \in ToExtract(C, i) : j < k}) \in Nat
    BY <2>5, <2>6, FS_Subset, FS_CardinalityType
  <2>8. Original(i).items[k].form \in {"inline", "table"}
    BY <2>1, <2>2 DEF ToExtract, Clauses
  <2>9. Original(i).items[k].target \in Name
    BY <2>4, <2>8 DEF Item, Plain
  <2> QED
    BY <1>6, <2>1, <2>2, <2>7, <2>9
<1>13. OnlyCyclesAreSplit'
  <2>1. \A i \in Sources, j \in DOMAIN stmts : AddedTo(j, i) => AddedTo(j, i)'
    BY <1>1, <1>6 DEF AddedTo
  <2>2. \A j \in DOMAIN stmts \ Sources : \E i \in Sources : CanSplit(i) /\ AddedTo(j, i)
    BY <1>3 DEF StmtsInv, OnlyCyclesAreSplit
  <2>3. \A j \in DOMAIN stmts' \ Sources' : \E i \in Sources' : CanSplit(i)' /\ AddedTo(j, i)'
    BY <1>1, <1>5, <1>6, <2>1, <2>2
  <2> QED
    BY <1>11, <1>12, <2>3 DEF OnlyCyclesAreSplit
<1>14. TextsAreTheirs'
  BY <1>1, <1>3, <1>5, <1>6, <1>7 DEF TextsAreTheirs
<1>15. KeysAreDistinct'
  BY <1>1, <1>3, <1>5 DEF StmtsInv, KeysAreDistinct
<1>16. DepsAreKept'
  <2> SUFFICES ASSUME NEW i \in Sources, NEW r \in DepRefs(stmts[i].src)
               PROVE  r.name \in stmts[i].deps \/ Lazy(i, r)'
    BY <1>1, <1>5 DEF DepsAreKept
  <2>1. Lazy(i, r)' <=> Lazy(i, r)
    BY <1>1, <1>5, <1>6 DEF Lazy
  <2> QED
    BY <1>3, <2>1 DEF StmtsInv, DepsAreKept
<1>17. OrderIsGood'
  <2>1. order' = << >>
    BY <1>1 DEF OrderIsGood
  <2>2. ~Built' /\ pc' = "break"
    BY <1>1 DEF Built
  <2> QED
    BY <1>1, <2>1, <2>2 DEF OrderIsGood
<1> QED
  BY <1>5, <1>8, <1>13, <1>14, <1>15, <1>16, <1>17 DEF StmtsInv

\* The statement that is added gets a number no statement of its place has.
LEMMA AddStmts ==
    ASSUME StmtsInv, OrderIsGood, AddAlterTable, mode # "graph"
    PROVE  StmtsInv' /\ OrderIsGood'
<1>1. /\ UNCHANGED <<input, mode, pc, nextFile, nodes, adj, comps, rewritten, order, verdict>>
      /\ pc = "break"
  BY DEF AddAlterTable
<1>2. /\ Positions /\ nodes = SourceNodes /\ adj = SourceAdj /\ Touched /\ ~Broken
      /\ \A i \in Sources : stmts[i].src = Original(i) /\ Original(i) \in Statement
      /\ \A D \in comps : \A i \in D : i \in Sources /\ InCycle(i) /\ SourceCycle(i) = D
      /\ DOMAIN rewritten \subseteq Sources
  BY <1>1, WhileBreaking
<1>3. PICK mv \in moves :
         /\ moves' = moves \ {mv}
         /\ LET table == stmts[mv.of]
                alter == [kind |-> "alter", name |-> table.src.name,
                          items |-> <<[form |-> "table", target |-> mv.target]>>,
                          sources |-> {}, requires |-> {}]
            IN  stmts' = Append(stmts,
                   [src |-> alter, at |-> table.at,
                    sub |-> NextSubIndex(stmts, table.at) + mv.subN,
                    synthesized |-> TRUE, deps |-> AlterDeps(alter)])
  BY DEF AddAlterTable
<1>4. CanSplit(mv.of) /\ mv.target \in Name /\ mv.subN \in Nat
  BY <1>2 DEF StmtsInv, OnlyCyclesAreSplit
<1>5. PICK t : t = mv.of
  OBVIOUS
<1>6. t \in Sources /\ stmts[t].src = Original(t) /\ Original(t) \in Statement
  BY <1>2, <1>4, <1>5 DEF CanSplit, InCycle
<1>7. PICK alter : alter = [kind |-> "alter", name |-> stmts[t].src.name,
                            items |-> <<[form |-> "table", target |-> mv.target]>>,
                            sources |-> {}, requires |-> {}]
  OBVIOUS
<1>8. alter \in Statement /\ alter.kind = "alter" /\ alter.name = Original(t).name
  <2>1. [form |-> "table", target |-> mv.target] \in Item
    BY <1>4 DEF Item
  <2>2. <<[form |-> "table", target |-> mv.target]>> \in Seq(Item)
    BY <2>1
  <2>3. stmts[t].src.name \in Name \cup {NoName}
    BY <1>6 DEF Statement
  <2> QED
    BY <1>6, <1>7, <2>2, <2>3 DEF Statement, Kind
<1>9. PICK new : new = [src |-> alter, at |-> stmts[t].at, sub |-> NextSubIndex(stmts, stmts[t].at) + mv.subN,
                        synthesized |-> TRUE, deps |-> Deps(alter)]
  OBVIOUS
<1>10. stmts' = Append(stmts, new)
  BY <1>3, <1>5, <1>7, <1>9 DEF AlterDeps
<1>11. PICK m \in Nat : m = Len(stmts) /\ DOMAIN stmts = 1..m /\ Sources \subseteq 1..m
  BY <1>2, StmtShapes
<1>12. \A i \in 1..m : stmts[i] \in Stmt
  BY <1>2, <1>11, StmtShapes
<1>13. /\ new.sub \in Nat \ {0}
       /\ \A i \in 1..m : stmts[i].at = stmts[t].at => stmts[i].sub < new.sub
  <2>1. PICK used : used = {stmts[i].sub : i \in {j \in DOMAIN stmts : stmts[j].at = stmts[t].at}}
    OBVIOUS
  <2>2. used \subseteq Nat /\ stmts[t].sub \in used
    BY <1>6, <1>11, <1>12, <2>1 DEF Stmt
  <2>3. \E x \in used : \A u \in used : u <= x
    <3>1. PICK k \in DOMAIN stmts :
             /\ stmts[k].at = stmts[t].at
             /\ \A l \in DOMAIN stmts : stmts[l].at = stmts[t].at => stmts[l].sub <= stmts[k].sub
      BY <1>2, <1>6 DEF StmtsInv, KeysAreDistinct
    <3>2. stmts[k].sub \in used /\ \A u \in used : u <= stmts[k].sub
      BY <2>1, <3>1
    <3> QED
      BY <3>2
  <2>4. PICK x : x = CHOOSE y \in used : \A u \in used : u <= y
    OBVIOUS
  <2>5. x \in used /\ \A u \in used : u <= x
    BY <2>3, <2>4
  <2>6. NextSubIndex(stmts, stmts[t].at) = x + 1
    BY <2>1, <2>2, <2>4 DEF NextSubIndex
  <2>7. new.sub = x + 1 + mv.subN
    BY <1>9, <2>6
  <2>8. \A u \in used : u < new.sub
    BY <1>4, <2>2, <2>5, <2>7
  <2>9. new.sub \in Nat \ {0}
    BY <1>4, <2>2, <2>5, <2>7
  <2>10. \A i \in 1..m : stmts[i].at = stmts[t].at => stmts[i].sub \in used
    BY <1>11, <2>1
  <2> QED
    BY <2>8, <2>9, <2>10
<1>14. new \in Stmt
  <2>1. Deps(alter) \subseteq Name
    BY <1>8, NamesOf
  <2>2. stmts[t].at \in Nat \X Nat
    BY <1>6, <1>11, <1>12 DEF Stmt
  <2>3. new.sub \in Nat
    BY <1>13
  <2> QED
    BY <1>8, <1>9, <2>1, <2>2, <2>3 DEF Stmt
<1>15. new.synthesized = TRUE /\ new.at = stmts[t].at /\ new.src = alter /\ new.deps = Deps(alter)
  BY <1>9
<1>16. /\ stmts' \in Seq(Stmt) /\ Len(stmts') = m + 1 /\ DOMAIN stmts' = 1..(m + 1)
       /\ \A i \in 1..m : stmts'[i] = stmts[i]
       /\ stmts'[m + 1] = new
  <2>1. stmts \in Seq(Stmt)
    BY <1>2 DEF Positions
  <2> QED
    BY <1>10, <1>11, <1>14, <2>1
<1>17. \A i \in 1..(m + 1) : i \in 1..m \/ i = m + 1
  OBVIOUS
<1>18. Sources' = Sources
  <2>1. \A i \in 1..(m + 1) : i \in Sources' <=> i \in Sources
    BY <1>11, <1>15, <1>16, <1>17 DEF Sources
  <2> QED
    BY <1>11, <1>16, <2>1 DEF Sources
<1>19. SourcePlaces' = SourcePlaces
  BY <1>6, <1>11, <1>15, <1>16, <1>17 DEF SourcePlaces
<1>20. \A i \in Sources : stmts'[i] = stmts[i]
  BY <1>11, <1>16
<1>21. LoadedPlaces' = LoadedPlaces
  BY <1>1 DEF LoadedPlaces
<1>22. Positions'
  <2>1. \E n \in Nat : n <= Len(stmts') /\ Sources' = 1..n
    <3>1. PICK n \in Nat : n <= m /\ Sources = 1..n
      BY <1>2, <1>11 DEF Positions
    <3> QED
      BY <1>11, <1>16, <1>18, <3>1
  <2>2. \A j \in DOMAIN stmts' : \E i \in Sources' : stmts'[i].at = stmts'[j].at
    <3> SUFFICES ASSUME NEW j \in 1..(m + 1) PROVE \E i \in Sources : stmts[i].at = stmts'[j].at
      BY <1>16, <1>18, <1>20
    <3>1. CASE j \in 1..m
      <4>1. \E i \in Sources : stmts[i].at = stmts[j].at
        BY <1>2, <1>11, <3>1 DEF Positions
      <4> QED
        BY <1>16, <3>1, <4>1
    <3>2. CASE j = m + 1
      BY <1>6, <1>15, <1>16, <3>2
    <3> QED
      BY <1>17, <3>1, <3>2
  <2>3. /\ \A i \in Sources : stmts[i].at \in LoadedPlaces /\ stmts[i].sub = 0
        /\ \A a \in LoadedPlaces : \E i \in Sources : stmts[i].at = a
        /\ \A i, j \in Sources : stmts[i].at = stmts[j].at => i = j
    BY <1>2 DEF Positions
  <2>4. /\ \A i \in Sources' : stmts'[i].at \in LoadedPlaces' /\ stmts'[i].sub = 0
        /\ \A a \in LoadedPlaces' : \E i \in Sources' : stmts'[i].at = a
        /\ \A i, j \in Sources' : stmts'[i].at = stmts'[j].at => i = j
    BY <1>18, <1>20, <1>21, <2>3
  <2> QED
    BY <1>16, <2>1, <2>2, <2>4 DEF Positions
<1>23. /\ \A i \in Sources : /\ Original(i)' = Original(i)
                             /\ SourceCycle(i)' = SourceCycle(i)
                             /\ InCycle(i)' <=> InCycle(i)
                             /\ CanSplit(i)' <=> CanSplit(i)
       /\ SourceNodes' = SourceNodes /\ SourceAdj' = SourceAdj
  BY <1>1, <1>2, <1>18, <1>19, <1>20, SameSources
<1>24. Touched' /\ ~Broken'
  BY <1>1, <1>2 DEF Touched, Broken, Built
<1>25. LoadedAsTheyAre' /\ CyclesAreTheirs'
  BY <1>1, <1>2, <1>23 DEF LoadedAsTheyAre, Untouched, Touched, CyclesAreTheirs, InCycle
<1>26. OnlyCyclesAreSplit'
  <2>1. /\ \A x \in moves : CanSplit(x.of) /\ x.target \in Name /\ x.subN \in Nat
        /\ \A i \in DOMAIN rewritten :
              CanSplit(i) /\ rewritten[i] \in Seq(Item) /\ rewritten[i] # Original(i).items
        /\ \A j \in DOMAIN stmts \ Sources : \E i \in Sources : CanSplit(i) /\ AddedTo(j, i)
    BY <1>2 DEF StmtsInv, OnlyCyclesAreSplit
  <2>2. \A i : CanSplit(i) => i \in Sources
    BY DEF CanSplit, InCycle
  <2>3. /\ \A x \in moves' : CanSplit(x.of)' /\ x.target \in Name /\ x.subN \in Nat
        /\ \A i \in DOMAIN rewritten' :
              CanSplit(i)' /\ rewritten'[i] \in Seq(Item) /\ rewritten'[i] # Original(i)'.items
    BY <1>1, <1>3, <1>23, <2>1, <2>2
  <2>4. ASSUME NEW j \in 1..(m + 1), j \notin Sources
        PROVE  \E i \in Sources : CanSplit(i) /\ AddedTo(j, i)'
    <3>1. CASE j \in 1..m
      <4>1. PICK i \in Sources : CanSplit(i) /\ AddedTo(j, i)
        BY <1>11, <2>1, <2>4, <3>1
      <4>2. AddedTo(j, i)'
        BY <1>16, <1>20, <1>23, <3>1, <4>1 DEF AddedTo
      <4> QED
        BY <4>1, <4>2
    <3>2. CASE j = m + 1
      <4>1. AddedTo(j, t)'
        BY <1>6, <1>8, <1>13, <1>15, <1>16, <1>20, <1>23, <3>2 DEF AddedTo
      <4> QED
        BY <1>4, <1>5, <1>6, <4>1
    <3> QED
      BY <1>17, <3>1, <3>2
  <2>5. \A j \in DOMAIN stmts' \ Sources' : \E i \in Sources' : CanSplit(i)' /\ AddedTo(j, i)'
    BY <1>16, <1>18, <1>23, <2>4
  <2> QED
    BY <2>3, <2>5 DEF OnlyCyclesAreSplit
<1>27. TextsAreTheirs'
  BY <1>2, <1>18, <1>20, <1>23, <1>24 DEF TextsAreTheirs
<1>28. KeysAreDistinct'
  <2>1. \A i \in 1..m : stmts[i].sub \in Nat
    BY <1>12 DEF Stmt
  <2>2. /\ \A i, j \in 1..m : stmts[i].at = stmts[j].at /\ stmts[i].sub = stmts[j].sub => i = j
        /\ \A i \in Sources : \E k \in 1..m :
              /\ stmts[k].at = stmts[i].at
              /\ \A l \in 1..m : stmts[l].at = stmts[i].at => stmts[l].sub <= stmts[k].sub
    BY <1>2, <1>11 DEF StmtsInv, KeysAreDistinct
  <2>3. \A i \in 1..m : stmts[i].at = new.at => stmts[i].sub < new.sub /\ stmts[i].sub # new.sub
    BY <1>13, <1>15, <2>1
  <2>4. \A i, j \in 1..(m + 1) : stmts'[i].at = stmts'[j].at /\ stmts'[i].sub = stmts'[j].sub => i = j
    BY <1>16, <1>17, <2>2, <2>3
  <2>5. ASSUME NEW i \in Sources
        PROVE  \E k \in 1..(m + 1) :
                  /\ stmts'[k].at = stmts[i].at
                  /\ \A l \in 1..(m + 1) : stmts'[l].at = stmts[i].at => stmts'[l].sub <= stmts'[k].sub
    <3>1. CASE stmts[i].at = new.at
      <4>1. \A l \in 1..(m + 1) : stmts'[l].at = new.at => stmts'[l].sub <= new.sub
        BY <1>13, <1>16, <1>17, <2>1, <2>3
      <4>2. m + 1 \in 1..(m + 1)
        OBVIOUS
      <4> QED
        BY <1>16, <3>1, <4>1, <4>2
    <3>2. CASE stmts[i].at # new.at
      <4>1. PICK k \in 1..m :
              /\ stmts[k].at = stmts[i].at
              /\ \A l \in 1..m : stmts[l].at = stmts[i].at => stmts[l].sub <= stmts[k].sub
        BY <2>2
      <4>2. k \in 1..(m + 1)
        OBVIOUS
      <4> QED
        BY <1>16, <1>17, <3>2, <4>1, <4>2
    <3> QED
      BY <3>1, <3>2
  <2>6. \A i \in Sources : stmts'[i].at = stmts[i].at
    BY <1>20
  <2>7. \A i \in Sources' : \E k \in DOMAIN stmts' :
              /\ stmts'[k].at = stmts'[i].at
              /\ \A l \in DOMAIN stmts' : stmts'[l].at = stmts'[i].at => stmts'[l].sub <= stmts'[k].sub
    <3> SUFFICES ASSUME NEW i \in Sources
                 PROVE  \E k \in 1..(m + 1) :
                           /\ stmts'[k].at = stmts'[i].at
                           /\ \A l \in 1..(m + 1) : stmts'[l].at = stmts'[i].at => stmts'[l].sub <= stmts'[k].sub
      BY <1>16, <1>18
    <3>1. PICK k \in 1..(m + 1) :
             /\ stmts'[k].at = stmts[i].at
             /\ \A l \in 1..(m + 1) : stmts'[l].at = stmts[i].at => stmts'[l].sub <= stmts'[k].sub
      BY <2>5
    <3>2. stmts'[i].at = stmts[i].at
      BY <2>6
    <3> QED
      BY <3>1, <3>2
  <2>8. \A i, j \in DOMAIN stmts' : stmts'[i].at = stmts'[j].at /\ stmts'[i].sub = stmts'[j].sub => i = j
    BY <1>16, <2>4
  <2> QED
    BY <2>7, <2>8 DEF KeysAreDistinct
<1>29. DepsAreKept'
  <2> SUFFICES ASSUME NEW i \in Sources, NEW r \in DepRefs(stmts[i].src)
               PROVE  r.name \in stmts[i].deps \/ Lazy(i, r)'
    BY <1>18, <1>20 DEF DepsAreKept
  <2>1. Lazy(i, r)' <=> Lazy(i, r)
    BY <1>1, <1>18, <1>23 DEF Lazy
  <2> QED
    BY <1>2, <2>1 DEF StmtsInv, DepsAreKept
<1>30. OrderIsGood'
  <2>1. order' = << >>
    BY <1>1 DEF OrderIsGood
  <2>2. ~Built' /\ pc' = "break"
    BY <1>1 DEF Built
  <2> QED
    BY <1>1, <2>1, <2>2 DEF OrderIsGood
<1> QED
  BY <1>22, <1>25, <1>26, <1>27, <1>28, <1>29, <1>30 DEF StmtsInv

\* Rewritten tables take the place of the loaded ones.
LEMMA ApplyStmts ==
    ASSUME StmtsInv, OrderIsGood, ApplyRewrites, mode # "graph"
    PROVE  StmtsInv' /\ OrderIsGood'
<1>1. /\ UNCHANGED <<input, mode, nextFile, nodes, adj, comps, moves, rewritten, order, verdict>>
      /\ pc = "break" /\ pc' = "resort" /\ moves = {}
      /\ stmts' = [i \in DOMAIN stmts |->
            IF i \in DOMAIN rewritten THEN Reparsed(stmts[i], rewritten[i]) ELSE stmts[i]]
  BY DEF ApplyRewrites
<1>2. /\ Positions /\ Touched /\ ~Broken
      /\ \A i \in Sources : stmts[i].src = Original(i) /\ Original(i) \in Statement
      /\ DOMAIN rewritten \subseteq Sources /\ Sources \subseteq DOMAIN stmts
  BY <1>1, WhileBreaking, StmtShapes
<1>3. /\ Len(stmts) \in Nat /\ DOMAIN stmts = 1..Len(stmts) /\ \A i \in DOMAIN stmts : stmts[i] \in Stmt
  BY <1>2, StmtShapes
<1>4. /\ \A i \in DOMAIN rewritten :
            CanSplit(i) /\ rewritten[i] \in Seq(Item) /\ rewritten[i] # Original(i).items
      /\ \A j \in DOMAIN stmts \ Sources : \E i \in Sources : CanSplit(i) /\ AddedTo(j, i)
  BY <1>2 DEF StmtsInv, OnlyCyclesAreSplit
<1>5. ASSUME NEW i \in DOMAIN rewritten
      PROVE  /\ stmts'[i].at = stmts[i].at /\ stmts'[i].sub = stmts[i].sub /\ stmts'[i] \in Stmt
             /\ stmts'[i].synthesized = stmts[i].synthesized
             /\ stmts'[i].src = [Original(i) EXCEPT !.items = rewritten[i]]
             /\ \A r \in DepRefs(stmts'[i].src) : r.name \in stmts'[i].deps \/ r.kind = "directive"
  <2>1. i \in Sources /\ i \in DOMAIN stmts /\ stmts[i] \in Stmt /\ stmts[i].src = Original(i) /\ Original(i) \in Statement
    BY <1>2, <1>3
  <2>2. PICK text : text = [Original(i) EXCEPT !.items = rewritten[i]]
    OBVIOUS
  <2>3. rewritten[i] \in Seq(Item)
    BY <1>4
  <2>4. text \in Statement
    BY <2>1, <2>2, <2>3 DEF Statement
  <2>5. PICK bare : bare = [text EXCEPT !.requires = {}]
    OBVIOUS
  <2>6. /\ bare \in Statement /\ bare.kind = text.kind /\ bare.name = text.name /\ bare.items = text.items
        /\ bare.sources = text.sources
    BY <2>4, <2>5 DEF Statement
  <2>7. Deps(bare) \subseteq Name
    BY <2>6, NamesOf
  <2>8. stmts'[i] = [stmts[i] EXCEPT !.src = text, !.deps = Deps(bare)]
    BY <1>1, <2>1, <2>2, <2>5 DEF Reparsed
  <2>9. /\ stmts'[i].at = stmts[i].at /\ stmts'[i].sub = stmts[i].sub /\ stmts'[i] \in Stmt
        /\ stmts'[i].synthesized = stmts[i].synthesized /\ stmts'[i].src = text /\ stmts'[i].deps = Deps(bare)
    BY <2>1, <2>4, <2>7, <2>8 DEF Stmt
  <2>10. AutoNames(bare) = AutoNames(text)
    BY <2>6 DEF AutoNames
  <2>11. \A r \in DepRefs(text) : r \in DepRefs(bare) \/ r.kind = "directive"
    BY <2>6, <2>10 DEF DepRefs
  <2>12. \A r \in DepRefs(bare) : r.name \in Deps(bare)
    BY DEF Deps
  <2> QED
    BY <2>2, <2>9, <2>11, <2>12
<1>6. \A i \in DOMAIN stmts : i \notin DOMAIN rewritten => stmts'[i] = stmts[i]
  BY <1>1
<1>7. DOMAIN stmts' = DOMAIN stmts
  BY <1>1
<1>8. \A i \in DOMAIN stmts :
          /\ stmts'[i].at = stmts[i].at /\ stmts'[i].sub = stmts[i].sub /\ stmts'[i] \in Stmt
          /\ stmts'[i].synthesized = stmts[i].synthesized
  BY <1>3, <1>5, <1>6
<1>9. stmts' \in Seq(Stmt)
  BY <1>1, <1>3, <1>8
<1>10. Positions' /\ Sources' = Sources /\ SourcePlaces' = SourcePlaces
  BY <1>1, <1>2, <1>7, <1>8, <1>9, SamePlaces
<1>11. /\ \A i \in Sources : /\ Original(i)' = Original(i)
                             /\ SourceCycle(i)' = SourceCycle(i)
                             /\ InCycle(i)' <=> InCycle(i)
                             /\ CanSplit(i)' <=> CanSplit(i)
       /\ SourceNodes' = SourceNodes /\ SourceAdj' = SourceAdj
  BY <1>1, <1>2, <1>8, <1>10, SameSources
<1>12. Touched' /\ Broken' /\ ~Built'
  BY <1>1, <1>2 DEF Touched, Broken, Built
<1>13. LoadedAsTheyAre' /\ CyclesAreTheirs'
  BY <1>1, <1>2 DEF LoadedAsTheyAre, Untouched, Touched, CyclesAreTheirs
<1>14. OnlyCyclesAreSplit'
  <2>1. \A j \in DOMAIN stmts \ Sources : stmts'[j] = stmts[j]
    BY <1>2, <1>6
  <2>2. \A i \in Sources, j \in DOMAIN stmts \ Sources : AddedTo(j, i) => AddedTo(j, i)'
    BY <1>2, <1>8, <1>11, <2>1 DEF AddedTo
  <2>3. \A j \in DOMAIN stmts' \ Sources' : \E i \in Sources' : CanSplit(i)' /\ AddedTo(j, i)'
    BY <1>4, <1>7, <1>10, <1>11, <2>2
  <2>4. /\ \A mv \in moves' : CanSplit(mv.of)' /\ mv.target \in Name /\ mv.subN \in Nat
        /\ \A i \in DOMAIN rewritten' :
              CanSplit(i)' /\ rewritten'[i] \in Seq(Item) /\ rewritten'[i] # Original(i)'.items
    BY <1>1, <1>2, <1>4, <1>11
  <2> QED
    BY <2>3, <2>4 DEF OnlyCyclesAreSplit
<1>15. TextsAreTheirs'
  <2>1. \A i \in Sources : i \notin DOMAIN rewritten => stmts'[i].src = Original(i)
    BY <1>2, <1>6
  <2> QED
    BY <1>1, <1>5, <1>10, <1>11, <1>12, <2>1 DEF TextsAreTheirs
<1>16. KeysAreDistinct'
  BY <1>2, <1>7, <1>8, <1>10 DEF StmtsInv, KeysAreDistinct
<1>17. DepsAreKept'
  <2> SUFFICES ASSUME NEW i \in Sources, NEW r \in DepRefs(stmts'[i].src)
               PROVE  r.name \in stmts'[i].deps \/ (i \in DOMAIN rewritten /\ r.kind = "directive") \/ Lazy(i, r)'
    BY <1>1, <1>10, <1>12 DEF DepsAreKept
  <2>1. CASE i \in DOMAIN rewritten
    BY <1>5, <2>1
  <2>2. CASE i \notin DOMAIN rewritten
    <3>1. stmts'[i] = stmts[i]
      BY <1>2, <1>6, <2>2
    <3>2. Lazy(i, r)' <=> Lazy(i, r)
      BY <1>1, <1>10, <1>11 DEF Lazy
    <3>3. r.name \in stmts[i].deps \/ Lazy(i, r)
      BY <1>2, <3>1 DEF StmtsInv, DepsAreKept
    <3> QED
      BY <3>1, <3>2, <3>3
  <2> QED
    BY <2>1, <2>2
<1>18. OrderIsGood'
  <2>1. order' = << >>
    BY <1>1 DEF OrderIsGood
  <2> QED
    BY <1>1, <1>12, <2>1 DEF OrderIsGood
<1> QED
  BY <1>10, <1>13, <1>14, <1>15, <1>16, <1>17, <1>18 DEF StmtsInv

-----------------------------------------------------------------------------
(* The statements are sorted *)

\* Sorting leaves the statements alone.
LEMMA SortKeeps ==
    ASSUME StmtsInv, UNCHANGED <<input, mode, nextFile, stmts, moves, rewritten>>, mode # "graph",
           Broken, Broken', pc' \in {"sort", "end"}
    PROVE  StmtsInv'
<1>1. LoadedPlaces' = LoadedPlaces
  BY DEF LoadedPlaces
<1>2. Positions /\ Positions' /\ Sources' = Sources /\ SourcePlaces' = SourcePlaces
  BY <1>1, SameStmts DEF StmtsInv
<1>3. \A i \in Sources : /\ Original(i)' = Original(i)
                         /\ CanSplit(i)' <=> CanSplit(i)
  BY <1>2, SameSources
<1>4. Touched /\ Touched'
  BY DEF Touched
<1>5. LoadedAsTheyAre' /\ CyclesAreTheirs'
  BY DEF LoadedAsTheyAre, Untouched, CyclesAreTheirs
<1>6. OnlyCyclesAreSplit'
  <2>1. \A i : CanSplit(i) => i \in Sources
    BY DEF CanSplit, InCycle
  <2>2. \A i \in Sources, j \in DOMAIN stmts \ Sources : AddedTo(j, i) => AddedTo(j, i)'
    BY <1>3 DEF AddedTo
  <2>3. /\ \A mv \in moves : CanSplit(mv.of) /\ mv.target \in Name /\ mv.subN \in Nat
        /\ \A i \in DOMAIN rewritten :
              CanSplit(i) /\ rewritten[i] \in Seq(Item) /\ rewritten[i] # Original(i).items
        /\ \A j \in DOMAIN stmts \ Sources : \E i \in Sources : CanSplit(i) /\ AddedTo(j, i)
    BY <1>4 DEF StmtsInv, OnlyCyclesAreSplit
  <2>4. /\ \A mv \in moves' : CanSplit(mv.of)' /\ mv.target \in Name /\ mv.subN \in Nat
        /\ \A i \in DOMAIN rewritten' :
              CanSplit(i)' /\ rewritten'[i] \in Seq(Item) /\ rewritten'[i] # Original(i)'.items
    BY <1>3, <2>1, <2>3
  <2>5. \A j \in DOMAIN stmts' \ Sources' : \E i \in Sources' : CanSplit(i)' /\ AddedTo(j, i)'
    BY <1>2, <1>3, <2>2, <2>3
  <2> QED
    BY <2>4, <2>5 DEF OnlyCyclesAreSplit
<1>7. TextsAreTheirs'
  BY <1>2, <1>3, <1>4 DEF StmtsInv, TextsAreTheirs
<1>8. KeysAreDistinct'
  BY <1>2, <1>4 DEF StmtsInv, KeysAreDistinct
<1>9. DepsAreKept'
  <2>1. \A i \in Sources : \A r : Lazy(i, r)' <=> Lazy(i, r)
    BY <1>2, <1>3 DEF Lazy
  <2> QED
    BY <1>2, <1>4, <2>1 DEF StmtsInv, DepsAreKept
<1> QED
  BY <1>2, <1>5, <1>6, <1>7, <1>8, <1>9 DEF StmtsInv

LEMMA StartSortKeeps ==
    ASSUME StmtsInv, OrderIsGood, StartSort, mode # "graph"
    PROVE  StmtsInv' /\ OrderIsGood'
<1>1. /\ UNCHANGED <<input, mode, nextFile, stmts, moves, rewritten, order, verdict>>
      /\ pc = "resort" /\ pc' = "sort" /\ order = << >>
      /\ nodes' = GraphNodes(stmts) /\ adj' = Edges(GraphNodes(stmts), Len(stmts))
  BY DEF StartSort, OrderIsGood
<1>2. Broken /\ Broken' /\ ~Built'
  BY <1>1 DEF Broken, Built
<1>3. StmtsInv'
  BY <1>1, <1>2, SortKeeps
<1> QED
  BY <1>1, <1>2, <1>3 DEF OrderIsGood

\* The next statement follows all it depends on.
LEMMA EmitKeeps ==
    ASSUME StmtsInv, OrderIsGood, EmitNext, mode # "graph"
    PROVE  StmtsInv' /\ OrderIsGood'
<1>1. /\ UNCHANGED <<input, mode, pc, nextFile, stmts, moves, rewritten, nodes, adj, verdict>> /\ pc = "sort"
  BY DEF EmitNext
<1>2. Broken /\ Broken' /\ ~Built'
  BY <1>1 DEF Broken, Built
<1>3. StmtsInv'
  BY <1>1, <1>2, SortKeeps
<1>4. /\ nodes = GraphNodes(stmts) /\ adj = Edges(GraphNodes(stmts), Len(stmts))
      /\ order \in Seq(DOMAIN stmts)
      /\ \A p, q \in DOMAIN order : order[p] = order[q] => p = q
      /\ \A p \in DOMAIN order : adj[order[p]] \subseteq {order[q] : q \in 1..(p - 1)}
  BY <1>1 DEF OrderIsGood
<1>5. PICK i \in Followers : order' = Append(order, i)
  BY DEF EmitNext
<1>6. PICK m \in Nat : m = Len(order) /\ DOMAIN order = 1..m
  BY <1>4
<1>7. /\ i \in DOMAIN stmts /\ adj[i] \subseteq {order[q] : q \in 1..m}
      /\ \A q \in 1..m : order[q] # i
  BY <1>6 DEF Followers, Sorted
<1>8. /\ order' \in Seq(DOMAIN stmts) /\ DOMAIN order' = 1..(m + 1) /\ order'[m + 1] = i
      /\ \A q \in 1..m : order'[q] = order[q]
  BY <1>4, <1>5, <1>6, <1>7
<1>9. \A p \in 1..(m + 1) : p \in 1..m \/ p = m + 1
  OBVIOUS
<1>10. \A p, q \in 1..(m + 1) : order'[p] = order'[q] => p = q
  <2>1. \A p, q \in 1..m : order'[p] = order'[q] => p = q
    BY <1>4, <1>6, <1>8
  <2>2. \A p \in 1..m : order'[p] # order'[m + 1]
    BY <1>7, <1>8
  <2> QED
    BY <1>9, <2>1, <2>2
<1>11. \A p \in 1..(m + 1) : adj[order'[p]] \subseteq {order'[q] : q \in 1..(p - 1)}
  <2>1. \A p \in 1..m : \A q \in 1..(p - 1) : q \in 1..m
    OBVIOUS
  <2>2. ASSUME NEW p \in 1..m PROVE adj[order'[p]] \subseteq {order'[q] : q \in 1..(p - 1)}
    <3>1. adj[order[p]] \subseteq {order[q] : q \in 1..(p - 1)}
      BY <1>4, <1>6
    <3>2. order'[p] = order[p] /\ \A q \in 1..(p - 1) : order'[q] = order[q]
      BY <1>8, <2>1
    <3> QED
      BY <3>1, <3>2
  <2>3. (m + 1) - 1 = m
    OBVIOUS
  <2>4. adj[order'[m + 1]] \subseteq {order'[q] : q \in 1..((m + 1) - 1)}
    BY <1>7, <1>8, <2>3
  <2> QED
    BY <1>9, <2>2, <2>4
<1> QED
  BY <1>1, <1>2, <1>3, <1>4, <1>8, <1>10, <1>11 DEF OrderIsGood

\* An order as long as the statements has them all.
LEMMA OrderIsComplete ==
    ASSUME Positions, order \in Seq(DOMAIN stmts), Len(order) = Len(stmts)
    PROVE  DOMAIN order = DOMAIN stmts
BY DEF Positions

\* Each statement has a key of its own, by which it is found again.
LEMMA LookupFinds ==
    ASSUME StmtsInv, Touched, nodes = GraphNodes(stmts), NEW i \in DOMAIN stmts
    PROVE  Lookup(i) = stmts[i]
<1>1. \A j \in DOMAIN stmts : stmts[j].at \in Nat \X Nat
  BY StmtShapes DEF StmtsInv, Stmt
<1>2. nodes.key = [j \in DOMAIN stmts |-> Key(stmts[j])]
  BY DEF GraphNodes
<1>3. \A j \in DOMAIN stmts : Key(stmts[j]) = nodes.key[i] => j = i
  <2> SUFFICES ASSUME NEW j \in DOMAIN stmts, Key(stmts[j]) = Key(stmts[i]) PROVE j = i
    BY <1>2
  <2>1. stmts[j].at[1] = stmts[i].at[1] /\ stmts[j].at[2] = stmts[i].at[2] /\ stmts[j].sub = stmts[i].sub
    BY DEF Key
  <2>2. stmts[j].at = stmts[i].at
    BY <1>1, <2>1
  <2> QED
    BY <2>1, <2>2 DEF StmtsInv, KeysAreDistinct
<1>4. {j \in DOMAIN stmts : Key(stmts[j]) = nodes.key[i]} = {i}
  BY <1>2, <1>3
<1>5. (CHOOSE j \in {i} : \A k \in {i} : k <= j) = i
  <2>1. i \in Nat
    BY StmtShapes DEF StmtsInv
  <2> QED
    BY <2>1
<1> QED
  BY <1>4, <1>5 DEF Lookup

LEMMA FinishKeeps ==
    ASSUME LoadInv, StmtsInv, OrderIsGood, Finish, mode # "graph"
    PROVE  StmtsInv' /\ OrderIsGood'
<1>1. /\ UNCHANGED <<input, mode, nextFile, stmts, diags, comps, moves, rewritten, nodes, adj, order>>
      /\ pc = "sort" /\ pc' = "end" /\ Len(order) = Len(stmts)
      /\ output' = IF mode = "build" THEN [p \in DOMAIN order |-> Lookup(order[p])] ELSE << >>
      /\ verdict' = [verdict EXCEPT ![mode] = FinalVerdict]
  BY DEF Finish, Conclude
<1>2. CASE ~Built'
  BY <1>1, <1>2, EndKeeps
<1>3. CASE Built'
  <2>1. mode = "build" /\ ~HasError
    <3>1. mode = "build" /\ verdict'["build"] = "ok"
      BY <1>1, <1>3 DEF Built
    <3>2. verdict'["build"] = FinalVerdict
      BY <1>1, <3>1 DEF LoadInv, LoadTypes
    <3> QED
      BY <3>1, <3>2 DEF FinalVerdict
  <2>2. Broken /\ Broken' /\ Touched
    BY <1>1, <1>3 DEF Broken, Touched
  <2>3. StmtsInv'
    BY <1>1, <2>2, SortKeeps
  <2>4. /\ nodes = GraphNodes(stmts) /\ adj = Edges(GraphNodes(stmts), Len(stmts))
        /\ order \in Seq(DOMAIN stmts)
        /\ \A p, q \in DOMAIN order : order[p] = order[q] => p = q
        /\ \A p \in DOMAIN order : adj[order[p]] \subseteq {order[q] : q \in 1..(p - 1)}
    BY <1>1 DEF OrderIsGood
  <2>5. DOMAIN order = DOMAIN stmts
    BY <1>1, <2>4, OrderIsComplete DEF StmtsInv
  <2>6. \A p \in DOMAIN order : order[p] \in DOMAIN stmts
    BY <2>4
  <2>7. \A p \in DOMAIN order : Lookup(order[p]) = stmts[order[p]]
    BY <2>2, <2>4, <2>6, LookupFinds
  <2>8. output' = [p \in DOMAIN order |-> stmts[order[p]]]
    BY <1>1, <2>1, <2>7
  <2>9. Complete /\ Complete'
    BY <1>1 DEF LoadInv, LoadTypes, Complete
  <2>10. ~HasError'
    BY <1>1, <2>1 DEF HasError
  <2>11. /\ nodes' = GraphNodes(stmts') /\ adj' = Edges(GraphNodes(stmts'), Len(stmts'))
         /\ order' \in Seq(DOMAIN stmts')
         /\ \A p, q \in DOMAIN order' : order'[p] = order'[q] => p = q
         /\ \A p \in DOMAIN order' : adj'[order'[p]] \subseteq {order'[q] : q \in 1..(p - 1)}
    BY <1>1, <2>4
  <2>12. DOMAIN order' = DOMAIN stmts' /\ output' = [p \in DOMAIN order' |-> stmts'[order'[p]]]
    BY <1>1, <2>5, <2>8
  <2>13. pc' = "end"
    BY <1>1
  <2>14. OrderIsGood'
    BY <2>9, <2>10, <2>11, <2>12, <2>13 DEF OrderIsGood
  <2> QED
    BY <2>3, <2>14
<1> QED
  BY <1>2, <1>3

-----------------------------------------------------------------------------
(* Every step of a command *)

LEMMA ConcludeFails ==
    ASSUME LoadInv, NEW v, v # "ok", Conclude(v)
    PROVE  ~Built'
<1>1. mode' = mode /\ verdict' = [verdict EXCEPT ![mode] = v] /\ mode \in Mode /\ verdict \in [Mode -> Verdict]
  BY DEF Conclude, LoadInv, LoadTypes
<1> QED
  BY <1>1 DEF Built, Mode

\* The command fails.
LEMMA FailureKeeps ==
    ASSUME StateInv, NEW v \in Verdict, v # "ok" \/ mode = "graph", Conclude(v), UNCHANGED work,
           pc = "load" => ~Complete
    PROVE  StateInv'
<1>1. /\ UNCHANGED <<input, mode, nextFile, stmts, defs, refs, diags, comps>> /\ pc' = "end"
      /\ verdict' = [verdict EXCEPT ![mode] = v]
  BY DEF Conclude, work
<1>2. LoadInv'
  <2>1. mode \in Mode /\ verdict \in [Mode -> Verdict]
    BY DEF StateInv, LoadInv, LoadTypes
  <2>2. verdict' \in [Mode -> Verdict]
    BY <1>1, <2>1
  <2> QED
    BY <1>1, <2>2, LoadedKeeps DEF StateInv
<1>3. ~Built'
  BY <1>1, ConcludeFails DEF StateInv, Built
<1> QED
  BY <1>1, <1>2, <1>3, EndKeeps DEF StateInv

LEMMA ReadFailsKeeps == ASSUME StateInv, ReadFails PROVE StateInv'
<1>1. pc = "load" => ~Complete
  <2>1. Len(input.files) \in Nat
    BY DEF StateInv, LoadInv, LoadTypes, Tree
  <2>2. nextFile <= Len(input.files)
    BY DEF ReadFails
  <2> QED
    BY <2>1, <2>2 DEF Complete
<1> QED
  BY <1>1, FailureKeeps DEF ReadFails, Verdict

LEMMA LexFailsKeeps == ASSUME StateInv, LexFails PROVE StateInv'
<1>1. LoadInv' /\ LoadedPlaces' = LoadedPlaces
  BY LexFailsLoads, LexFailsPlaces DEF StateInv
<1>2. /\ UNCHANGED <<input, mode, stmts, comps, moves, rewritten, order>>
      /\ pc = "load" /\ pc' = "load"
  BY DEF LexFails
<1> QED
  BY <1>1, <1>2, EarlyKeeps DEF StateInv

LEMMA LoadFileKeeps == ASSUME StateInv, LoadFile PROVE StateInv'
BY LoadFileLoads, LoadFileStmts DEF StateInv

LEMMA FinishLoadKeeps == ASSUME StateInv, FinishLoad PROVE StateInv'
<1>1. LoadInv'
  BY FinishLoadLoads DEF StateInv
<1>2. /\ UNCHANGED <<input, mode, nextFile, stmts, comps, moves, rewritten, order>>
      /\ pc = "load" /\ pc' = "gate"
  BY DEF FinishLoad
<1>3. LoadedPlaces' = LoadedPlaces
  BY <1>2 DEF LoadedPlaces
<1> QED
  BY <1>1, <1>2, <1>3, EarlyKeeps DEF StateInv

LEMMA StopAtDiagnosticKeeps == ASSUME StateInv, StopAtDiagnostic PROVE StateInv'
BY FailureKeeps DEF StopAtDiagnostic, Verdict

\* After the loading, only the statements matter.
LEMMA AfterLoading ==
    ASSUME StateInv, UNCHANGED <<input, mode, nextFile, defs, refs, diags>>,
           verdict' = verdict \/ \E v \in Verdict : verdict' = [verdict EXCEPT ![mode] = v],
           pc \notin {"load", "end"},
           pc' \in {"gate", "cycles", "components", "break", "resort", "sort", "end"}
    PROVE  LoadInv'
<1>1. Complete /\ verdict \in [Mode -> Verdict] /\ mode \in Mode
  BY DEF StateInv, LoadInv, LoadTypes
<1>2. verdict' \in [Mode -> Verdict]
  BY <1>1
<1> QED
  BY <1>1, <1>2, LoadedKeeps DEF StateInv

LEMMA PassGateKeeps == ASSUME StateInv, PassGate PROVE StateInv'
<1>1. /\ UNCHANGED <<input, mode, nextFile, stmts, defs, refs, diags, comps, moves, rewritten, order, verdict>>
      /\ pc = "gate" /\ pc' = "cycles"
  BY DEF PassGate, work
<1>2. LoadInv'
  BY <1>1, AfterLoading
<1>3. LoadedPlaces' = LoadedPlaces
  BY <1>1 DEF LoadedPlaces
<1> QED
  BY <1>1, <1>2, <1>3, EarlyKeeps DEF StateInv

LEMMA ResolveEdgesKeeps == ASSUME StateInv, ResolveEdges PROVE StateInv'
<1>1. /\ UNCHANGED <<input, mode, nextFile, stmts, defs, refs, diags, comps, moves, rewritten, order, verdict>>
      /\ pc = "cycles" /\ pc' = "components"
      /\ nodes' = GraphNodes(stmts) /\ adj' = Edges(GraphNodes(stmts), Len(stmts))
  BY DEF ResolveEdges
<1>2. LoadInv'
  BY <1>1, AfterLoading
<1>3. LoadedPlaces' = LoadedPlaces
  BY <1>1 DEF LoadedPlaces
<1> QED
  BY <1>1, <1>2, <1>3, EarlyKeeps DEF StateInv

LEMMA FindCyclesKeeps == ASSUME StateInv, FindCycles PROVE StateInv'
<1>1. UNCHANGED <<input, mode, nextFile, defs, refs, diags, verdict>> /\ pc = "components" /\ pc' = "break"
  BY DEF FindCycles
<1>2. LoadInv'
  BY <1>1, AfterLoading
<1> QED
  BY <1>2, FindCyclesStmts DEF StateInv

LEMMA UnbreakableCycleKeeps == ASSUME StateInv, UnbreakableCycle PROVE StateInv'
<1>1. PICK v \in {"cycle", "unsplittable"} : Conclude(v)
  BY DEF UnbreakableCycle
<1>2. UNCHANGED work /\ pc = "break"
  BY DEF UnbreakableCycle
<1> QED
  BY <1>1, <1>2, FailureKeeps DEF Verdict

\* Cycles are broken and the statements sorted.
LEMMA BreakingKeeps ==
    ASSUME StateInv, mode # "graph",
           DropEdgesSQLite \/ SplitComponent \/ AddAlterTable \/ ApplyRewrites \/ StartSort \/ EmitNext
    PROVE  StateInv'
<1>1. /\ UNCHANGED <<input, mode, nextFile, defs, refs, diags, verdict>>
      /\ pc \in {"break", "resort", "sort"} /\ pc' \in {"break", "resort", "sort"}
  <2>1. CASE DropEdgesSQLite
    BY <2>1 DEF DropEdgesSQLite
  <2>2. CASE SplitComponent
    BY <2>2 DEF SplitComponent
  <2>3. CASE AddAlterTable
    BY <2>3 DEF AddAlterTable
  <2>4. CASE ApplyRewrites
    BY <2>4 DEF ApplyRewrites
  <2>5. CASE StartSort
    BY <2>5 DEF StartSort
  <2>6. CASE EmitNext
    BY <2>6 DEF EmitNext
  <2> QED
    BY <2>1, <2>2, <2>3, <2>4, <2>5, <2>6
<1>2. LoadInv'
  BY <1>1, AfterLoading
<1>3. StmtsInv' /\ OrderIsGood'
  BY DropStmts, SplitStmts, AddStmts, ApplyStmts, StartSortKeeps, EmitKeeps DEF StateInv
<1> QED
  BY <1>2, <1>3 DEF StateInv

LEMMA SortFailsKeeps == ASSUME StateInv, SortFails PROVE StateInv'
BY FailureKeeps DEF SortFails, Verdict

LEMMA FinishStateKeeps == ASSUME StateInv, Finish, mode # "graph" PROVE StateInv'
<1>1. /\ UNCHANGED <<input, mode, nextFile, defs, refs, diags>> /\ pc = "sort" /\ pc' = "end"
      /\ verdict' = [verdict EXCEPT ![mode] = FinalVerdict]
  BY DEF Finish, Conclude
<1>2. FinalVerdict \in Verdict
  BY DEF FinalVerdict, Verdict
<1>3. LoadInv'
  BY <1>1, <1>2, AfterLoading
<1> QED
  BY <1>3, FinishKeeps DEF StateInv

LEMMA RunBuildKeeps == ASSUME StateInv, RunBuild PROVE StateInv'
<1>1. input' = input /\ StartOver("build") /\ "build" \in Mode
  BY DEF RunBuild, Mode
<1>2. input' \in Tree
  BY <1>1 DEF StateInv, LoadInv, LoadTypes
<1> QED
  BY <1>1, <1>2, StartOverLoads, StartOverStmts DEF StateInv

LEMMA SameState == ASSUME StateInv, UNCHANGED vars PROVE StateInv'
<1>1. UNCHANGED <<input, mode, pc, nextFile, stmts, defs, refs, diags, nodes, adj, comps, moves, rewritten, order,
                  output, verdict>>
  BY DEF vars, work
<1>2. LoadInv'
  BY <1>1, LoadedKeeps DEF StateInv, LoadInv, LoadTypes
<1>3. /\ LoadedPlaces' = LoadedPlaces /\ Sources' = Sources
      /\ SourceNodes' = SourceNodes /\ SourceAdj' = SourceAdj /\ Built' = Built /\ Broken' = Broken
      /\ HasError' = HasError /\ Complete' = Complete
  BY <1>1 DEF LoadedPlaces, Sources, SourceNodes, SourceAdj, SourceStmts, SourcePlaces, Built, Broken, HasError,
     Complete, Original, SourceStatement
<1>4. /\ Touched' = Touched /\ Untouched' = Untouched
      /\ \A i : /\ Original(i)' = Original(i) /\ AsLoaded(i)' = AsLoaded(i) /\ SourceCycle(i)' = SourceCycle(i)
                /\ InCycle(i)' = InCycle(i) /\ CanSplit(i)' = CanSplit(i)
                /\ \A j : AddedTo(j, i)' = AddedTo(j, i) /\ Lazy(i, j)' = Lazy(i, j)
  BY <1>1, <1>3 DEF Touched, Untouched, Original, AsLoaded, SourceCycle, InCycle, CanSplit, AddedTo, Lazy,
     SourceStatement, SourcePlaces
<1>5. Positions' /\ LoadedAsTheyAre' /\ CyclesAreTheirs' /\ OnlyCyclesAreSplit'
  BY <1>1, <1>3, <1>4 DEF StateInv, StmtsInv, Positions, LoadedAsTheyAre, CyclesAreTheirs, OnlyCyclesAreSplit
<1>6. TextsAreTheirs' /\ KeysAreDistinct' /\ DepsAreKept'
  BY <1>1, <1>3, <1>4 DEF StateInv, StmtsInv, TextsAreTheirs, KeysAreDistinct, DepsAreKept
<1>7. OrderIsGood'
  BY <1>1, <1>3, <1>4 DEF StateInv, OrderIsGood
<1> QED
  BY <1>2, <1>5, <1>6, <1>7 DEF StateInv, StmtsInv

-----------------------------------------------------------------------------
(* What is written, and what graph makes of it *)

LEMMA OrderIsOnto ==
    ASSUME Positions, order \in Seq(DOMAIN stmts), DOMAIN order = DOMAIN stmts,
           \A p, q \in DOMAIN order : order[p] = order[q] => p = q,
           NEW i \in DOMAIN stmts
    PROVE  \E p \in DOMAIN order : order[p] = i
<1>1. PICK m \in Nat : m = Len(stmts) /\ DOMAIN stmts = 1..m
  BY StmtShapes
<1>2. DOMAIN order = 1..m /\ \A p \in 1..m : order[p] \in 1..m
  BY <1>1
<1> DEFINE f == [p \in 1..m |-> order[p]]
<1>3. f \in Injection(1..m, 1..m)
  BY <1>2 DEF Injection, IsInjective
<1>4. f \in Surjection(1..m, 1..m)
  BY <1>3, FS_Interval, FS_Injection
<1> QED
  BY <1>1, <1>2, <1>4 DEF Surjection

\* The names of the statements that are emitted are those of the files.
LEMMA NamesAreTheFiles ==
    ASSUME StateInv, Built
    PROVE  /\ output \in Seq(Stmt)
           /\ {output[p].src.name : p \in DOMAIN output} = {Original(i).name : i \in Sources}
<1>1. /\ order \in Seq(DOMAIN stmts) /\ DOMAIN order = DOMAIN stmts
      /\ \A p, q \in DOMAIN order : order[p] = order[q] => p = q
      /\ output = [p \in DOMAIN order |-> stmts[order[p]]]
  BY DEF StateInv, OrderIsGood, Built
<1>2. Touched /\ Broken
  BY DEF Built, Touched, Broken
<1>3. Positions /\ TextsAreTheirs /\ OnlyCyclesAreSplit
  BY DEF StateInv, StmtsInv
<1>4. PICK m \in Nat : m = Len(stmts) /\ DOMAIN stmts = 1..m /\ \A i \in 1..m : stmts[i] \in Stmt
  BY <1>3, StmtShapes
<1>5. output \in Seq(Stmt)
  <2>1. \A p \in 1..m : order[p] \in 1..m
    BY <1>1, <1>4
  <2>2. output = [p \in 1..m |-> stmts[order[p]]]
    BY <1>1, <1>4
  <2> QED
    BY <1>4, <2>1, <2>2
<1>6. \A i \in Sources : i \in DOMAIN stmts /\ stmts[i].src.name = Original(i).name
  <2> SUFFICES ASSUME NEW i \in Sources PROVE stmts[i].src.name = Original(i).name
    BY DEF Sources
  <2>1. \/ stmts[i].src = Original(i)
        \/ stmts[i].src = [Original(i) EXCEPT !.items = rewritten[i]]
    BY <1>2, <1>3 DEF TextsAreTheirs
  <2>2. Original(i) \in Statement
    BY <1>3, SourcesAreStatements DEF StateInv, LoadInv, Positions, Original
  <2> QED
    BY <2>1, <2>2 DEF Statement
<1>7. \A j \in DOMAIN stmts \ Sources : \E i \in Sources : stmts[j].src.name = Original(i).name
  BY <1>2, <1>3 DEF OnlyCyclesAreSplit, AddedTo
<1>8. ASSUME NEW p \in DOMAIN output PROVE \E i \in Sources : output[p].src.name = Original(i).name
  <2>1. output[p] = stmts[order[p]] /\ order[p] \in DOMAIN stmts
    BY <1>1
  <2> QED
    BY <1>6, <1>7, <2>1
<1>9. ASSUME NEW i \in Sources PROVE \E p \in DOMAIN output : output[p].src.name = Original(i).name
  <2>1. PICK p \in DOMAIN order : order[p] = i
    BY <1>1, <1>3, <1>6, OrderIsOnto
  <2> QED
    BY <1>1, <1>6, <2>1
<1> QED
  BY <1>5, <1>8, <1>9

\* The bundle as the last file of the tree.
LEMMA BundleIsTheLast ==
    ASSUME StateInv, Built, NEW files, files = Append(input.files, BundleFile)
    PROVE  /\ files \in Seq([status : {"ok", "unlexable", "unreadable"}, stmts : Seq(Statement)])
           /\ Len(files) > 0
           /\ LastIsTheBundle(files)
<1>1. input.files \in Seq([status : {"ok", "unlexable", "unreadable"}, stmts : Seq(Statement)])
  BY DEF StateInv, LoadInv, LoadTypes, Tree
<1>2. PICK n \in Nat : n = Len(input.files) /\ DOMAIN input.files = 1..n
  BY <1>1
<1>3. /\ output \in Seq(Stmt)
      /\ {output[p].src.name : p \in DOMAIN output} = {Original(i).name : i \in Sources}
  BY NamesAreTheFiles
<1>4. PICK texts : texts = [p \in DOMAIN output |-> output[p].src]
  OBVIOUS
<1>5. texts \in Seq(Statement) /\ DOMAIN texts = DOMAIN output /\ \A p \in DOMAIN output : texts[p] = output[p].src
  <2>1. PICK m \in Nat : DOMAIN output = 1..m /\ \A p \in 1..m : output[p] \in Stmt
    BY <1>3
  <2>2. \A p \in 1..m : output[p].src \in Statement
    BY <2>1 DEF Stmt
  <2> QED
    BY <1>4, <2>1, <2>2
<1>6. BundleFile = [status |-> "ok", stmts |-> texts]
  BY <1>4 DEF BundleFile
<1>7. BundleFile \in [status : {"ok", "unlexable", "unreadable"}, stmts : Seq(Statement)]
  BY <1>5, <1>6
<1>8. /\ files \in Seq([status : {"ok", "unlexable", "unreadable"}, stmts : Seq(Statement)])
      /\ Len(files) = n + 1 /\ files[n + 1] = BundleFile
      /\ \A f \in 1..n : files[f] = input.files[f]
  BY <1>1, <1>2, <1>7, AppendProperties
<1>9. files[n + 1].status = "ok" /\ NamesIn(files, n + 1) = {Original(i).name : i \in Sources} \ {NoName}
  <2>1. {texts[p].name : p \in DOMAIN texts} = {output[p].src.name : p \in DOMAIN output}
    BY <1>5
  <2>2. files[n + 1].stmts = texts /\ files[n + 1].status = "ok"
    BY <1>6, <1>8
  <2>3. NamesIn(files, n + 1) = {texts[p].name : p \in DOMAIN texts} \ {NoName}
    BY <2>2 DEF NamesIn
  <2> QED
    BY <1>3, <2>1, <2>2, <2>3
<1>10. nextFile = n + 1
  BY <1>2 DEF StateInv, OrderIsGood, Complete
<1> DEFINE Defines(f, x) == \E k \in DOMAIN files[f].stmts : x = files[f].stmts[k].name
<1>11. ASSUME NEW i \in Sources
       PROVE  \E f \in 1..n : files[f].status = "ok" /\ Defines(f, Original(i).name)
  <2>1. stmts[i].at \in LoadedPlaces
    BY DEF StateInv, StmtsInv, Positions
  <2>2. PICK f, k : f = stmts[i].at[1] /\ k = stmts[i].at[2]
    OBVIOUS
  <2>3. f \in 1..n /\ input.files[f].status = "ok" /\ k \in DOMAIN input.files[f].stmts
    BY <1>10, <2>1, <2>2 DEF LoadedPlaces
  <2>4. Original(i) = input.files[f].stmts[k]
    BY <2>2 DEF Original, SourceStatement
  <2> QED
    BY <1>8, <2>3, <2>4
<1>12. ASSUME NEW f \in 1..n, files[f].status = "ok", NEW x, Defines(f, x)
       PROVE  \E i \in Sources : x = Original(i).name
  <2>1. files[f] = input.files[f]
    BY <1>8
  <2>2. PICK ss : ss = files[f].stmts
    OBVIOUS
  <2>3. ss \in Seq(Statement)
    BY <1>1, <1>2, <2>1, <2>2, FieldsOfFiles
  <2>4. PICK k \in DOMAIN ss : x = ss[k].name
    BY <1>12, <2>2
  <2>5. k \in Nat
    BY <2>3
  <2>6. <<f, k>> \in LoadedPlaces
    BY <1>10, <1>12, <2>1, <2>2, <2>5 DEF LoadedPlaces
  <2>7. PICK i \in Sources : stmts[i].at = <<f, k>>
    BY <2>6 DEF StateInv, StmtsInv, Positions
  <2>8. Original(i) = ss[k]
    BY <2>1, <2>2, <2>7 DEF Original, SourceStatement
  <2> QED
    BY <2>4, <2>8
<1>13. NamesIn(files, n + 1) = UNION {NamesIn(files, f) : f \in {e \in 1..n : files[e].status = "ok"}}
  <2>1. \A f, x : x \in NamesIn(files, f) <=> x # NoName /\ Defines(f, x)
    BY DEF NamesIn
  <2> HIDE DEF Defines
  <2>2. \A x : (\E i \in Sources : x = Original(i).name) <=> (\E f \in 1..n : files[f].status = "ok" /\ Defines(f, x))
    BY <1>11, <1>12
  <2>3. \A x : x \in NamesIn(files, n + 1) <=> x # NoName /\ \E i \in Sources : x = Original(i).name
    BY <1>9
  <2>4. \A x : x \in UNION {NamesIn(files, f) : f \in {e \in 1..n : files[e].status = "ok"}} <=>
                \E f \in 1..n : files[f].status = "ok" /\ x \in NamesIn(files, f)
    OBVIOUS
  <2>5. \A x : x \in NamesIn(files, n + 1) <=>
                x \in UNION {NamesIn(files, f) : f \in {e \in 1..n : files[e].status = "ok"}}
    <3> SUFFICES ASSUME NEW x
                 PROVE  x \in NamesIn(files, n + 1) <=>
                        \E f \in 1..n : files[f].status = "ok" /\ x \in NamesIn(files, f)
      BY <2>4
    <3>1. (\E f \in 1..n : files[f].status = "ok" /\ x \in NamesIn(files, f)) <=>
             x # NoName /\ \E f \in 1..n : files[f].status = "ok" /\ Defines(f, x)
      BY <2>1
    <3> QED
      BY <2>2, <2>3, <3>1
  <2> QED
    BY <2>5
<1>14. LastIsTheBundle(files)
  <2>1. Len(files) - 1 = n
    BY <1>8
  <2> QED
    BY <1>8, <1>9, <1>13, <2>1 DEF LastIsTheBundle
<1> QED
  BY <1>8, <1>14

-----------------------------------------------------------------------------
(* Every step of the commands *)

LEMMA BundleStepState == ASSUME StateInv, BundleStep PROVE StateInv'
<1>1. mode # "graph" /\ Next
  BY DEF BundleStep
<1>2. CASE Ended
  BY <1>2, SameState DEF Ended
<1>3. CASE DropEdgesSQLite \/ SplitComponent \/ AddAlterTable \/ ApplyRewrites \/ StartSort \/ EmitNext
  BY <1>1, <1>3, BreakingKeeps
<1> QED
  BY <1>1, <1>2, <1>3, ReadFailsKeeps, LexFailsKeeps, LoadFileKeeps, FinishLoadKeeps, StopAtDiagnosticKeeps,
     PassGateKeeps, ResolveEdgesKeeps, FindCyclesKeeps, UnbreakableCycleKeeps, SortFailsKeeps, FinishStateKeeps,
     RunBuildKeeps DEF Next

LEMMA GraphLoadStepState == ASSUME StateInv, GraphLoadStep PROVE StateInv'
BY ReadFailsKeeps, LexFailsKeeps, LoadFileKeeps, FinishLoadKeeps, PassGateKeeps, ResolveEdgesKeeps, FindCyclesKeeps
   DEF GraphLoadStep

LEMMA RunGraphState == ASSUME CommandsInv, RunGraph PROVE StateInv'
<1>1. StateInv /\ DiskInv /\ mode = "build" /\ StartOver("graph") /\ "graph" \in Mode
  BY DEF CommandsInv, RunGraph, Mode
<1>2. input \in Tree
  BY <1>1 DEF StateInv, LoadInv, LoadTypes
<1>3. input' \in Tree
  <2>1. CASE disk["inside"] # "build"
    BY <1>2, <2>1 DEF RunGraph
  <2>2. CASE disk["inside"] = "build"
    <3>1. Built
      BY <1>1, <2>2 DEF DiskInv
    <3>2. PICK files : files = Append(input.files, BundleFile)
      OBVIOUS
    <3>3. /\ files \in Seq([status : {"ok", "unlexable", "unreadable"}, stmts : Seq(Statement)])
          /\ Len(files) > 0
      BY <1>1, <3>1, <3>2, BundleIsTheLast
    <3>4. input' = [input EXCEPT !.files = files]
      BY <2>2, <3>2 DEF RunGraph
    <3> QED
      BY <1>2, <3>3, <3>4 DEF Tree
  <2> QED
    BY <2>1, <2>2
<1> QED
  BY <1>1, <1>3, StartOverLoads, StartOverStmts DEF StateInv

LEMMA ExportGraphState == ASSUME StateInv, ExportGraph PROVE StateInv'
<1>1. mode = "graph" /\ pc = "break" /\ UNCHANGED work
  BY DEF ExportGraph
<1>2. PICK v \in {"ok", "usage"} : Conclude(v)
  BY DEF ExportGraph
<1> QED
  BY <1>1, <1>2, FailureKeeps DEF Verdict

\* A command goes on until it ends.
LEMMA ModesFollow ==
    ASSUME Next
    PROVE  /\ input' = input /\ mode' \in {mode, "build"}
           /\ pc # "end" => mode' = mode
           /\ pc = "end" => \/ mode = "build" /\ UNCHANGED vars
                            \/ mode = "check" /\ pc' = "load"
<1>1. CASE ReadFails \/ StopAtDiagnostic \/ UnbreakableCycle \/ SortFails \/ Finish
  BY <1>1 DEF ReadFails, StopAtDiagnostic, UnbreakableCycle, SortFails, Finish, Conclude
<1>2. CASE LexFails \/ LoadFile \/ FinishLoad \/ PassGate \/ ResolveEdges \/ FindCycles
  BY <1>2 DEF LexFails, LoadFile, FinishLoad, PassGate, ResolveEdges, FindCycles
<1>3. CASE DropEdgesSQLite \/ SplitComponent \/ AddAlterTable
  BY <1>3 DEF DropEdgesSQLite, SplitComponent, AddAlterTable
<1>4. CASE ApplyRewrites \/ StartSort \/ EmitNext
  BY <1>4 DEF ApplyRewrites, StartSort, EmitNext
<1>5. CASE RunBuild
  BY <1>5 DEF RunBuild, StartOver
<1>6. CASE Ended
  BY <1>6 DEF Ended, vars
<1> QED
  BY <1>1, <1>2, <1>3, <1>4, <1>5, <1>6 DEF Next

LEMMA DiskInit == CommandsInit => DiskInv
BY DEF CommandsInit, Init, DiskInv, Exported, Path

LEMMA BundleStepDisk == ASSUME CommandsInv, BundleStep PROVE DiskInv'
<1>1. mode # "graph" /\ Next /\ graph' = graph /\ DiskInv
  BY DEF BundleStep, CommandsInv
<1>2. ~Exported'
  BY <1>1, ModesFollow DEF Exported
<1>3. CASE BundleSucceeds
  <2>1. mode' = mode /\ Built' /\ pc # "end"
    BY <1>1, <1>3, ModesFollow DEF BundleSucceeds, Built
  <2>2. PICK d \in Destinations : Write(BundleTo(d), "build")
    BY <1>3 DEF BundleStep
  <2>3. disk' = disk \/ disk' = [disk EXCEPT ![BundleTo(d)] = "build"]
    BY <2>2 DEF Write
  <2>4. disk' \in [Path -> {"old", "build", "graph"}]
    BY <1>1, <2>3 DEF DiskInv
  <2> QED
    BY <1>2, <2>1, <2>4 DEF DiskInv
<1>4. CASE ~BundleSucceeds
  <2>1. disk' = disk
    BY <1>4 DEF BundleStep
  <2>2. disk["inside"] = "build" => Built
    BY <1>1 DEF DiskInv
  <2>3. Built => Built'
    BY <1>1, ModesFollow DEF Built, vars
  <2> QED
    BY <1>1, <1>2, <2>1, <2>2, <2>3 DEF DiskInv
<1> QED
  BY <1>3, <1>4

LEMMA RunGraphDisk == ASSUME CommandsInv, RunGraph PROVE DiskInv'
<1>1. StateInv /\ DiskInv /\ mode = "build" /\ mode' = "graph" /\ pc' = "load" /\ disk' = disk
  BY DEF CommandsInv, RunGraph, StartOver
<1>2. ASSUME disk["inside"] = "build" PROVE LastIsTheBundle(input'.files)
  <2>1. Built
    BY <1>1, <1>2 DEF DiskInv
  <2>2. PICK files : files = Append(input.files, BundleFile)
    OBVIOUS
  <2>3. LastIsTheBundle(files)
    BY <1>1, <2>1, <2>2, BundleIsTheLast
  <2>4. input' = [input EXCEPT !.files = files]
    BY <1>2, <2>2 DEF RunGraph
  <2>5. input'.files = files
    BY <1>1, <2>4 DEF StateInv, LoadInv, LoadTypes, Tree
  <2> QED
    BY <2>3, <2>5
<1> QED
  BY <1>1, <1>2 DEF DiskInv, Exported

LEMMA GraphLoadStepDisk == ASSUME CommandsInv, GraphLoadStep PROVE DiskInv'
<1>1. mode = "graph" /\ disk' = disk /\ graph' = graph /\ DiskInv /\ StateInv
  BY DEF GraphLoadStep, CommandsInv
<1>2. input' = input /\ mode' = mode /\ ~Exported'
  <2>1. CASE ReadFails
    <3>1. mode' = mode /\ input' = input /\ verdict' = [verdict EXCEPT ![mode] = "io"]
      BY <2>1 DEF ReadFails, Conclude
    <3>2. verdict \in [Mode -> Verdict] /\ mode \in Mode
      BY <1>1 DEF StateInv, LoadInv, LoadTypes
    <3> QED
      BY <1>1, <3>1, <3>2 DEF Exported
  <2>2. CASE LexFails \/ LoadFile \/ FinishLoad \/ PassGate \/ ResolveEdges \/ FindCycles
    <3>1. input' = input /\ mode' = mode /\ pc' # "end"
      BY <2>2 DEF LexFails, LoadFile, FinishLoad, PassGate, ResolveEdges, FindCycles
    <3> QED
      BY <3>1 DEF Exported
  <2> QED
    BY <2>1, <2>2 DEF GraphLoadStep
<1>3. disk["inside"] = "build" => LastIsTheBundle(input.files)
  BY <1>1 DEF DiskInv, Built
<1> QED
  BY <1>1, <1>2, <1>3 DEF DiskInv

LEMMA ExportGraphDisk == ASSUME CommandsInv, ExportGraph PROVE DiskInv'
<1>1. /\ mode = "graph" /\ pc = "break" /\ UNCHANGED work /\ DiskInv /\ StateInv
      /\ UNCHANGED <<input, mode>>
  BY DEF ExportGraph, CommandsInv, Conclude
<1>2. UNCHANGED <<nextFile, stmts, defs, nodes, comps>>
  BY <1>1 DEF work
<1>3. disk["inside"] = "build" => LastIsTheBundle(input.files)
  BY <1>1 DEF DiskInv, Built
<1>4. CASE \E d \in Destinations : Write(GraphTo(d), "graph") /\ graph' = Payload
  <2>1. PICK d \in Destinations : Write(GraphTo(d), "graph") /\ graph' = Payload
    BY <1>4
  <2>2. disk' = disk \/ disk' = [disk EXCEPT ![GraphTo(d)] = "graph"]
    BY <2>1 DEF Write
  <2>3. disk' \in [Path -> {"old", "build", "graph"}] /\ (disk'["inside"] = "build" => disk["inside"] = "build")
    BY <1>1, <2>2 DEF DiskInv, Path
  <2>4. Payload' = Payload
    BY <1>2 DEF Payload, Drawn, Defined, EdgeKind, InSomeCycle, EdgeInCycle, ResolvesIn
  <2>5. Complete'
    BY <1>1, <1>2 DEF StateInv, LoadInv, LoadTypes, Complete
  <2> QED
    BY <1>1, <1>3, <2>1, <2>3, <2>4, <2>5 DEF DiskInv
<1>5. CASE Conclude("usage") /\ UNCHANGED <<disk, graph>>
  <2>1. verdict \in [Mode -> Verdict] /\ mode \in Mode
    BY <1>1 DEF StateInv, LoadInv, LoadTypes
  <2>2. ~Exported'
    BY <1>1, <1>5, <2>1 DEF Exported, Conclude
  <2> QED
    BY <1>1, <1>3, <1>5, <2>2 DEF DiskInv
<1> QED
  BY <1>4, <1>5 DEF ExportGraph

LEMMA SameCommands == ASSUME CommandsInv, UNCHANGED allVars PROVE CommandsInv'
<1>1. UNCHANGED vars /\ UNCHANGED <<disk, graph>> /\ StateInv /\ DiskInv
  BY DEF allVars, CommandsInv
<1>2. StateInv'
  BY <1>1, SameState
<1>3. UNCHANGED <<input, mode, pc, nextFile, stmts, defs, nodes, comps, verdict>>
  BY <1>1 DEF vars, work
<1>4. Built' = Built /\ Exported' = Exported /\ Complete' = Complete /\ Payload' = Payload
  BY <1>3 DEF Built, Exported, Complete, Payload, Drawn, Defined, EdgeKind, InSomeCycle, EdgeInCycle, ResolvesIn
<1>5. DiskInv'
  BY <1>1, <1>3, <1>4 DEF DiskInv
<1> QED
  BY <1>2, <1>5 DEF CommandsInv

LEMMA CommandsInvInit == CommandsInit => CommandsInv
BY LoadInit, InitStmts, DiskInit DEF CommandsInv, StateInv

LEMMA CommandsInvNext == CommandsInv /\ [CommandsNext]_allVars => CommandsInv'
<1> SUFFICES ASSUME CommandsInv, [CommandsNext]_allVars PROVE CommandsInv'
  OBVIOUS
<1>1. CASE BundleStep
  BY <1>1, BundleStepState, BundleStepDisk DEF CommandsInv
<1>2. CASE RunGraph
  BY <1>2, RunGraphState, RunGraphDisk DEF CommandsInv
<1>3. CASE GraphLoadStep
  BY <1>3, GraphLoadStepState, GraphLoadStepDisk DEF CommandsInv
<1>4. CASE ExportGraph
  BY <1>4, ExportGraphState, ExportGraphDisk DEF CommandsInv
<1>5. CASE CommandsEnded \/ UNCHANGED allVars
  BY <1>5, SameCommands DEF CommandsEnded
<1> QED
  BY <1>1, <1>2, <1>3, <1>4, <1>5 DEF CommandsNext

LEMMA AlwaysCommandsInv == CommandsSpec => []CommandsInv
BY CommandsInvInit, CommandsInvNext, PTL DEF CommandsSpec

-----------------------------------------------------------------------------
(* What follows *)

\* Every statement of every readable file has been loaded.
LEMMA AllAreLoaded ==
    ASSUME LoadInv, Complete, NEW f \in DOMAIN input.files, input.files[f].status = "ok",
           NEW i \in DOMAIN input.files[f].stmts
    PROVE  <<f, i>> \in LoadedPlaces /\ SourceStatement(<<f, i>>) = input.files[f].stmts[i]
<1>1. PICK files : files = input.files
  OBVIOUS
<1>2. files \in Seq([status : {"ok", "unlexable", "unreadable"}, stmts : Seq(Statement)])
  BY <1>1 DEF LoadInv, LoadTypes, Tree
<1>3. PICK n \in Nat : n = Len(files) /\ DOMAIN files = 1..n
  BY <1>2
<1>4. f \in 1..n /\ nextFile = n + 1
  BY <1>1, <1>3 DEF Complete
<1>5. PICK ss : ss = files[f].stmts
  OBVIOUS
<1>6. ss \in Seq(Statement)
  BY <1>2, <1>3, <1>4, <1>5, FieldsOfFiles
<1>7. i \in Nat /\ i \in DOMAIN ss
  BY <1>1, <1>5, <1>6
<1> QED
  BY <1>1, <1>4, <1>5, <1>7 DEF LoadedPlaces, SourceStatement

LEMMA NoFalseUnknownHolds == CommandsInv => NoFalseUnknown
<1> SUFFICES ASSUME CommandsInv, NEW d \in diags, d.what = "unknown",
                    NEW f \in DOMAIN input.files, input.files[f].status = "ok",
                    NEW i \in DOMAIN input.files[f].stmts
             PROVE  input.files[f].stmts[i].name # d.name
  BY DEF NoFalseUnknown
<1>1. LoadInv
  BY DEF CommandsInv, StateInv
<1>2. d \in {e \in diags : e.what = "unknown"}
  OBVIOUS
<1>3. d \in UnresolvedReferences /\ Complete
  BY <1>1, <1>2 DEF LoadInv, WarningsAreTheirs
<1>4. PICK r \in refs : r.name = d.name /\ r.kind # "scan" /\ \A e \in defs : e.name # r.name
  BY <1>3 DEF UnresolvedReferences
<1>5. PICK a \in LoadedPlaces : \E q \in DepRefs(SourceStatement(a)) : r = [name |-> q.name, kind |-> q.kind, at |-> a]
  BY <1>1 DEF LoadInv, SymbolsAreTheirs
<1>6. r.name \in Name /\ r.name # NoName
  BY <1>1, <1>5, SourcesAreStatements DEF LoadInv
<1>7. <<f, i>> \in LoadedPlaces /\ SourceStatement(<<f, i>>) = input.files[f].stmts[i]
  BY <1>1, <1>3, AllAreLoaded
<1>8. ASSUME input.files[f].stmts[i].name = d.name PROVE FALSE
  <2>1. <<f, i>> \in Named
    BY <1>4, <1>6, <1>7, <1>8 DEF Named
  <2>2. [name |-> SourceStatement(<<f, i>>).name, at |-> <<f, i>>] \in defs
    BY <1>1, <2>1 DEF LoadInv, SymbolsAreTheirs
  <2> QED
    BY <1>4, <1>7, <1>8, <2>2
<1> QED
  BY <1>8

LEMMA UntouchedHolds == CommandsInv => UntouchedOutsideCycles
<1> SUFFICES ASSUME CommandsInv, Built, NEW i \in 1..Cardinality(SourcePlaces),
                    input.dialect = "sqlite" \/ SourceCycle(i) = {i}
             PROVE  /\ stmts[i].src = SourceStatement(stmts[i].at)
                    /\ \A j \in DOMAIN stmts : stmts[j].at = stmts[i].at => j = i
  BY DEF UntouchedOutsideCycles
<1>1. StmtsInv /\ Positions /\ Touched /\ Broken
  BY DEF CommandsInv, StateInv, StmtsInv, Touched, Broken, Built
<1>2. i \in Sources
  BY <1>1, SourcesAreCounted
<1>3. ~CanSplit(i)
  BY DEF CanSplit, InCycle
<1>4. i \notin DOMAIN rewritten
  BY <1>1, <1>3 DEF StmtsInv, OnlyCyclesAreSplit
<1>5. stmts[i].src = SourceStatement(stmts[i].at)
  BY <1>1, <1>2, <1>4 DEF StmtsInv, TextsAreTheirs, Original
<1>6. ASSUME NEW j \in DOMAIN stmts, stmts[j].at = stmts[i].at PROVE j = i
  <2>1. CASE j \in Sources
    BY <1>1, <1>2, <1>6, <2>1 DEF Positions
  <2>2. CASE j \notin Sources
    <3>1. PICK h \in Sources : CanSplit(h) /\ AddedTo(j, h)
      BY <1>1, <2>2 DEF StmtsInv, OnlyCyclesAreSplit
    <3>2. stmts[h].at = stmts[i].at
      BY <1>6, <3>1 DEF AddedTo
    <3>3. \A x, y \in Sources : stmts[x].at = stmts[y].at => x = y
      BY <1>1 DEF Positions
    <3>4. h = i
      BY <1>2, <3>2, <3>3
    <3> QED
      BY <1>3, <3>1, <3>4
  <2> QED
    BY <2>1, <2>2
<1> QED
  BY <1>5, <1>6

\* Without errors, no two statements of the files have the same name.
LEMMA NamesAreUnique ==
    ASSUME StateInv, ~HasError, NEW i \in Sources, NEW j \in Sources,
           Original(i).name = Original(j).name, Original(i).name # NoName
    PROVE  i = j
<1>1. stmts[i].at \in LoadedPlaces /\ stmts[j].at \in LoadedPlaces
  BY DEF StateInv, StmtsInv, Positions
<1>2. PICK a, b : a = stmts[i].at /\ b = stmts[j].at
  OBVIOUS
<1>3. a \in Named /\ b \in Named /\ SourceStatement(a).name = SourceStatement(b).name
  BY <1>1, <1>2 DEF Named, Original
<1>4. /\ a = <<a[1], a[2]>> /\ b = <<b[1], b[2]>>
      /\ a[1] \in Int /\ a[2] \in Int /\ b[1] \in Int /\ b[2] \in Int
  BY <1>1, <1>2 DEF LoadedPlaces
<1>5. a = b \/ Precedes(a, b) \/ Precedes(b, a)
  BY <1>4 DEF Precedes
<1>6. DuplicateAt(a) \notin diags /\ DuplicateAt(b) \notin diags
  BY DEF HasError, DuplicateAt
<1>7. a = b
  BY <1>3, <1>5, <1>6 DEF StateInv, LoadInv, RedefinitionsAreErrors
<1> QED
  BY <1>2, <1>7 DEF StateInv, StmtsInv, Positions

LEMMA ExecutableHolds == CommandsInv => Executable
<1> SUFFICES ASSUME CommandsInv, Built, NEW p \in DOMAIN output, NEW r \in DepRefs(output[p].src),
                    r.kind # "directive" \/ Verbatim(p),
                    NEW q \in (p + 1)..Len(output), ~output[q].synthesized, output[q].src.name = r.name
             PROVE  LazyInSQLite(p, q) /\ r.kind = "auto"
  BY DEF Executable
<1>1. /\ StateInv /\ StmtsInv /\ Positions /\ Touched /\ Broken /\ ~HasError
      /\ nodes = GraphNodes(stmts) /\ adj = Edges(GraphNodes(stmts), Len(stmts))
      /\ order \in Seq(DOMAIN stmts) /\ DOMAIN order = DOMAIN stmts
      /\ \A x, y \in DOMAIN order : order[x] = order[y] => x = y
      /\ \A x \in DOMAIN order : adj[order[x]] \subseteq {order[y] : y \in 1..(x - 1)}
      /\ output = [x \in DOMAIN order |-> stmts[order[x]]]
  BY DEF CommandsInv, StateInv, StmtsInv, OrderIsGood, Touched, Broken, Built
<1>2. PICK m \in Nat : m = Len(stmts) /\ DOMAIN stmts = 1..m /\ Len(output) = m
  <2>1. PICK m \in Nat : m = Len(stmts) /\ DOMAIN stmts = 1..m
    BY <1>1, StmtShapes
  <2>2. output = [x \in 1..m |-> stmts[order[x]]]
    BY <1>1, <2>1
  <2>3. Len(output) = m
    BY <2>1, <2>2
  <2> QED
    BY <2>1, <2>3
<1>3. p \in 1..m /\ q \in 1..m /\ p < q
  BY <1>1, <1>2
<1>4. PICK i \in 1..m : i = order[p] /\ output[p] = stmts[i]
  BY <1>1, <1>2, <1>3
<1>5. PICK j \in 1..m : j = order[q] /\ output[q] = stmts[j]
  BY <1>1, <1>2, <1>3
<1>6. i # j /\ j \in Sources
  <2>1. i = j => p = q
    BY <1>1, <1>2, <1>3, <1>4, <1>5
  <2>2. p # q
    BY <1>3
  <2>3. j \in Sources
    BY <1>2, <1>5 DEF Sources
  <2> QED
    BY <2>1, <2>2, <2>3
<1>7. \A h \in Sources : stmts[h].src.name = Original(h).name /\ Original(h) \in Statement
                         /\ stmts[h].src.kind = Original(h).kind
  <2> SUFFICES ASSUME NEW h \in Sources
               PROVE  stmts[h].src.name = Original(h).name /\ stmts[h].src.kind = Original(h).kind
                      /\ Original(h) \in Statement
    OBVIOUS
  <2>1. \/ stmts[h].src = Original(h)
        \/ stmts[h].src = [Original(h) EXCEPT !.items = rewritten[h]]
    BY <1>1 DEF StmtsInv, TextsAreTheirs
  <2>2. Original(h) \in Statement
    BY <1>1, SourcesAreStatements DEF StateInv, LoadInv, Positions, Original
  <2> QED
    BY <2>1, <2>2 DEF Statement
<1>8. stmts[i] \in Stmt /\ r.name \in Name /\ r.name # NoName
  <2>1. stmts[i] \in Stmt
    BY <1>1, <1>2, StmtShapes
  <2>2. stmts[i].src \in Statement
    BY <2>1 DEF Stmt
  <2> QED
    BY <1>4, <2>1, <2>2, NamesOf, NamesAssumption
<1>9. Original(j).name = r.name
  BY <1>5, <1>6, <1>7
\* j is the only statement that defines the name.
<1>10. \A k \in Sources : Original(k).name = r.name => k = j
  BY <1>1, <1>6, <1>8, <1>9, NamesAreUnique
\* A dependency would have put it earlier.
<1>11. r.name \notin stmts[i].deps
  <2> SUFFICES ASSUME r.name \in stmts[i].deps PROVE FALSE
    OBVIOUS
  <2>1. nodes.name = [h \in 1..m |-> IF stmts[h].synthesized THEN NoName ELSE stmts[h].src.name]
        /\ nodes.deps = [h \in 1..m |-> stmts[h].deps]
    BY <1>1, <1>2 DEF GraphNodes
  <2>2. nodes.name[j] = r.name /\ r.name \in nodes.deps[i]
    BY <1>5, <2>1
  <2>3. \A k \in 1..m : nodes.name[k] = r.name => k = j
    BY <1>2, <1>7, <1>8, <1>10, <2>1 DEF Sources
  <2>4. Graph(m)!WinsName(nodes, j)
    BY <2>2, <2>3 DEF Graph!WinsName, Graph!Node
  <2>5. j \in Graph(m)!Targets(nodes, i)
    BY <1>6, <2>2, <2>4 DEF Graph!Targets, Graph!Node
  <2>6. j \in adj[i]
    BY <1>1, <1>2, <2>5 DEF Edges
  <2>7. PICK y \in 1..(p - 1) : order[y] = j
    <3>1. adj[i] \subseteq {order[y] : y \in 1..(p - 1)}
      BY <1>1, <1>2, <1>3, <1>4
    <3> QED
      BY <2>6, <3>1
  <2>8. y \in 1..m /\ y # q
    BY <1>3, <2>7
  <2> QED
    BY <1>1, <1>2, <1>3, <1>5, <2>7, <2>8
<1>12. i \in Sources
  <2> SUFFICES ASSUME i \notin Sources PROVE FALSE
    OBVIOUS
  <2>1. stmts[i].deps = Deps(stmts[i].src)
    BY <1>1, <1>2 DEF StmtsInv, OnlyCyclesAreSplit, AddedTo
  <2> QED
    BY <1>4, <1>11, <2>1 DEF Deps
<1>13. ~(i \in DOMAIN rewritten /\ r.kind = "directive")
  <2> SUFFICES ASSUME i \in DOMAIN rewritten, r.kind = "directive" PROVE FALSE
    OBVIOUS
  <2>1. stmts[i].src = SourceStatement(stmts[i].at)
    BY <1>4 DEF Verbatim, SourceOf
  <2>2. stmts[i].src = [Original(i) EXCEPT !.items = rewritten[i]] /\ rewritten[i] # Original(i).items
    BY <1>1, <1>12 DEF StmtsInv, TextsAreTheirs, OnlyCyclesAreSplit
  <2>3. Original(i) \in Statement
    BY <1>7, <1>12
  <2>4. stmts[i].src.items = rewritten[i]
    BY <2>2, <2>3 DEF Statement
  <2> QED
    BY <2>1, <2>2, <2>4 DEF Original
<1>14. Lazy(i, r)
  BY <1>1, <1>4, <1>11, <1>12, <1>13 DEF StmtsInv, DepsAreKept
<1>15. Original(j).kind = "table"
  <2>1. \A k \in Sources : Original(k).name = r.name => k <= j
    BY <1>10
  <2> QED
    BY <1>6, <1>9, <1>14, <2>1 DEF Lazy
<1> QED
  BY <1>4, <1>5, <1>6, <1>7, <1>12, <1>14, <1>15 DEF LazyInSQLite, Lazy

LEMMA ExternalsHold == CommandsInv => ExternalsAreTheUnknowns
<1> SUFFICES ASSUME CommandsInv, Exported
             PROVE  {v.id : v \in {w \in graph.nodes : w.external}} =
                       {d.name : d \in {w \in diags : w.what = "unknown" /\
                                           \E i \in DOMAIN stmts : stmts[i].at = w.at /\ stmts[i].src.name # NoName}}
  BY DEF ExternalsAreTheUnknowns
<1>1. /\ LoadInv /\ Positions /\ Complete /\ graph = Payload
      /\ \A i \in DOMAIN stmts : AsLoaded(i)
  BY DEF CommandsInv, StateInv, StmtsInv, DiskInv, LoadedAsTheyAre, Untouched, Exported
<1>2. DOMAIN stmts = Sources
  BY <1>1 DEF Sources, AsLoaded, Loaded
<1>3. \A i \in DOMAIN stmts : stmts[i].at \in LoadedPlaces /\ stmts[i].src = SourceStatement(stmts[i].at)
  BY <1>1, <1>2 DEF Positions, AsLoaded, Loaded, Original
<1>4. \A a \in LoadedPlaces : \E i \in DOMAIN stmts : stmts[i].at = a
  BY <1>1, <1>2 DEF Positions
<1> DEFINE IsDrawn(n) == \E i \in DOMAIN stmts : \E r \in Drawn(stmts[i]) : n = r.name
<1>5. ASSUME NEW n
      PROVE  n \in {v.id : v \in {w \in graph.nodes : w.external}} <=> n \notin Defined /\ IsDrawn(n)
  <2>1. PICK arrows :
           arrows = UNION {{[from |-> stmts[i].src.name, to |-> r.name, kind |-> EdgeKind(stmts[i], r)] :
                               r \in Drawn(stmts[i])} : i \in DOMAIN stmts}
    OBVIOUS
  <2>2. PICK ids : ids = Defined \cup {a.to : a \in arrows}
    OBVIOUS
  <2>3. graph.nodes = {[id |-> x, external |-> x \notin Defined,
                        inCycle |-> \E i \in DOMAIN stmts : stmts[i].src.name = x /\ InSomeCycle(i)] : x \in ids}
    BY <1>1, <2>1, <2>2 DEF Payload
  <2>4. n \in {v.id : v \in {w \in graph.nodes : w.external}} <=> n \in ids /\ n \notin Defined
    <3> DEFINE Cyclic(x) == \E i \in DOMAIN stmts : stmts[i].src.name = x /\ InSomeCycle(i)
    <3> DEFINE Node(x) == [id |-> x, external |-> x \notin Defined, inCycle |-> Cyclic(x)]
    <3>1. graph.nodes = {Node(x) : x \in ids}
      BY <2>3
    <3>2. \A x : Node(x).id = x /\ (Node(x).external <=> x \notin Defined)
      OBVIOUS
    <3> HIDE DEF Node
    <3>3. PICK drawn : drawn = graph.nodes
      OBVIOUS
    <3> QED
      BY <3>1, <3>2, <3>3
  <2>5. (\E a \in arrows : n = a.to) <=> IsDrawn(n)
    <3> DEFINE Arrow(i, r) == [from |-> stmts[i].src.name, to |-> r.name, kind |-> EdgeKind(stmts[i], r)]
    <3>1. \A a : a \in arrows <=> \E i \in DOMAIN stmts : \E r \in Drawn(stmts[i]) : a = Arrow(i, r)
      BY <2>1
    <3>2. \A i, r : Arrow(i, r).to = r.name
      OBVIOUS
    <3> HIDE DEF Arrow
    <3> QED
      BY <3>1, <3>2
  <2> QED
    BY <2>2, <2>4, <2>5
<1>6. \A x : x \in Defined <=> \E e \in defs : e.name = x
  BY DEF Defined
<1>7. {d \in diags : d.what = "unknown"} = UnresolvedReferences
  BY <1>1 DEF LoadInv, WarningsAreTheirs, Exported
<1> DEFINE IsWarned(n) ==
             \E r \in refs : /\ r.name = n /\ r.kind # "scan" /\ \A e \in defs : e.name # r.name
                             /\ \E i \in DOMAIN stmts : stmts[i].at = r.at /\ stmts[i].src.name # NoName
<1>8. ASSUME NEW n
      PROVE  n \in {d.name : d \in {w \in diags : w.what = "unknown" /\
                                       \E i \in DOMAIN stmts : stmts[i].at = w.at /\ stmts[i].src.name # NoName}}
                <=> IsWarned(n)
  <2>1. n \in {d.name : d \in {w \in diags : w.what = "unknown" /\
                                  \E i \in DOMAIN stmts : stmts[i].at = w.at /\ stmts[i].src.name # NoName}}
           <=> \E w \in UnresolvedReferences :
                  /\ \E i \in DOMAIN stmts : stmts[i].at = w.at /\ stmts[i].src.name # NoName
                  /\ n = w.name
    BY <1>7
  <2>2. (\E w \in UnresolvedReferences :
            /\ \E i \in DOMAIN stmts : stmts[i].at = w.at /\ stmts[i].src.name # NoName
            /\ n = w.name) <=> IsWarned(n)
    <3> DEFINE Warning(r) == [severity |-> "warning", what |-> "unknown", at |-> r.at, name |-> r.name]
    <3> DEFINE OfNamed(at) == \E i \in DOMAIN stmts : stmts[i].at = at /\ stmts[i].src.name # NoName
    <3>1. \A w : w \in UnresolvedReferences <=>
                 \E r \in refs : r.kind # "scan" /\ (\A e \in defs : e.name # r.name) /\ w = Warning(r)
      BY DEF UnresolvedReferences
    <3>2. \A r : Warning(r).at = r.at /\ Warning(r).name = r.name
      OBVIOUS
    <3>3. IsWarned(n) <=> \E r \in refs : /\ r.name = n /\ r.kind # "scan" /\ \A e \in defs : e.name # r.name
                                          /\ OfNamed(r.at)
      OBVIOUS
    <3> HIDE DEF Warning, OfNamed, IsWarned
    <3>4. (\E w \in UnresolvedReferences : OfNamed(w.at) /\ n = w.name) <=> IsWarned(n)
      BY <3>1, <3>2, <3>3
    <3> QED
      BY <3>4 DEF OfNamed
  <2> QED
    BY <2>1, <2>2
<1>9. ASSUME NEW n, IsDrawn(n), n \notin Defined PROVE IsWarned(n)
  <2>1. PICK i \in DOMAIN stmts : \E r \in Drawn(stmts[i]) : n = r.name
    BY <1>9
  <2>2. PICK r \in Drawn(stmts[i]) : n = r.name
    BY <2>1
  <2>3. r \in DepRefs(stmts[i].src) /\ stmts[i].src.name # NoName /\ r.kind # "scan"
    BY <1>9, <2>2 DEF Drawn
  <2>4. PICK a \in LoadedPlaces : a = stmts[i].at
    BY <1>3
  <2>5. PICK q : q = [name |-> r.name, kind |-> r.kind, at |-> a]
    OBVIOUS
  <2>6. q \in refs
    BY <1>1, <1>3, <2>3, <2>4, <2>5 DEF LoadInv, SymbolsAreTheirs
  <2>7. q.name = n /\ q.kind # "scan" /\ q.at = stmts[i].at
    BY <2>2, <2>3, <2>4, <2>5
  <2> QED
    BY <1>6, <1>9, <2>3, <2>6, <2>7
<1>10. ASSUME NEW n, IsWarned(n) PROVE IsDrawn(n) /\ n \notin Defined
  <2>1. PICK q \in refs :
           /\ q.name = n /\ q.kind # "scan" /\ \A e \in defs : e.name # q.name
           /\ \E i \in DOMAIN stmts : stmts[i].at = q.at /\ stmts[i].src.name # NoName
    BY <1>10
  <2>2. PICK i \in DOMAIN stmts : stmts[i].at = q.at /\ stmts[i].src.name # NoName
    BY <2>1
  <2>3. PICK a \in LoadedPlaces :
           \E r \in DepRefs(SourceStatement(a)) : q = [name |-> r.name, kind |-> r.kind, at |-> a]
    BY <1>1 DEF LoadInv, SymbolsAreTheirs
  <2>4. PICK r \in DepRefs(SourceStatement(a)) : q = [name |-> r.name, kind |-> r.kind, at |-> a]
    BY <2>3
  <2>5. stmts[i].at = a /\ stmts[i].src = SourceStatement(a)
    BY <1>3, <2>2, <2>4
  <2>6. n \notin Defined
    BY <1>6, <2>1
  <2>7. a \in Named
    BY <2>2, <2>5 DEF Named
  <2>8. stmts[i].src.name \in Defined
    <3>1. [name |-> SourceStatement(a).name, at |-> a] \in defs
      BY <1>1, <2>7 DEF LoadInv, SymbolsAreTheirs
    <3>2. PICK e \in defs : e.name = SourceStatement(a).name
      BY <3>1
    <3> QED
      BY <1>6, <2>5, <3>2
  <2>9. r \in Drawn(stmts[i]) /\ n = r.name
    BY <2>1, <2>2, <2>4, <2>5, <2>6, <2>8 DEF Drawn
  <2> QED
    BY <2>6, <2>9
<1> HIDE DEF IsDrawn, IsWarned
<1>11. \A n : n \in {v.id : v \in {w \in graph.nodes : w.external}} <=>
              n \in {d.name : d \in {w \in diags : w.what = "unknown" /\
                                        \E i \in DOMAIN stmts : stmts[i].at = w.at /\ stmts[i].src.name # NoName}}
  BY <1>5, <1>8, <1>9, <1>10
<1> QED
  BY <1>11

LEMMA BundleIsReportedHolds == CommandsInv => BundleInTreeIsReported
<1> SUFFICES ASSUME CommandsInv, Exported, disk["inside"] = "build", Defined # {}
             PROVE  \E d \in diags : d.what = "duplicate" /\ d.at[1] = Len(input.files)
  BY DEF BundleInTreeIsReported
<1>1. LoadInv /\ Complete /\ LastIsTheBundle(input.files) /\ DiskInv
  BY DEF CommandsInv, StateInv, DiskInv, Exported, Built
<1>2. PICK files : files = input.files
  OBVIOUS
<1>3. files \in Seq([status : {"ok", "unlexable", "unreadable"}, stmts : Seq(Statement)])
  BY <1>1, <1>2 DEF LoadInv, LoadTypes, Tree
<1>4. PICK n \in Nat : n = Len(files) /\ DOMAIN files = 1..n /\ nextFile = n + 1 /\ n > 0
  BY <1>1, <1>2, <1>3 DEF Complete, LoadInv, LoadTypes, Tree
<1>5. /\ files[n].status = "ok"
      /\ NamesIn(files, n) = UNION {NamesIn(files, f) : f \in {e \in 1..(n - 1) : files[e].status = "ok"}}
  BY <1>1, <1>2, <1>4 DEF LastIsTheBundle
<1> DEFINE Defines(f, k, x) == k \in DOMAIN files[f].stmts /\ x = files[f].stmts[k].name
<1>6. \A f, x : x \in NamesIn(files, f) <=> x # NoName /\ \E k : Defines(f, k, x)
  BY DEF NamesIn
<1>7. ASSUME NEW f \in 1..n, files[f].status = "ok", NEW k, NEW x, Defines(f, k, x), x # NoName
      PROVE  <<f, k>> \in Named /\ SourceStatement(<<f, k>>).name = x /\ k \in Nat
  <2>1. <<f, k>> \in LoadedPlaces /\ SourceStatement(<<f, k>>) = files[f].stmts[k]
    BY <1>1, <1>2, <1>4, <1>7, AllAreLoaded
  <2>2. k \in Nat
    BY <2>1 DEF LoadedPlaces
  <2> QED
    BY <1>7, <2>1, <2>2 DEF Named
<1>8. PICK a \in Named : TRUE
  BY <1>1 DEF Defined, LoadInv, SymbolsAreTheirs
<1>9. PICK x : x = SourceStatement(a).name /\ x # NoName
  BY DEF Named
<1>10. PICK f, k : f = a[1] /\ k = a[2] /\ f \in 1..n /\ files[f].status = "ok" /\ Defines(f, k, x)
  BY <1>2, <1>4, <1>9 DEF Named, LoadedPlaces, SourceStatement
<1>11. x \in NamesIn(files, n)
  <2>1. x \in NamesIn(files, f)
    BY <1>6, <1>9, <1>10
  <2>2. f = n \/ f \in 1..(n - 1)
    BY <1>4, <1>10
  <2> QED
    BY <1>5, <1>10, <2>1, <2>2
<1> HIDE DEF Defines
<1>12. PICK e \in 1..(n - 1) : files[e].status = "ok" /\ x \in NamesIn(files, e)
  BY <1>5, <1>11
<1>13. PICK i, j : Defines(n, i, x) /\ Defines(e, j, x)
  BY <1>6, <1>11, <1>12
<1>14. e \in 1..n /\ n \in 1..n /\ e < n
  BY <1>4, <1>12
<1>15. /\ <<e, j>> \in Named /\ SourceStatement(<<e, j>>).name = x
       /\ <<n, i>> \in Named /\ SourceStatement(<<n, i>>).name = x
  BY <1>5, <1>7, <1>9, <1>12, <1>13, <1>14
<1>16. Precedes(<<e, j>>, <<n, i>>)
  BY <1>14 DEF Precedes
<1>17. DuplicateAt(<<n, i>>) \in diags
  BY <1>1, <1>15, <1>16 DEF LoadInv, RedefinitionsAreErrors
<1>18. DuplicateAt(<<n, i>>).what = "duplicate" /\ DuplicateAt(<<n, i>>).at = <<n, i>>
  BY DEF DuplicateAt
<1> QED
  BY <1>2, <1>4, <1>17, <1>18

-----------------------------------------------------------------------------

\* README, "Dependency ordering": whatever the schema, a bundle that is
\* emitted can be executed from the top (breakFKCycles, breakOneSCC, Sort and
\* Build together).
THEOREM BundleRunsFromTheTop == CommandsSpec => []Executable
BY AlwaysCommandsInv, ExecutableHolds, PTL

\* Breaking cycles touches only statements that lie on one, and none for
\* SQLite.
THEOREM OthersStayUntouched == CommandsSpec => []UntouchedOutsideCycles
BY AlwaysCommandsInv, UntouchedHolds, PTL

\* Load warns of no name that one of the files defines, in whatever order
\* the files are read and wherever a command stops.
THEOREM UnknownNamesAreUnknown == CommandsSpec => []NoFalseUnknown
BY AlwaysCommandsInv, NoFalseUnknownHolds, PTL

\* graphexport.Build and Load agree on the names no file defines.
THEOREM ExternalsAreWarnedOf == CommandsSpec => []ExternalsAreTheUnknowns
BY AlwaysCommandsInv, ExternalsHold, PTL

\* A bundle written among its own sources is reported as soon as the tree is
\* loaded again.
THEOREM OwnBundleIsReported == CommandsSpec => []BundleInTreeIsReported
BY AlwaysCommandsInv, BundleIsReportedHolds, PTL

=============================================================================
