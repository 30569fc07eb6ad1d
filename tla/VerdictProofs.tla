--------------------------- MODULE VerdictProofs ----------------------------
(***************************************************************************)
(* Proofs about how check and bundle end, for any schema tree: bundle      *)
(* succeeds exactly when check does, a cycle error means a cycle that      *)
(* cannot be broken, and no statement or foreign key is lost on the way.   *)
(*                                                                         *)
(* The first part says what the commands make of the statements of the     *)
(* files without a word about their steps: which cycles there are, what is *)
(* extracted from them, and which dependencies are left to sort by.  The   *)
(* second part shows that this is what the steps compute, the third what   *)
(* becomes of the foreign keys they move.                                  *)
(***************************************************************************)
EXTENDS CommandProofs

-----------------------------------------------------------------------------
(* What becomes of a sequence ss of statements of files *)

AreSources(ss) == ss \in Seq(Stmt) /\ \A i \in DOMAIN ss : ~ss[i].synthesized /\ ss[i].deps = Deps(ss[i].src)

AdjOf(ss) == Edges(GraphNodes(ss), Len(ss))
CycleOf(ss, i) == Graph(Len(ss))!CycleMates(AdjOf(ss), i)
Wins(ss, j) == Graph(Len(ss))!WinsName(GraphNodes(ss), j)

\* The statements on i's cycle that it depends on by the name m.
Inside(ss, i, m) == {j \in CycleOf(ss, i) \ {i} : ss[j].src.name = m /\ Wins(ss, j)}

\* AllForeignKeys, NeededTargets, ToExtract and Splittable, for one statement.
OnlyForeignKeys(ss, i) ==
    \A r \in DepRefs(ss[i].src) : Inside(ss, i, r.name) # {} => ss[i].src.kind = "table" /\ r.kind = "auto"
NeededBy(ss, i) == {m \in AutoNames(ss[i].src) : Inside(ss, i, m) # {}}
ExtractedFrom(ss, i) == {k \in Clauses(ss[i].src) : ss[i].src.items[k].target \in NeededBy(ss, i)}
Separable(ss, i) ==
    /\ Extractable(ss[i].src)
    /\ \A m \in NeededBy(ss, i) : \E k \in ExtractedFrom(ss, i) : ss[i].src.items[k].target = m

\* lazy: the dialect resolves foreign keys when rows are written.
Breakable(ss, lazy, i) == OnlyForeignKeys(ss, i) /\ (lazy \/ Separable(ss, i))

\* What statement i depends on once cycles are broken.
RewrittenText(s, E) == [s EXCEPT !.items = Remove(s.items, E)]
DepsLeft(ss, lazy, i) ==
    IF CycleOf(ss, i) = {i} THEN Deps(ss[i].src)
    ELSE IF lazy THEN {m \in Deps(ss[i].src) : Inside(ss, i, m) = {}}
    ELSE IF ExtractedFrom(ss, i) = {} THEN Deps(ss[i].src)
    ELSE Deps([RewrittenText(ss[i].src, ExtractedFrom(ss, i)) EXCEPT !.requires = {}])
AdjLeft(ss, lazy) ==
    [i \in 1..Len(ss) |->
        {j \in (1..Len(ss)) \ {i} : ss[j].src.name \in DepsLeft(ss, lazy, i) /\ Wins(ss, j)}]

\* Some statement of every set of them waits for none of the set.
Acyclic(n, a) == \A S \in SUBSET (1..n) : S # {} => \E i \in S : a[i] \cap S = {}

\* Every cycle can be broken, and then there is none.
CanBeOrdered(ss, lazy) ==
    /\ \A i \in 1..Len(ss) : CycleOf(ss, i) # {i} => Breakable(ss, lazy, i)
    /\ Acyclic(Len(ss), AdjLeft(ss, lazy))

LEMMA SourcesShape ==
    ASSUME NEW ss, AreSources(ss)
    PROVE  /\ Len(ss) \in Nat /\ DOMAIN ss = 1..Len(ss)
           /\ \A i \in 1..Len(ss) : ss[i].src \in Statement /\ ss[i].deps = Deps(ss[i].src)
           /\ GraphNodes(ss).name = [i \in 1..Len(ss) |-> ss[i].src.name]
           /\ GraphNodes(ss).deps = [i \in 1..Len(ss) |-> Deps(ss[i].src)]
<1>1. Len(ss) \in Nat /\ DOMAIN ss = 1..Len(ss) /\ \A i \in 1..Len(ss) : ss[i] \in Stmt
  BY DEF AreSources
<1>2. \A i \in 1..Len(ss) : ss[i].src \in Statement /\ ss[i].deps = Deps(ss[i].src) /\ ~ss[i].synthesized
  BY <1>1 DEF AreSources, Stmt
<1>3. GraphNodes(ss).name = [i \in 1..Len(ss) |-> IF ss[i].synthesized THEN NoName ELSE ss[i].src.name]
  BY <1>1 DEF GraphNodes
<1>4. GraphNodes(ss).deps = [i \in 1..Len(ss) |-> ss[i].deps]
  BY <1>1 DEF GraphNodes
<1>5. \A i \in 1..Len(ss) : (IF ss[i].synthesized THEN NoName ELSE ss[i].src.name) = ss[i].src.name
  BY <1>2
<1>6. GraphNodes(ss).name = [i \in 1..Len(ss) |-> ss[i].src.name]
  BY <1>3, <1>5
<1>7. GraphNodes(ss).deps = [i \in 1..Len(ss) |-> Deps(ss[i].src)]
  BY <1>2, <1>4
<1> QED
  BY <1>1, <1>2, <1>6, <1>7

LEMMA AdjShape ==
    ASSUME NEW ss, AreSources(ss)
    PROVE  /\ AdjOf(ss) \in [1..Len(ss) -> SUBSET (1..Len(ss))]
           /\ \A i, j \in 1..Len(ss) :
                 j \in AdjOf(ss)[i] <=> j # i /\ ss[j].src.name \in Deps(ss[i].src) /\ Wins(ss, j)
           /\ \A i \in 1..Len(ss) : CycleOf(ss, i) \subseteq 1..Len(ss) /\ i \in CycleOf(ss, i)
<1>1. PICK n \in Nat : n = Len(ss)
  BY SourcesShape
<1>2. AdjOf(ss) = [i \in 1..n |-> Graph(n)!Targets(GraphNodes(ss), i)]
  BY <1>1 DEF AdjOf, Edges
<1>3. \A i \in 1..n : Graph(n)!Targets(GraphNodes(ss), i) =
         {j \in (1..n) \ {i} : ss[j].src.name \in Deps(ss[i].src) /\ Wins(ss, j)}
  <2> SUFFICES ASSUME NEW i \in 1..n
               PROVE  Graph(n)!Targets(GraphNodes(ss), i) =
                         {j \in (1..n) \ {i} : ss[j].src.name \in Deps(ss[i].src) /\ Wins(ss, j)}
    OBVIOUS
  <2>1. Graph(n)!Targets(GraphNodes(ss), i) =
           {j \in (1..n) \ {i} : GraphNodes(ss).name[j] \in GraphNodes(ss).deps[i] /\ Wins(ss, j)}
    <3>1. \A j : Wins(ss, j) = Graph(n)!WinsName(GraphNodes(ss), j)
      BY <1>1 DEF Wins
    <3> QED
      BY <3>1 DEF Graph!Targets, Graph!Node
  <2>2. /\ GraphNodes(ss).deps[i] = Deps(ss[i].src)
        /\ \A j \in 1..n : GraphNodes(ss).name[j] = ss[j].src.name
    <3>1. PICK name, deps : name = GraphNodes(ss).name /\ deps = GraphNodes(ss).deps
      OBVIOUS
    <3>2. name = [h \in 1..n |-> ss[h].src.name] /\ deps = [h \in 1..n |-> Deps(ss[h].src)]
      BY <1>1, <3>1, SourcesShape
    <3>3. deps[i] = Deps(ss[i].src) /\ \A j \in 1..n : name[j] = ss[j].src.name
      BY <3>2
    <3> QED
      BY <3>1, <3>3
  <2> QED
    BY <2>1, <2>2
<1>4. AdjOf(ss) \in [1..n -> SUBSET (1..n)]
  BY <1>2, <1>3
<1>5. \A i \in 1..n : CycleOf(ss, i) \subseteq 1..n /\ i \in CycleOf(ss, i)
  BY <1>1, <1>4, ReachableIsClosed DEF CycleOf, Graph!CycleMates
<1> QED
  BY <1>1, <1>2, <1>3, <1>4, <1>5

\* The statements that are on a cycle together are on the same one.
LEMMA CycleIsShared ==
    ASSUME NEW ss, AreSources(ss), NEW i \in 1..Len(ss), NEW j \in CycleOf(ss, i)
    PROVE  j \in 1..Len(ss) /\ i \in CycleOf(ss, j) /\ CycleOf(ss, j) = CycleOf(ss, i)
<1>1. Len(ss) \in Nat /\ AdjOf(ss) \in [1..Len(ss) -> SUBSET (1..Len(ss))]
  BY SourcesShape, AdjShape
<1> QED
  BY <1>1, MatesAgree DEF CycleOf

-----------------------------------------------------------------------------
(* Least sets *)

\* Among some subsets of a finite set, one has none of the others below it.
LEMMA SmallestSubset ==
    ASSUME NEW n \in Nat, NEW F, F # {}, \A S \in F : S \subseteq 1..n
    PROVE  \E S \in F : \A T \in F : T \subseteq S => T = S
<1>1. IsFiniteSet(1..n)
  BY FS_Interval
<1>2. \A S \in SUBSET (1..n) : IsFiniteSet(S)
  BY <1>1, FS_Subset
<1>3. F \subseteq FiniteSubsetsOf(1..n)
  BY <1>2 DEF FiniteSubsetsOf
<1>4. PICK S \in F : \A T \in F : <<T, S>> \notin StrictSubsetOrdering(1..n)
  BY <1>3, FS_StrictSubsetOrderingWellFounded, WFMin
<1>5. \A T \in F : T \subseteq S => T = S
  <2> SUFFICES ASSUME NEW T \in F, T \subseteq S, T # S PROVE FALSE
    OBVIOUS
  <2>1. <<T, S>> \in StrictSubsetOrdering(1..n)
    BY DEF StrictSubsetOrdering
  <2> QED
    BY <1>4, <2>1
<1> QED
  BY <1>5

LEMMA ReachesMore ==
    ASSUME NEW n \in Nat, NEW a \in [1..n -> SUBSET (1..n)], NEW b \in [1..n -> SUBSET (1..n)],
           \A i \in 1..n : b[i] \subseteq a[i], NEW v \in 1..n
    PROVE  Graph(n)!Reachable(b, v) \subseteq Graph(n)!Reachable(a, v)
<1>1. /\ Graph(n)!Reachable(a, v) \in SUBSET (1..n) /\ a[v] \subseteq Graph(n)!Reachable(a, v)
      /\ \A w \in Graph(n)!Reachable(a, v) : a[w] \subseteq Graph(n)!Reachable(a, v)
  BY ReachableIsClosed
<1> QED
  BY <1>1, ReachableIsLeast

\* A graph that cannot be ordered has an edge on a cycle.
LEMMA EdgeOnACycle ==
    ASSUME NEW n \in Nat, NEW a \in [1..n -> SUBSET (1..n)], \A i \in 1..n : i \notin a[i], ~Acyclic(n, a)
    PROVE  \E j \in 1..n : \E k \in a[j] : k \in Graph(n)!CycleMates(a, j)
<1>1. PICK S \in SUBSET (1..n) : S # {} /\ \A i \in S : a[i] \cap S # {}
  BY DEF Acyclic
<1>2. PICK F : F = {R \in SUBSET (1..n) : \E i \in S : R = Graph(n)!Reachable(a, i)}
  OBVIOUS
<1>3. \A i \in S : Graph(n)!Reachable(a, i) \in F
  <2>1. \A i \in S : Graph(n)!Reachable(a, i) \in SUBSET (1..n)
    BY ReachableIsClosed
  <2> QED
    BY <1>2, <2>1
<1>4. PICK R \in F : \A T \in F : T \subseteq R => T = R
  <2>1. F # {}
    BY <1>1, <1>3
  <2>2. \A R \in F : R \subseteq 1..n
    BY <1>2
  <2> QED
    BY <2>1, <2>2, SmallestSubset
<1>5. PICK i \in S : R = Graph(n)!Reachable(a, i)
  BY <1>2
<1>6. PICK j \in S : j \in a[i]
  BY <1>1
<1>7. j \in Graph(n)!Reachable(a, i) /\ Graph(n)!Reachable(a, j) \subseteq Graph(n)!Reachable(a, i)
  BY <1>6, ReachableIsClosed, ReachableIsTransitive
<1>8. j \in Graph(n)!Reachable(a, j)
  BY <1>3, <1>4, <1>5, <1>7
<1>9. Graph(n)!CycleMates(a, j) # {j}
  BY <1>8, MatesMeanACycle
<1> QED
  BY <1>9, EdgeInside

-----------------------------------------------------------------------------
(* What Remove leaves *)

LEMMA RemoveKeepsLeft ==
    ASSUME NEW items \in Seq(Item), NEW E \in SUBSET (DOMAIN items), NEW S, S = Left(items, E)
    PROVE  \E f \in Bijection(1..Cardinality(S), S) :
              Remove(items, E) =
                 [j \in 1..Cardinality(S) |->
                     IF f[j] \in E /\ items[f[j]].form = "inline" THEN Plain ELSE items[f[j]]]
<1>1. PICK n \in Nat : DOMAIN items = 1..n
  OBVIOUS
<1>2. S \in SUBSET (1..n)
  BY <1>1 DEF Left
<1>3. PICK c : c = Cardinality(S)
  OBVIOUS
<1>4. IsFiniteSet(S) /\ c \in Nat /\ IsFiniteSet(1..c) /\ Cardinality(1..c) = c
  <2>1. IsFiniteSet(S)
    <3>1. IsFiniteSet(1..n)
      BY FS_Interval
    <3> QED
      BY <1>2, <3>1, FS_Subset
  <2>2. c \in Nat
    BY <1>3, <2>1, FS_CardinalityType
  <2>3. IsFiniteSet(1..c) /\ Cardinality(1..c) = c
    BY <2>2, FS_Interval
  <2> QED
    BY <2>1, <2>2, <2>3
<1> DEFINE nth(j) == CHOOSE k \in S : Rank(S, k) = j
<1>5. \A j \in 1..c : nth(j) \in S /\ Rank(S, nth(j)) = j
  <2>1. \A j \in 1..c : \E k \in S : Rank(S, k) = j
    BY <1>2, <1>3, RanksAreTaken
  <2> QED
    BY <2>1
<1>6. Remove(items, E) = [j \in 1..c |-> IF nth(j) \in E /\ items[nth(j)].form = "inline" THEN Plain ELSE items[nth(j)]]
  BY <1>3 DEF Remove, Left, Rank
<1> HIDE DEF nth
<1> DEFINE f == [j \in 1..c |-> nth(j)]
<1>7. f \in Injection(1..c, S)
  BY <1>5 DEF Injection, IsInjective
<1>8. f \in Surjection(1..c, S)
  BY <1>3, <1>4, <1>7, FS_Injection
<1>9. f \in Bijection(1..c, S)
  BY <1>7, <1>8 DEF Bijection
<1>10. Remove(items, E) = [j \in 1..c |-> IF f[j] \in E /\ items[f[j]].form = "inline" THEN Plain ELSE items[f[j]]]
  BY <1>6
<1> HIDE DEF f
<1> QED
  BY <1>3, <1>9, <1>10

\* A foreign key that is left was not to be removed, or was skipped.
LEMMA TargetsLeft ==
    ASSUME NEW items \in Seq(Item), NEW E \in SUBSET (DOMAIN items), NEW t \in ForeignTargets(Remove(items, E))
    PROVE  \E k \in DOMAIN items : items[k].target = t /\ (k \notin E \/ SkippedByRemove(items, E, k))
<1>1. PICK S : S = Left(items, E)
  OBVIOUS
<1>2. PICK f \in Bijection(1..Cardinality(S), S) :
         Remove(items, E) =
            [j \in 1..Cardinality(S) |->
                IF f[j] \in E /\ items[f[j]].form = "inline" THEN Plain ELSE items[f[j]]]
  BY <1>1, RemoveKeepsLeft
<1>3. PICK j \in 1..Cardinality(S) : Remove(items, E)[j].target = t /\ t # NoName
  BY <1>2 DEF ForeignTargets
<1>4. f[j] \in S
  BY <1>2 DEF Bijection, Injection
<1>5. Remove(items, E)[j] = items[f[j]] /\ ~(f[j] \in E /\ items[f[j]].form = "inline")
  BY <1>2, <1>3 DEF Plain
<1> QED
  BY <1>1, <1>3, <1>4, <1>5 DEF Left

-----------------------------------------------------------------------------
(* The dependencies that are left *)

LEMMA ClausesAre ==
    ASSUME NEW s \in Statement
    PROVE  /\ s.items \in Seq(Item) /\ Clauses(s) \subseteq DOMAIN s.items
           /\ \A k \in DOMAIN s.items :
                 Extractable(s) /\ s.items[k].target # NoName => k \in Clauses(s)
<1>1. s.items \in Seq(Item)
  BY DEF Statement
<1>2. \A k \in DOMAIN s.items : s.items[k] \in Item
  BY <1>1
<1>3. \A k \in DOMAIN s.items : s.items[k].target # NoName => s.items[k].form \in {"inline", "table", "opaque"}
  BY <1>2 DEF Item, Plain
<1> QED
  BY <1>1, <1>3 DEF Clauses, Extractable

LEMMA RewritingForgets ==
    ASSUME NEW s \in Statement, NEW E \in SUBSET Clauses(s),
           NEW m \in Deps([RewrittenText(s, E) EXCEPT !.requires = {}])
    PROVE  /\ m \in Deps(s)
           /\ s.kind = "table" => m \in ForeignTargets(Remove(s.items, E)) /\ m # s.name
<1>1. PICK items : items = Remove(s.items, E)
  OBVIOUS
<1>2. PICK t : t = [RewrittenText(s, E) EXCEPT !.requires = {}]
  OBVIOUS
<1>3. t.kind = s.kind /\ t.name = s.name /\ t.items = items /\ t.sources = s.sources /\ t.requires = {}
  BY <1>1, <1>2 DEF RewrittenText, Statement
<1>4. ForeignTargets(items) \subseteq ForeignTargets(s.items)
  <2> SUFFICES ASSUME NEW x \in ForeignTargets(items) PROVE x \in ForeignTargets(s.items)
    OBVIOUS
  <2>1. x # NoName
    BY DEF ForeignTargets
  <2>2. s.items \in Seq(Item) /\ E \in SUBSET (DOMAIN s.items)
    BY ClausesAre
  <2>3. \E k \in DOMAIN s.items : s.items[k].target = x
    BY <1>1, <2>2, TargetsLeft
  <2> QED
    BY <2>1, <2>3 DEF ForeignTargets
<1>5. AutoNames(t) \subseteq AutoNames(s)
  BY <1>3, <1>4 DEF AutoNames
<1>6. \E r \in DepRefs(t) : r.name = m
  BY <1>2 DEF Deps
<1>7. m \in AutoNames(t) \/ (t.kind = "view" /\ m \in t.sources)
  BY <1>3, <1>6 DEF DepRefs
<1>8. \E r \in DepRefs(s) : r.name = m
  <2>1. CASE m \in AutoNames(s)
    <3>1. [name |-> m, kind |-> "auto"] \in DepRefs(s)
      BY <2>1 DEF DepRefs
    <3> QED
      BY <3>1
  <2>2. CASE s.kind = "view" /\ m \in s.sources
    <3>1. [name |-> m, kind |-> "scan"] \in DepRefs(s)
      BY <2>2 DEF DepRefs
    <3> QED
      BY <3>1
  <2> QED
    BY <1>3, <1>5, <1>7, <2>1, <2>2
<1>9. m \in Deps(s)
  BY <1>8 DEF Deps
<1>10. s.kind = "table" => m \in ForeignTargets(items) /\ m # s.name
  BY <1>3, <1>7 DEF AutoNames
<1> QED
  BY <1>1, <1>9, <1>10

\* What is extracted from a statement are clauses of its own.
LEMMA ExtractedAreClauses ==
    ASSUME NEW ss, NEW i
    PROVE  ExtractedFrom(ss, i) \in SUBSET Clauses(ss[i].src)
BY DEF ExtractedFrom

LEMMA LeftShape ==
    ASSUME NEW ss, AreSources(ss), NEW lazy \in BOOLEAN
    PROVE  /\ \A i \in 1..Len(ss) : DepsLeft(ss, lazy, i) \subseteq Deps(ss[i].src)
           /\ AdjLeft(ss, lazy) \in [1..Len(ss) -> SUBSET (1..Len(ss))]
           /\ \A i \in 1..Len(ss) :
                 /\ AdjLeft(ss, lazy)[i] \subseteq AdjOf(ss)[i]
                 /\ i \notin AdjLeft(ss, lazy)[i]
<1>1. \A i \in 1..Len(ss) : DepsLeft(ss, lazy, i) \subseteq Deps(ss[i].src)
  <2> SUFFICES ASSUME NEW i \in 1..Len(ss), NEW m \in DepsLeft(ss, lazy, i) PROVE m \in Deps(ss[i].src)
    OBVIOUS
  <2>1. ss[i].src \in Statement
    BY SourcesShape
  <2>2. \/ m \in Deps(ss[i].src)
        \/ m \in Deps([RewrittenText(ss[i].src, ExtractedFrom(ss, i)) EXCEPT !.requires = {}])
    BY DEF DepsLeft
  <2> QED
    BY <2>1, <2>2, ExtractedAreClauses, RewritingForgets
<1>2. PICK n \in Nat : n = Len(ss)
  BY SourcesShape
<1>3. AdjLeft(ss, lazy) =
         [i \in 1..n |-> {j \in (1..n) \ {i} : ss[j].src.name \in DepsLeft(ss, lazy, i) /\ Wins(ss, j)}]
  BY <1>2 DEF AdjLeft
<1>4. AdjLeft(ss, lazy) \in [1..n -> SUBSET (1..n)]
  BY <1>3
<1>5. \A i \in 1..n : \A j \in AdjLeft(ss, lazy)[i] :
         j \in 1..n /\ j # i /\ ss[j].src.name \in DepsLeft(ss, lazy, i) /\ Wins(ss, j)
  BY <1>3
<1>6. \A i \in 1..n : AdjLeft(ss, lazy)[i] \subseteq AdjOf(ss)[i]
  <2> SUFFICES ASSUME NEW i \in 1..n, NEW j \in AdjLeft(ss, lazy)[i] PROVE j \in AdjOf(ss)[i]
    OBVIOUS
  <2> QED
    BY <1>1, <1>2, <1>5, AdjShape
<1> QED
  BY <1>1, <1>2, <1>4, <1>5, <1>6

\* When every cycle can be broken, all that can be left of one is an edge
\* of a table that ends in two foreign keys to be extracted.
LEMMA LeftoverCycle ==
    ASSUME NEW ss, AreSources(ss), NEW lazy \in BOOLEAN,
           \A i \in 1..Len(ss) : CycleOf(ss, i) # {i} => Breakable(ss, lazy, i),
           ~Acyclic(Len(ss), AdjLeft(ss, lazy))
    PROVE  \E i \in 1..Len(ss) : CycleOf(ss, i) # {i} /\ ~lazy /\ EndsInPair(ss[i].src.items)
<1>1. PICK n \in Nat : n = Len(ss)
  BY SourcesShape
<1>2. PICK a, b : a = AdjOf(ss) /\ b = AdjLeft(ss, lazy)
  OBVIOUS
<1>3. /\ a \in [1..n -> SUBSET (1..n)] /\ b \in [1..n -> SUBSET (1..n)]
      /\ \A i \in 1..n : b[i] \subseteq a[i] /\ i \notin b[i]
  BY <1>1, <1>2, AdjShape, LeftShape
<1>4. \E j \in 1..n : \E k \in b[j] : k \in Graph(n)!CycleMates(b, j)
  BY <1>1, <1>2, <1>3, EdgeOnACycle
<1>5. PICK j \in 1..n : \E k \in b[j] : k \in Graph(n)!CycleMates(b, j)
  BY <1>4
<1>6. PICK k \in b[j] : k \in Graph(n)!CycleMates(b, j)
  BY <1>5
<1>7. k \in 1..n /\ k # j
  BY <1>3
<1>8. k \in Graph(n)!Reachable(b, j) /\ j \in Graph(n)!Reachable(b, k)
  BY <1>6, <1>7 DEF Graph!CycleMates
<1>9. k \in CycleOf(ss, j)
  <2>1. Graph(n)!Reachable(b, j) \subseteq Graph(n)!Reachable(a, j)
    BY <1>3, ReachesMore
  <2>2. Graph(n)!Reachable(b, k) \subseteq Graph(n)!Reachable(a, k)
    BY <1>3, <1>7, ReachesMore
  <2> QED
    BY <1>1, <1>2, <1>8, <2>1, <2>2 DEF CycleOf, Graph!CycleMates
<1>10. Breakable(ss, lazy, j) /\ CycleOf(ss, j) # {j}
  BY <1>1, <1>7, <1>9
<1>11. PICK s : s = ss[j].src /\ s \in Statement
  BY <1>1, SourcesShape
<1>12. PICK m : m = ss[k].src.name
  OBVIOUS
<1>13. m \in DepsLeft(ss, lazy, j) /\ k \in Inside(ss, j, m)
  <2>1. b[j] = {h \in (1..n) \ {j} : ss[h].src.name \in DepsLeft(ss, lazy, j) /\ Wins(ss, h)}
    BY <1>1, <1>2 DEF AdjLeft
  <2> QED
    BY <1>6, <1>7, <1>9, <1>12, <2>1 DEF Inside
<1>14. s.kind = "table" /\ m \in AutoNames(s) /\ m \in NeededBy(ss, j)
  <2>1. m \in Deps(s)
    BY <1>1, <1>11, <1>13, LeftShape
  <2>2. PICK r \in DepRefs(s) : r.name = m
    BY <2>1 DEF Deps
  <2>3. s.kind = "table" /\ r.kind = "auto"
    BY <1>10, <1>11, <1>13, <2>2 DEF Breakable, OnlyForeignKeys
  <2>4. m \in AutoNames(s)
    BY <2>2, <2>3 DEF DepRefs
  <2> QED
    BY <1>11, <1>13, <2>3, <2>4 DEF NeededBy
<1>15. ~lazy
  BY <1>10, <1>13 DEF DepsLeft
<1>16. Separable(ss, j)
  BY <1>10, <1>15 DEF Breakable
<1>17. PICK E : E = ExtractedFrom(ss, j) /\ E \in SUBSET Clauses(s)
  BY <1>11, ExtractedAreClauses
<1>18. E # {}
  BY <1>14, <1>16, <1>17 DEF Separable
<1>19. m \in Deps([RewrittenText(s, E) EXCEPT !.requires = {}])
  BY <1>10, <1>11, <1>13, <1>15, <1>17, <1>18 DEF DepsLeft
<1>20. m \in ForeignTargets(Remove(s.items, E))
  BY <1>11, <1>14, <1>17, <1>19, RewritingForgets
<1>21. s.items \in Seq(Item) /\ E \in SUBSET (DOMAIN s.items)
  BY <1>11, <1>17, ClausesAre
<1>22. PICK h \in DOMAIN s.items : s.items[h].target = m /\ (h \notin E \/ SkippedByRemove(s.items, E, h))
  BY <1>20, <1>21, TargetsLeft
<1>23. h \in E
  <2>1. m # NoName
    BY <1>20 DEF ForeignTargets
  <2>2. h \in Clauses(s)
    BY <1>11, <1>16, <1>22, <2>1, ClausesAre DEF Separable
  <2> QED
    BY <1>11, <1>14, <1>17, <1>22, <2>2 DEF ExtractedFrom
<1>24. SkippedByRemove(s.items, E, h)
  BY <1>22, <1>23
<1>25. EndsInPair(s.items)
  <2>1. PICK c \in Nat : c = Len(s.items) /\ DOMAIN s.items = 1..c
    BY <1>21
  <2>2. h = c /\ c - 1 \in E /\ s.items[c].form = "table" /\ s.items[c - 1].form = "table"
    BY <1>24, <2>1 DEF SkippedByRemove
  <2>3. c >= 2
    BY <1>21, <2>1, <2>2
  <2> QED
    BY <2>1, <2>2, <2>3 DEF EndsInPair
<1> QED
  BY <1>1, <1>10, <1>11, <1>15, <1>25

-----------------------------------------------------------------------------
(* What the steps compute *)

SQLite == input.dialect = "sqlite"

\* The statements of the tree, in the order of its files.
TreePlaces ==
    {a \in Nat \X Nat : /\ a[1] \in DOMAIN input.files
                        /\ input.files[a[1]].status = "ok"
                        /\ a[2] \in DOMAIN input.files[a[1]].stmts}
UpTo(places, a) == {b \in places : b = a \/ Precedes(b, a)}
PlaceAt(i) == CHOOSE a \in TreePlaces : Cardinality(UpTo(TreePlaces, a)) = i
TreeStmts ==
    [i \in 1..Cardinality(TreePlaces) |-> Loaded(SourceStatement(PlaceAt(i)), PlaceAt(i)[1], PlaceAt(i)[2])]

\* Every file can be read and split, and no name is defined twice.
Clean ==
    /\ \A f \in DOMAIN input.files : input.files[f].status = "ok"
    /\ \A a, b \in TreePlaces :
          SourceStatement(a).name = SourceStatement(b).name /\ SourceStatement(a).name # NoName => a = b

GoodTree == Clean /\ CanBeOrdered(TreeStmts, SQLite)

InFileOrder == \A i, j \in Sources : i < j => Precedes(stmts[i].at, stmts[j].at)

\* The errors of the files read so far (see also RedefinitionsAreErrors).
UnsplitRead == \E f \in 1..(nextFile - 1) : input.files[f].status = "unlexable"
NameTaken == \E a, b \in Named : a # b /\ SourceStatement(a).name = SourceStatement(b).name
ErrorsAreTheirs ==
    /\ \A f \in 1..(nextFile - 1) : input.files[f].status # "unreadable"
    /\ UnsplitRead => HasError
    /\ HasError => UnsplitRead \/ NameTaken

Sorting == mode # "graph" /\ pc \in {"break", "resort", "sort"}

\* The component of i is dealt with.
Handled(i) == InCycle(i) /\ SourceCycle(i) \notin comps

HandledAreBreakable ==
    Sorting =>
        /\ \A i \in Sources : Handled(i) => Breakable(SourceStmts, SQLite, i)
        /\ pc # "break" => comps = {}

RewritesAreTheirs ==
    Sorting =>
        /\ DOMAIN rewritten = {i \in Sources : Handled(i) /\ ~SQLite /\ ExtractedFrom(SourceStmts, i) # {}}
        /\ \A i \in DOMAIN rewritten : rewritten[i] = Remove(Original(i).items, ExtractedFrom(SourceStmts, i))

DepsAreTheirs ==
    Sorting =>
        \A i \in Sources :
            stmts[i].deps =
                IF pc # "break" THEN DepsLeft(SourceStmts, SQLite, i)
                ELSE IF Handled(i) /\ SQLite THEN {m \in Deps(Original(i)) : Inside(SourceStmts, i, m) = {}}
                ELSE Deps(Original(i))

VerdictsAreTheirs ==
    mode # "graph" =>
        /\ pc = "end" <=> verdict[mode] # "none"
        /\ mode = "build" => verdict["check"] # "none"
        /\ mode = "check" => verdict["build"] = "none"
        /\ \A m \in {"check", "build"} : verdict[m] # "none" => (verdict[m] = "ok" <=> GoodTree)

BreakInv == HandledAreBreakable /\ RewritesAreTheirs /\ DepsAreTheirs

VerdictInv == InFileOrder /\ ErrorsAreTheirs /\ BreakInv /\ VerdictsAreTheirs /\ CyclesAreGenuine

-----------------------------------------------------------------------------
(* The statements of the files, as a sequence *)

LEMMA SourcesLink ==
    ASSUME Positions, LoadTypes
    PROVE  /\ AreSources(SourceStmts) /\ Len(SourceStmts) = Cardinality(SourcePlaces)
           /\ Len(SourceStmts) \in Nat /\ Sources = 1..Len(SourceStmts)
           /\ \A i \in Sources : SourceStmts[i].src = Original(i) /\ Original(i) \in Statement
           /\ SourceNodes = GraphNodes(SourceStmts) /\ SourceAdj = AdjOf(SourceStmts)
           /\ \A i : SourceCycle(i) = CycleOf(SourceStmts, i)
<1>1. PICK n \in Nat : n = Cardinality(SourcePlaces) /\ Sources = 1..n
  BY SourcesAreCounted
<1>2. \A i \in 1..n : Original(i) \in Statement /\ stmts[i].at[1] \in Nat /\ stmts[i].at[2] \in Nat
  BY <1>1, SourcesAreStatements DEF Positions, Original
<1>3. PICK ss : ss = SourceStmts
  OBVIOUS
<1>4. ss = [i \in 1..n |-> Loaded(Original(i), stmts[i].at[1], stmts[i].at[2])]
  BY <1>1, <1>3 DEF SourceStmts
<1>5. \A i \in 1..n : Loaded(Original(i), stmts[i].at[1], stmts[i].at[2]) \in Stmt
  BY <1>2, LoadedIsStmt
<1>6. ss \in Seq(Stmt) /\ Len(ss) = n /\ DOMAIN ss = 1..n
  <2>1. ss \in [1..n -> Stmt]
    BY <1>4, <1>5
  <2> QED
    BY <2>1
<1>7. \A i \in 1..n : ss[i].src = Original(i) /\ ~ss[i].synthesized /\ ss[i].deps = Deps(Original(i))
  BY <1>4 DEF Loaded
<1>8. AreSources(ss)
  BY <1>6, <1>7 DEF AreSources
<1>9. SourceNodes = GraphNodes(ss) /\ SourceAdj = AdjOf(ss)
  BY <1>1, <1>3, <1>6 DEF SourceNodes, SourceAdj, AdjOf
<1>10. \A i : SourceCycle(i) = CycleOf(ss, i)
  BY <1>1, <1>6, <1>9, SourceGraph DEF CycleOf
<1> QED
  BY <1>1, <1>2, <1>3, <1>6, <1>7, <1>8, <1>9, <1>10

\* What the commands find out about a component, in terms of the files.
LEMMA ComponentLink ==
    ASSUME StateInv, pc = "break", mode # "graph", NEW C \in comps, NEW i \in C
    PROVE  /\ i \in Sources /\ C = CycleOf(SourceStmts, i) /\ C # {i} /\ InCycle(i)
           /\ stmts[i].src = Original(i) /\ SourceStmts[i].src = Original(i) /\ Original(i) \in Statement
           /\ \A m : ResolvesIn(C, i, m) = Inside(SourceStmts, i, m)
           /\ NeededTargets(C, i) = NeededBy(SourceStmts, i)
           /\ ToExtract(C, i) = ExtractedFrom(SourceStmts, i)
<1>1. Positions /\ LoadTypes
  BY DEF StateInv, StmtsInv, LoadInv
<1> PICK ss : ss = SourceStmts
  OBVIOUS
<1>2. PICK n \in Nat : n = Len(ss) /\ n = Cardinality(SourcePlaces) /\ Sources = 1..n
  BY <1>1, SourcesLink
<1>3. /\ i \in Sources /\ InCycle(i) /\ SourceCycle(i) = C /\ stmts[i].src = Original(i)
      /\ nodes = SourceNodes
  BY WhileBreaking DEF StateInv
<1>4. C = CycleOf(ss, i) /\ ss[i].src = Original(i) /\ Original(i) \in Statement
  BY <1>1, <1>2, <1>3, SourcesLink
<1>5. Len(nodes.name) = n /\ \A j \in 1..n : nodes.name[j] = ss[j].src.name
  BY <1>1, <1>2, <1>3, SourceGraph, SourcesLink
<1>6. \A j \in 1..n : Graph(n)!WinsName(nodes, j) <=> Wins(ss, j)
  BY <1>1, <1>2, <1>3, SourcesLink DEF Wins
<1>7. C \subseteq 1..n
  BY <1>1, <1>2, <1>3, <1>4, SourcesLink, AdjShape
<1>8. \A m : ResolvesIn(C, i, m) = Inside(ss, i, m)
  BY <1>4, <1>5, <1>6, <1>7 DEF ResolvesIn, Inside
<1>9. NeededTargets(C, i) = NeededBy(ss, i)
  BY <1>3, <1>4, <1>8 DEF NeededTargets, NeededBy
<1>10. ToExtract(C, i) = ExtractedFrom(ss, i)
  BY <1>3, <1>4, <1>9 DEF ToExtract, ExtractedFrom
<1> QED
  BY <1>2, <1>3, <1>4, <1>8, <1>9, <1>10 DEF InCycle

\* A component is broken exactly if every cycle through it can be.
LEMMA ComponentBreaks ==
    ASSUME StateInv, pc = "break", mode # "graph", NEW C \in comps
    PROVE  /\ AllForeignKeys(C) <=> \A i \in C : OnlyForeignKeys(SourceStmts, i)
           /\ Splittable(C) <=> \A i \in C : Separable(SourceStmts, i)
<1>1. \A i \in C : /\ stmts[i].src = SourceStmts[i].src
                   /\ \A m : ResolvesIn(C, i, m) = Inside(SourceStmts, i, m)
                   /\ NeededTargets(C, i) = NeededBy(SourceStmts, i)
                   /\ ToExtract(C, i) = ExtractedFrom(SourceStmts, i)
  BY ComponentLink
<1>2. AllForeignKeys(C) <=> \A i \in C : OnlyForeignKeys(SourceStmts, i)
  <2> DEFINE Only(i) == \A r \in DepRefs(stmts[i].src) :
                           ResolvesIn(C, i, r.name) # {} => stmts[i].src.kind = "table" /\ r.kind = "auto"
  <2>1. \A i \in C : Only(i) <=> OnlyForeignKeys(SourceStmts, i)
    BY <1>1 DEF OnlyForeignKeys
  <2>2. AllForeignKeys(C) <=> \A i \in C : Only(i)
    BY DEF AllForeignKeys
  <2> HIDE DEF Only
  <2> QED
    BY <2>1, <2>2
<1>3. Splittable(C) <=> \A i \in C : Separable(SourceStmts, i)
  BY <1>1 DEF Splittable, Separable
<1> QED
  BY <1>2, <1>3

\* A statement's position is its rank in the order of the files.
LEMMA RankIsPosition ==
    ASSUME Positions, InFileOrder, NEW i \in Sources
    PROVE  Cardinality(UpTo(LoadedPlaces, stmts[i].at)) = i
<1>1. PICK n \in Nat : n <= Len(stmts) /\ Sources = 1..n
  BY DEF Positions
<1>2. /\ \A h \in 1..n : stmts[h].at \in LoadedPlaces
      /\ \A a \in LoadedPlaces : \E h \in 1..n : stmts[h].at = a
      /\ \A g, h \in 1..n : stmts[g].at = stmts[h].at => g = h
      /\ \A g, h \in 1..n : g < h => Precedes(stmts[g].at, stmts[h].at)
  BY <1>1 DEF Positions, InFileOrder
<1>3. \A a \in LoadedPlaces : a[1] \in Nat /\ a[2] \in Nat
  BY DEF LoadedPlaces
<1>4. \A h \in 1..n : stmts[h].at \in UpTo(LoadedPlaces, stmts[i].at) <=> h <= i
  <2> SUFFICES ASSUME NEW h \in 1..n PROVE stmts[h].at \in UpTo(LoadedPlaces, stmts[i].at) <=> h <= i
    OBVIOUS
  <2>1. CASE h < i
    BY <1>1, <1>2, <2>1 DEF UpTo
  <2>2. CASE h = i
    BY <1>1, <1>2, <2>2 DEF UpTo
  <2>3. CASE h > i
    <3>1. Precedes(stmts[i].at, stmts[h].at)
      BY <1>1, <1>2, <2>3
    <3>2. PICK a, b : a = stmts[i].at /\ b = stmts[h].at
      OBVIOUS
    <3>3. a[1] \in Nat /\ a[2] \in Nat /\ b[1] \in Nat /\ b[2] \in Nat
      BY <1>1, <1>2, <1>3, <3>2
    <3>4. b # a /\ ~Precedes(b, a)
      BY <3>1, <3>2, <3>3 DEF Precedes
    <3> QED
      BY <1>1, <2>3, <3>2, <3>4 DEF UpTo
  <2> QED
    BY <1>1, <2>1, <2>2, <2>3
<1> DEFINE f == [h \in 1..i |-> stmts[h].at]
<1>5. f \in Bijection(1..i, UpTo(LoadedPlaces, stmts[i].at))
  <2>1. \A h \in 1..i : h \in 1..n /\ f[h] = stmts[h].at /\ f[h] \in UpTo(LoadedPlaces, stmts[i].at)
    BY <1>1, <1>4
  <2>2. \A g, h \in 1..i : f[g] = f[h] => g = h
    BY <1>2, <2>1
  <2>3. \A a \in UpTo(LoadedPlaces, stmts[i].at) : \E h \in 1..i : f[h] = a
    <3> SUFFICES ASSUME NEW a \in UpTo(LoadedPlaces, stmts[i].at) PROVE \E h \in 1..i : stmts[h].at = a
      OBVIOUS
    <3>1. PICK h \in 1..n : stmts[h].at = a
      BY <1>2 DEF UpTo
    <3> QED
      BY <1>1, <1>4, <3>1
  <2>4. f \in [1..i -> UpTo(LoadedPlaces, stmts[i].at)]
    BY <2>1
  <2> QED
    BY <2>2, <2>3, <2>4 DEF Bijection, Injection, IsInjective, Surjection
<1>6. ExistsBijection(1..i, UpTo(LoadedPlaces, stmts[i].at))
  BY <1>5 DEF ExistsBijection
<1> QED
  BY <1>1, <1>6, FS_CountingElements

\* Once every file is loaded, the statements are those of the tree.
LEMMA TreeLink ==
    ASSUME StateInv, InFileOrder, Complete
    PROVE  TreePlaces = LoadedPlaces /\ TreeStmts = SourceStmts
<1>1. Positions /\ LoadTypes
  BY DEF StateInv, StmtsInv, LoadInv
<1>2. PICK files : files = input.files
  OBVIOUS
<1>3. DOMAIN files = 1..(nextFile - 1)
  BY <1>1, <1>2 DEF Complete, LoadTypes, Tree
<1>4. TreePlaces = LoadedPlaces
  BY <1>2, <1>3 DEF TreePlaces, LoadedPlaces
<1>5. PICK n \in Nat : n = Cardinality(SourcePlaces) /\ Sources = 1..n
  BY <1>1, SourcesAreCounted
<1>6. SourcePlaces = LoadedPlaces
  <2>1. \A i \in Sources : i \in DOMAIN stmts
    BY DEF Sources
  <2> QED
    BY <1>1, <2>1 DEF SourcePlaces, Positions
<1>7. \A i \in 1..n : PlaceAt(i) = stmts[i].at
  <2> SUFFICES ASSUME NEW i \in 1..n PROVE PlaceAt(i) = stmts[i].at
    OBVIOUS
  <2>1. stmts[i].at \in LoadedPlaces /\ \A h \in 1..n : Cardinality(UpTo(LoadedPlaces, stmts[h].at)) = h
    BY <1>1, <1>5, RankIsPosition DEF Positions
  <2>2. ASSUME NEW a \in LoadedPlaces, Cardinality(UpTo(LoadedPlaces, a)) = i PROVE a = stmts[i].at
    <3>1. PICK k \in 1..n : stmts[k].at = a
      BY <1>1, <1>5 DEF Positions
    <3>2. k = i
      BY <2>1, <2>2, <3>1
    <3> QED
      BY <3>1, <3>2
  <2> QED
    BY <1>4, <2>1, <2>2 DEF PlaceAt
<1>8. \A i \in 1..n : SourceStatement(PlaceAt(i)) = Original(i)
  BY <1>7 DEF Original
<1>9. TreeStmts = SourceStmts
  BY <1>4, <1>5, <1>6, <1>7, <1>8 DEF TreeStmts, SourceStmts
<1> QED
  BY <1>4, <1>9

-----------------------------------------------------------------------------
(* Sorting *)

\* The edges Sort goes by are those that are left.
LEMMA AdjLink ==
    ASSUME StateInv, mode # "graph", pc = "sort", DepsAreTheirs
    PROVE  /\ \A i \in Sources : adj[i] = AdjLeft(SourceStmts, SQLite)[i]
           /\ \A i \in DOMAIN stmts : adj[i] \subseteq Sources
<1>1. Positions /\ LoadTypes
  BY DEF StateInv, StmtsInv, LoadInv
<1> PICK ss : ss = SourceStmts
  OBVIOUS
<1>2. PICK n \in Nat : n = Len(ss) /\ n = Cardinality(SourcePlaces) /\ Sources = 1..n
  BY <1>1, SourcesLink
<1>3. PICK m \in Nat : m = Len(stmts) /\ DOMAIN stmts = 1..m /\ Sources \subseteq 1..m
  BY <1>1, StmtShapes
<1>4. PICK name : name = GraphNodes(stmts).name
  OBVIOUS
<1>5. name = [j \in 1..m |-> IF stmts[j].synthesized THEN NoName ELSE stmts[j].src.name]
  BY <1>3, <1>4 DEF GraphNodes
<1>6. \A i \in 1..m : stmts[i].deps \subseteq Name
  BY <1>1, <1>3, StmtShapes DEF Stmt
<1>7. \A j \in 1..n : name[j] = ss[j].src.name
  <2>1. \A j \in 1..n : stmts[j].src = [Original(j) EXCEPT !.items = rewritten[j]] \/ stmts[j].src = Original(j)
    BY <1>2 DEF StateInv, StmtsInv, TextsAreTheirs, Touched, Broken
  <2>2. \A j \in 1..n : Original(j) \in Statement /\ ss[j].src = Original(j)
    BY <1>1, <1>2, SourcesLink
  <2>3. \A j \in 1..n : stmts[j].src.name = Original(j).name
    BY <2>1, <2>2 DEF Statement
  <2>4. \A j \in 1..n : j \in 1..m /\ ~stmts[j].synthesized
    BY <1>2, <1>3 DEF Sources
  <2> QED
    BY <1>5, <2>2, <2>3, <2>4
<1>8. \A j \in 1..m : name[j] \in Name => j \in 1..n
  BY <1>2, <1>3, <1>5, NamesAssumption DEF Sources
<1>9. \A j \in 1..n : name[j] \in Name => (Graph(m)!WinsName(GraphNodes(stmts), j) <=> Wins(ss, j))
  <2> SUFFICES ASSUME NEW j \in 1..n, name[j] \in Name
               PROVE  Graph(m)!WinsName(GraphNodes(stmts), j) <=> Wins(ss, j)
    OBVIOUS
  <2>1. Graph(m)!WinsName(GraphNodes(stmts), j) <=> \A k \in 1..m : name[k] = name[j] => k <= j
    BY <1>4 DEF Graph!WinsName, Graph!Node
  <2>2. Wins(ss, j) <=> \A k \in 1..n : ss[k].src.name = ss[j].src.name => k <= j
    <3>1. PICK nm : nm = GraphNodes(ss).name
      OBVIOUS
    <3>2. nm = [k \in 1..n |-> ss[k].src.name]
      BY <1>1, <1>2, <3>1, SourcesLink, SourcesShape
    <3>3. Wins(ss, j) <=> \A k \in 1..n : nm[k] = nm[j] => k <= j
      BY <1>2, <3>1 DEF Wins, Graph!WinsName, Graph!Node
    <3> QED
      BY <3>2, <3>3
  <2>3. \A k \in 1..m : name[k] = name[j] => k \in 1..n
    BY <1>8
  <2>4. 1..n \subseteq 1..m
    BY <1>2, <1>3
  <2> QED
    BY <1>7, <2>1, <2>2, <2>3, <2>4
<1>10. \A i \in 1..m : adj[i] = {j \in (1..m) \ {i} : name[j] \in stmts[i].deps /\ Graph(m)!WinsName(GraphNodes(stmts), j)}
  <2>1. PICK deps : deps = GraphNodes(stmts).deps
    OBVIOUS
  <2>2. deps = [i \in 1..m |-> stmts[i].deps]
    BY <1>3, <2>1 DEF GraphNodes
  <2>3. adj = [i \in 1..m |-> Graph(m)!Targets(GraphNodes(stmts), i)]
    BY <1>3 DEF StateInv, OrderIsGood, Edges
  <2>4. \A i \in 1..m : adj[i] = {j \in (1..m) \ {i} : name[j] \in deps[i] /\ Graph(m)!WinsName(GraphNodes(stmts), j)}
    BY <1>4, <2>1, <2>3 DEF Graph!Targets, Graph!Node
  <2> QED
    BY <2>2, <2>4
<1>11. \A i \in 1..m : \A j : j \in adj[i] =>
          j \in 1..n /\ j # i /\ name[j] \in Name /\ name[j] \in stmts[i].deps
  BY <1>6, <1>8, <1>10
<1>12. \A i \in 1..n : stmts[i].deps = DepsLeft(ss, SQLite, i)
  BY <1>2 DEF DepsAreTheirs, Sorting
<1>13. AdjLeft(ss, SQLite) =
          [i \in 1..n |-> {j \in (1..n) \ {i} : ss[j].src.name \in DepsLeft(ss, SQLite, i) /\ Wins(ss, j)}]
  BY <1>2 DEF AdjLeft
<1>14. \A i \in 1..n : adj[i] = AdjLeft(ss, SQLite)[i]
  <2> SUFFICES ASSUME NEW i \in 1..n PROVE adj[i] = AdjLeft(ss, SQLite)[i]
    OBVIOUS
  <2>1. i \in 1..m /\ 1..n \subseteq 1..m
    BY <1>2, <1>3
  <2>2. \A j : j \in adj[i] <=> j \in (1..n) \ {i} /\ ss[j].src.name \in stmts[i].deps /\ Wins(ss, j)
    BY <1>6, <1>7, <1>9, <1>10, <1>11, <2>1
  <2>3. AdjLeft(ss, SQLite)[i] = {j \in (1..n) \ {i} : ss[j].src.name \in stmts[i].deps /\ Wins(ss, j)}
    BY <1>12, <1>13
  <2> QED
    BY <2>2, <2>3
<1> QED
  BY <1>2, <1>3, <1>11, <1>14

LEMMA CountTo ==
    ASSUME NEW k \in Nat
    PROVE  IsFiniteSet(1..k) /\ Cardinality(1..k) = k
BY FS_Interval

LEMMA SortedIsAcyclic ==
    ASSUME NEW n \in Nat, NEW m \in Nat, NEW b \in [1..n -> SUBSET (1..n)], NEW ord, ord \in Seq(1..m),
           \A i \in 1..n : \E p \in DOMAIN ord : ord[p] = i,
           \A p \in DOMAIN ord : ord[p] \in 1..n => b[ord[p]] \subseteq {ord[q] : q \in 1..(p - 1)}
    PROVE  Acyclic(n, b)
<1> SUFFICES ASSUME NEW S \in SUBSET (1..n), S # {} PROVE \E i \in S : b[i] \cap S = {}
  BY DEF Acyclic
<1>1. PICK l \in Nat : DOMAIN ord = 1..l
  OBVIOUS
<1>2. PICK P : P = {p \in 1..l : ord[p] \in S}
  OBVIOUS
<1>3. P # {}
  BY <1>1, <1>2
<1>4. PICK F : F = {R \in SUBSET (1..l) : \E p \in P : R = 1..p}
  OBVIOUS
<1>5. \A p \in P : p \in 1..l /\ 1..p \in F
  <2>1. \A p \in P : p \in 1..l /\ 1..p \in SUBSET (1..l)
    BY <1>2
  <2> QED
    BY <1>4, <2>1
<1>6. PICK R \in F : \A T \in F : T \subseteq R => T = R
  <2>1. F # {} /\ \A T \in F : T \subseteq 1..l
    BY <1>3, <1>4, <1>5
  <2> QED
    BY <2>1, SmallestSubset
<1>7. PICK p \in P : R = 1..p
  BY <1>4
<1>8. \A q \in P : q < p => FALSE
  <2> SUFFICES ASSUME NEW q \in P, q < p PROVE FALSE
    OBVIOUS
  <2>1. q \in Nat /\ p \in Nat /\ 1..q \in F
    BY <1>1, <1>5
  <2>2. 1..q \subseteq 1..p
    BY <2>1
  <2>3. 1..q = 1..p
    BY <1>6, <1>7, <2>1, <2>2
  <2>4. p \in 1..q
    BY <1>5, <2>1, <2>3
  <2> QED
    BY <2>1, <2>4
<1>9. ord[p] \in S /\ p \in 1..l
  BY <1>2
<1>10. b[ord[p]] \cap S = {}
  <2> SUFFICES ASSUME NEW x \in b[ord[p]], x \in S PROVE FALSE
    OBVIOUS
  <2>1. PICK q \in 1..(p - 1) : x = ord[q]
    <3>1. p \in DOMAIN ord /\ ord[p] \in 1..n
      BY <1>1, <1>9
    <3>2. b[ord[p]] \subseteq {ord[q] : q \in 1..(p - 1)}
      BY <3>1
    <3> QED
      BY <3>2
  <2>2. q \in P /\ q < p
    BY <1>2, <1>9, <2>1
  <2> QED
    BY <1>8, <2>2
<1> QED
  BY <1>9, <1>10

\* Sort places every statement only if there is no cycle.
LEMMA SortSucceeds ==
    ASSUME StateInv, mode # "graph", pc = "sort", DepsAreTheirs, Len(order) = Len(stmts)
    PROVE  Acyclic(Len(SourceStmts), AdjLeft(SourceStmts, SQLite))
<1>1. Positions /\ LoadTypes
  BY DEF StateInv, StmtsInv, LoadInv
<1> PICK ss : ss = SourceStmts
  OBVIOUS
<1>2. PICK n \in Nat : n = Len(ss) /\ Sources = 1..n
  BY <1>1, SourcesLink
<1>3. PICK m \in Nat : m = Len(stmts) /\ DOMAIN stmts = 1..m /\ Sources \subseteq 1..m
  BY <1>1, StmtShapes
<1>4. /\ order \in Seq(1..m)
      /\ \A p, q \in DOMAIN order : order[p] = order[q] => p = q
      /\ \A p \in DOMAIN order : adj[order[p]] \subseteq {order[q] : q \in 1..(p - 1)}
  BY <1>3 DEF StateInv, OrderIsGood
<1>5. DOMAIN order = DOMAIN stmts
  BY <1>3, <1>4
<1>6. \A i \in 1..n : \E p \in DOMAIN order : order[p] = i
  BY <1>1, <1>2, <1>3, <1>4, <1>5, OrderIsOnto
<1>7. PICK b : b = AdjLeft(ss, SQLite)
  OBVIOUS
<1>8. b \in [1..n -> SUBSET (1..n)]
  BY <1>1, <1>2, <1>7, SourcesLink, LeftShape DEF SQLite
<1>9. \A i \in 1..n : adj[i] = b[i]
  BY <1>2, <1>7, AdjLink
<1>10. \A p \in DOMAIN order : order[p] \in 1..n => b[order[p]] \subseteq {order[q] : q \in 1..(p - 1)}
  BY <1>4, <1>9
<1>11. Acyclic(n, b)
  BY <1>4, <1>6, <1>8, <1>10, SortedIsAcyclic
<1> QED
  BY <1>2, <1>7, <1>11

\* Sort is stuck only if there is one.
LEMMA SortIsStuck ==
    ASSUME StateInv, mode # "graph", pc = "sort", DepsAreTheirs, Len(order) < Len(stmts), Followers = {}
    PROVE  ~Acyclic(Len(SourceStmts), AdjLeft(SourceStmts, SQLite))
<1>1. Positions /\ LoadTypes
  BY DEF StateInv, StmtsInv, LoadInv
<1> PICK ss : ss = SourceStmts
  OBVIOUS
<1>2. PICK n \in Nat : n = Len(ss) /\ Sources = 1..n
  BY <1>1, SourcesLink
<1>3. PICK m \in Nat : m = Len(stmts) /\ DOMAIN stmts = 1..m /\ Sources \subseteq 1..m
  BY <1>1, StmtShapes
<1>4. order \in Seq(1..m)
  BY <1>3 DEF StateInv, OrderIsGood
<1>5. PICK l \in Nat : l = Len(order) /\ DOMAIN order = 1..l /\ l < m
  BY <1>3, <1>4
<1>6. PICK W : W = (1..m) \ Sorted
  OBVIOUS
<1>7. \E i \in 1..m : i \in W
  <2> SUFFICES ASSUME 1..m \subseteq Sorted PROVE FALSE
    BY <1>6
  <2> DEFINE f == [p \in 1..l |-> order[p]]
  <2>1. f \in Surjection(1..l, 1..m)
    <3>1. \A p \in 1..l : order[p] \in 1..m
      BY <1>4, <1>5
    <3>2. \A i \in 1..m : \E p \in 1..l : order[p] = i
      BY <1>5 DEF Sorted
    <3> QED
      BY <3>1, <3>2 DEF Surjection
  <2>2. IsFiniteSet(1..l) /\ Cardinality(1..l) = l /\ Cardinality(1..m) = m
    BY CountTo
  <2> HIDE DEF f
  <2>3. Cardinality(1..m) <= Cardinality(1..l)
    BY <2>1, <2>2, FS_Surjection
  <2> QED
    BY <1>5, <2>2, <2>3
<1>8. \A i \in W : \E j \in adj[i] : j \in W /\ j \in 1..n
  <2> SUFFICES ASSUME NEW i \in W PROVE \E j \in adj[i] : j \in W /\ j \in 1..n
    OBVIOUS
  <2>1. i \in DOMAIN stmts \ Sorted
    BY <1>3, <1>6
  <2>2. ~(adj[i] \subseteq Sorted)
    BY <2>1 DEF Followers
  <2>3. adj[i] \subseteq 1..n
    BY <1>2, <2>1, AdjLink
  <2> QED
    BY <1>2, <1>3, <1>6, <2>2, <2>3
<1>9. PICK b : b = AdjLeft(ss, SQLite)
  OBVIOUS
<1>10. \A i \in 1..n : adj[i] = b[i]
  BY <1>2, <1>9, AdjLink
<1>11. PICK S : S = W \cap (1..n)
  OBVIOUS
<1>12. S \in SUBSET (1..n) /\ S # {}
  BY <1>7, <1>8, <1>11
<1>13. \A i \in S : b[i] \cap S # {}
  BY <1>8, <1>10, <1>11
<1> QED
  BY <1>2, <1>9, <1>12, <1>13 DEF Acyclic

-----------------------------------------------------------------------------
(* Loading *)

LEMMA StatusOfFiles ==
    ASSUME NEW S, NEW T, NEW files \in Seq([status : S, stmts : T]), NEW f \in DOMAIN files
    PROVE  files[f].status \in S
<1>1. \A R : files \in Seq(R) => files[f] \in R
  OBVIOUS
<1>2. files[f] \in [status : S, stmts : T]
  BY <1>1
<1> QED
  BY <1>2

\* What is wrong with a tree is known once it is loaded.
LEMMA CleanLink ==
    ASSUME StateInv, InFileOrder, ErrorsAreTheirs, Complete
    PROVE  Clean <=> ~HasError
<1>1. Positions /\ LoadTypes /\ RedefinitionsAreErrors
  BY DEF StateInv, StmtsInv, LoadInv
<1>2. PICK files : files = input.files
  OBVIOUS
<1>3. DOMAIN files = 1..(nextFile - 1) /\ \A f \in DOMAIN files : files[f].status \in {"ok", "unlexable", "unreadable"}
  <2>1. files \in Seq([status : {"ok", "unlexable", "unreadable"}, stmts : Seq(Statement)])
    BY <1>1, <1>2 DEF LoadTypes, Tree
  <2>2. \A f \in DOMAIN files : files[f].status \in {"ok", "unlexable", "unreadable"}
    BY <2>1, StatusOfFiles
  <2>3. DOMAIN files = 1..(nextFile - 1)
    BY <1>1, <1>2, <2>1 DEF Complete, LoadTypes
  <2> QED
    BY <2>2, <2>3
<1>4. TreePlaces = LoadedPlaces
  BY TreeLink
<1>5. (\A f \in DOMAIN files : files[f].status = "ok") <=> ~UnsplitRead
  BY <1>2, <1>3 DEF ErrorsAreTheirs, UnsplitRead
<1>6. (\A a, b \in LoadedPlaces :
          SourceStatement(a).name = SourceStatement(b).name /\ SourceStatement(a).name # NoName => a = b) <=> ~NameTaken
  BY DEF NameTaken, Named
<1>7. NameTaken => HasError
  <2> SUFFICES ASSUME NEW a \in Named, NEW b \in Named, a # b, SourceStatement(a).name = SourceStatement(b).name
               PROVE  HasError
    BY DEF NameTaken
  <2>1. a = <<a[1], a[2]>> /\ b = <<b[1], b[2]>> /\ a[1] \in Nat /\ a[2] \in Nat /\ b[1] \in Nat /\ b[2] \in Nat
    BY DEF Named, LoadedPlaces
  <2>2. Precedes(a, b) \/ Precedes(b, a)
    BY <2>1 DEF Precedes
  <2>3. DuplicateAt(a) \in diags \/ DuplicateAt(b) \in diags
    BY <1>1, <2>2 DEF RedefinitionsAreErrors
  <2> QED
    BY <2>3 DEF DuplicateAt, HasError
<1> QED
  BY <1>2, <1>4, <1>5, <1>6, <1>7 DEF Clean, ErrorsAreTheirs

\* As long as the input is the same, so is what becomes of it.
LEMMA SameTree ==
    ASSUME UNCHANGED input
    PROVE  GoodTree' = GoodTree /\ Clean' = Clean /\ SQLite' = SQLite /\ TreeStmts' = TreeStmts
<1>1. TreePlaces' = TreePlaces /\ SQLite' = SQLite /\ \A a : SourceStatement(a)' = SourceStatement(a)
  BY DEF TreePlaces, SQLite, SourceStatement
<1>2. \A i : PlaceAt(i)' = PlaceAt(i)
  BY <1>1 DEF PlaceAt
<1>3. TreeStmts' = TreeStmts
  BY <1>1, <1>2 DEF TreeStmts
<1>4. Clean' = Clean
  BY <1>1 DEF Clean
<1> QED
  BY <1>1, <1>3, <1>4 DEF GoodTree

LEMMA SameErrors ==
    ASSUME ErrorsAreTheirs, UNCHANGED <<input, nextFile>>, HasError' <=> HasError
    PROVE  ErrorsAreTheirs'
BY DEF ErrorsAreTheirs, UnsplitRead, NameTaken, Named, LoadedPlaces, SourceStatement

LEMMA SameOrder ==
    ASSUME InFileOrder, Sources' = Sources, \A i \in Sources : stmts'[i].at = stmts[i].at
    PROVE  InFileOrder'
BY DEF InFileOrder

LEMMA LoadFileVerdict ==
    ASSUME StateInv, InFileOrder, ErrorsAreTheirs, LoadFile
    PROVE  InFileOrder' /\ ErrorsAreTheirs'
<1>1. LoadInv /\ StmtsInv /\ Positions
  BY DEF StateInv, StmtsInv
<1>2. /\ UNCHANGED input /\ nextFile' = nextFile + 1 /\ nextFile \in Nat \ {0}
      /\ LoadedPlaces' = LoadedPlaces \cup NewPlaces
      /\ \A a \in LoadedPlaces : a[1] < nextFile
  BY <1>1, NewPlacesShape
<1> PICK ss, m, k : ss = input.files[nextFile].stmts /\ m = Len(stmts) /\ k = Len(ss)
  OBVIOUS
<1>3. /\ m \in Nat /\ k \in Nat /\ DOMAIN ss = 1..k /\ Sources = 1..m /\ Sources' = 1..(m + k)
      /\ \A i \in 1..m : stmts'[i] = stmts[i]
      /\ \A i \in 1..k : stmts'[m + i] = Loaded(ss[i], nextFile, i)
  BY <1>1, LoadFileAppends
<1>4. InFileOrder'
  <2>1. \A h \in 1..m : stmts'[h].at = stmts[h].at /\ stmts'[h].at[1] < nextFile
    BY <1>1, <1>2, <1>3 DEF Positions
  <2>2. \A h \in 1..(m + k) : h > m => stmts'[h].at = <<nextFile, h - m>>
    <3> SUFFICES ASSUME NEW h \in 1..(m + k), h > m PROVE stmts'[h].at = <<nextFile, h - m>>
      OBVIOUS
    <3>1. h - m \in 1..k /\ m + (h - m) = h
      BY <1>3
    <3>2. stmts'[h] = Loaded(ss[h - m], nextFile, h - m)
      BY <1>3, <3>1
    <3> QED
      BY <3>2 DEF Loaded
  <2> SUFFICES ASSUME NEW i \in 1..(m + k), NEW j \in 1..(m + k), i < j
               PROVE  Precedes(stmts'[i].at, stmts'[j].at)
    BY <1>3 DEF InFileOrder, Precedes
  <2>3. CASE j <= m
    BY <1>3, <2>1, <2>3 DEF InFileOrder
  <2>4. CASE j > m /\ i <= m
    <3>1. stmts'[j].at = <<nextFile, j - m>> /\ stmts'[i].at[1] < nextFile
      BY <1>3, <2>1, <2>2, <2>4
    <3> QED
      BY <3>1 DEF Precedes
  <2>5. CASE i > m
    <3>1. stmts'[i].at = <<nextFile, i - m>> /\ stmts'[j].at = <<nextFile, j - m>>
      BY <1>3, <2>2, <2>5
    <3>2. i - m < j - m
      BY <1>3
    <3> QED
      BY <3>1, <3>2 DEF Precedes
  <2> QED
    BY <1>3, <2>3, <2>4, <2>5
<1>5. input.files[nextFile].status = "ok"
  BY DEF LoadFile
<1>6. \A f : f \in 1..(nextFile' - 1) <=> f \in 1..(nextFile - 1) \/ f = nextFile
  BY <1>2
<1>7. UnsplitRead' = UnsplitRead /\ \A f \in 1..(nextFile' - 1) : input.files[f].status # "unreadable"
  BY <1>2, <1>5, <1>6 DEF UnsplitRead, ErrorsAreTheirs
<1>8. diags' = diags \cup {[severity |-> "error", what |-> "duplicate", at |-> <<nextFile, i>>, name |-> ss[i].name] :
                              i \in {j \in {h \in DOMAIN ss : ss[h].name # NoName} : DefinedBefore(ss, j)}}
  BY DEF LoadFile
<1>9. HasError => HasError'
  BY <1>8 DEF HasError
<1>10. Named \subseteq Named' /\ \A a : SourceStatement(a)' = SourceStatement(a)
  BY <1>2 DEF Named, SourceStatement
<1>11. \A i \in 1..k : ss[i].name # NoName => <<nextFile, i>> \in Named' /\ SourceStatement(<<nextFile, i>>).name = ss[i].name
  <2>1. \A i \in 1..k : SourceStatement(<<nextFile, i>>) = ss[i]
    BY DEF SourceStatement
  <2>2. \A i \in 1..k : <<nextFile, i>> \in LoadedPlaces'
    BY <1>2, <1>3 DEF NewPlaces
  <2> QED
    BY <1>10, <2>1, <2>2 DEF Named
<1>12. HasError' => HasError \/ NameTaken'
  <2> SUFFICES ASSUME HasError', ~HasError PROVE NameTaken'
    OBVIOUS
  <2>1. PICK i \in 1..k : ss[i].name # NoName /\ DefinedBefore(ss, i)
    BY <1>3, <1>8 DEF HasError
  <2>2. CASE \E d \in defs : d.name = ss[i].name
    <3>1. PICK a \in Named : SourceStatement(a).name = ss[i].name
      BY <1>1, <2>2 DEF LoadInv, SymbolsAreTheirs
    <3>2. a # <<nextFile, i>>
      BY <1>2 DEF Named
    <3> QED
      BY <1>10, <1>11, <2>1, <3>1, <3>2 DEF NameTaken
  <2>3. CASE \E h \in 1..(i - 1) : ss[h].name = ss[i].name
    <3>1. PICK h \in 1..(i - 1) : ss[h].name = ss[i].name
      BY <2>3
    <3>2. h \in 1..k /\ <<nextFile, h>> # <<nextFile, i>>
      BY <1>3
    <3> QED
      BY <1>10, <1>11, <2>1, <3>1, <3>2 DEF NameTaken
  <2> QED
    BY <2>1, <2>2, <2>3 DEF DefinedBefore
<1>13. NameTaken => NameTaken'
  BY <1>10 DEF NameTaken
<1>14. ErrorsAreTheirs'
  BY <1>2, <1>7, <1>9, <1>12, <1>13 DEF ErrorsAreTheirs
<1> QED
  BY <1>4, <1>14

LEMMA LexFailsVerdict ==
    ASSUME StateInv, InFileOrder, ErrorsAreTheirs, LexFails
    PROVE  InFileOrder' /\ ErrorsAreTheirs'
<1>1. /\ UNCHANGED <<input, stmts>> /\ nextFile' = nextFile + 1 /\ nextFile \in Nat \ {0}
      /\ input.files[nextFile].status = "unlexable"
  BY DEF LexFails, StateInv, LoadInv, LoadTypes
<1>2. InFileOrder'
  BY <1>1, SameOrder DEF Sources
<1>3. HasError'
  <2>1. PICK d : d = [severity |-> "error", what |-> "lex", at |-> <<nextFile, 0>>, name |-> NoName]
    OBVIOUS
  <2>2. d \in diags' /\ d.severity = "error"
    BY <2>1 DEF LexFails
  <2> QED
    BY <2>2 DEF HasError
<1>4. \A f : f \in 1..(nextFile' - 1) <=> f \in 1..(nextFile - 1) \/ f = nextFile
  BY <1>1
<1>5. UnsplitRead' /\ \A f \in 1..(nextFile' - 1) : input.files[f].status # "unreadable"
  BY <1>1, <1>4 DEF UnsplitRead, ErrorsAreTheirs
<1> QED
  BY <1>1, <1>2, <1>3, <1>5 DEF ErrorsAreTheirs

LEMMA FinishLoadVerdict ==
    ASSUME StateInv, InFileOrder, ErrorsAreTheirs, FinishLoad
    PROVE  InFileOrder' /\ ErrorsAreTheirs'
<1>1. UNCHANGED <<input, nextFile, stmts>> /\ diags' = diags \cup UnresolvedReferences
  BY DEF FinishLoad
<1>2. \A d \in UnresolvedReferences : d.severity = "warning"
  BY DEF UnresolvedReferences
<1>3. HasError' <=> HasError
  BY <1>1, <1>2 DEF HasError
<1> QED
  BY <1>1, <1>3, SameErrors, SameOrder DEF Sources

-----------------------------------------------------------------------------
(* Cycles are found and broken *)

\* The statements of the files stay in their places.
SourcesStay ==
    /\ UNCHANGED <<input, mode>> /\ Sources' = Sources
    /\ \A i \in Sources : stmts'[i].at = stmts[i].at

LEMMA SameFiles ==
    ASSUME Positions, Positions', SourcesStay
    PROVE  /\ SourceStmts' = SourceStmts /\ SQLite' = SQLite
           /\ \A i \in Sources : Original(i)' = Original(i)
           /\ \A i : SourceCycle(i)' = SourceCycle(i) /\ (InCycle(i)' <=> InCycle(i))
<1>1. SourcePlaces = {stmts[i].at : i \in Sources}
  <2>1. Sources \subseteq DOMAIN stmts
    BY DEF Sources
  <2>2. \A j \in DOMAIN stmts : \E i \in Sources : stmts[i].at = stmts[j].at
    BY DEF Positions
  <2> QED
    BY <2>1, <2>2 DEF SourcePlaces
<1>2. SourcePlaces' = {stmts'[i].at : i \in Sources'}
  <2>1. Sources' \subseteq DOMAIN stmts'
    BY DEF Sources
  <2>2. \A j \in DOMAIN stmts' : \E i \in Sources' : stmts'[i].at = stmts'[j].at
    BY DEF Positions
  <2> QED
    BY <2>1, <2>2 DEF SourcePlaces
<1>3. SourcePlaces' = SourcePlaces
  BY <1>1, <1>2 DEF SourcesStay
<1>4. Sources = 1..Cardinality(SourcePlaces)
  BY SourcesAreCounted
<1>5. \A i \in Sources : Original(i)' = Original(i)
  BY DEF Original, SourceStatement, SourcesStay
<1>6. SourceStmts' = SourceStmts
  BY <1>3, <1>4, <1>5 DEF SourceStmts, SourcesStay
<1>7. SourceNodes' = SourceNodes /\ SourceAdj' = SourceAdj
  BY <1>3, <1>6 DEF SourceNodes, SourceAdj
<1>8. \A i : SourceCycle(i)' = SourceCycle(i)
  <2>1. \A i : SourceCycle(i) = Graph(Cardinality(SourcePlaces))!CycleMates(SourceAdj, i)
    BY DEF SourceCycle, SourceAdj, SourceNodes, SourceStmts, Original
  <2>2. \A i : SourceCycle(i)' = Graph(Cardinality(SourcePlaces)')!CycleMates(SourceAdj', i)
    BY DEF SourceCycle, SourceAdj, SourceNodes, SourceStmts, Original
  <2> QED
    BY <1>3, <1>7, <2>1, <2>2
<1>9. SQLite' = SQLite
  BY DEF SQLite, SourcesStay
<1>10. \A i : InCycle(i)' <=> InCycle(i)
  BY <1>8 DEF InCycle, SourcesStay
<1> QED
  BY <1>5, <1>6, <1>8, <1>9, <1>10

\* A step that deals with no component and changes no dependency.
LEMMA SameBreak ==
    ASSUME Positions, Positions', SourcesStay, BreakInv, Sorting, UNCHANGED <<comps, rewritten>>,
           pc' \in {"break", "resort", "sort"}, pc = "break" <=> pc' = "break",
           \A i \in Sources : stmts'[i].deps = stmts[i].deps
    PROVE  BreakInv'
<1>1. /\ SourceStmts' = SourceStmts /\ SQLite' = SQLite /\ Sources' = Sources
      /\ \A i \in Sources : Original(i)' = Original(i)
      /\ \A i : SourceCycle(i)' = SourceCycle(i) /\ (InCycle(i)' <=> InCycle(i))
  BY SameFiles DEF SourcesStay
<1>2. \A i : Handled(i)' <=> Handled(i)
  BY <1>1 DEF Handled
<1>3. \A i \in DOMAIN rewritten : i \in Sources
  BY DEF BreakInv, RewritesAreTheirs
<1>4. Sorting'
  BY DEF Sorting, SourcesStay
<1>5. HandledAreBreakable'
  BY <1>1, <1>2, <1>4 DEF BreakInv, HandledAreBreakable
<1>6. RewritesAreTheirs'
  BY <1>1, <1>2, <1>3, <1>4 DEF BreakInv, RewritesAreTheirs
<1>7. DepsAreTheirs'
  BY <1>1, <1>2, <1>4 DEF BreakInv, DepsAreTheirs
<1> QED
  BY <1>5, <1>6, <1>7 DEF BreakInv

\* Cycles are found: none is handled yet.
LEMMA FindBreak ==
    ASSUME StateInv, StateInv', FindCycles, mode # "graph"
    PROVE  SourcesStay /\ BreakInv' /\ \A i : ~Handled(i)'
<1>1. /\ UNCHANGED <<input, mode, nextFile, stmts, nodes, adj, moves, rewritten, order, verdict>>
      /\ pc = "components" /\ pc' = "break"
  BY DEF FindCycles
<1>2. SourcesStay
  BY <1>1 DEF SourcesStay, Sources
<1>3. Positions /\ Positions'
  BY DEF StateInv, StmtsInv
<1>4. /\ adj = SourceAdj /\ rewritten = << >>
      /\ \A i \in DOMAIN stmts : AsLoaded(i)
  BY <1>1 DEF StateInv, StmtsInv, CyclesAreTheirs, LoadedAsTheyAre, Untouched
<1>5. Sources = DOMAIN stmts /\ Len(stmts) = Cardinality(SourcePlaces)
  <2>1. \A i \in DOMAIN stmts : ~stmts[i].synthesized
    BY <1>4 DEF AsLoaded, Loaded
  <2>2. Sources = DOMAIN stmts /\ Len(stmts) \in Nat /\ DOMAIN stmts = 1..Len(stmts)
    BY <1>3, <2>1, StmtShapes DEF Sources
  <2>3. Sources = 1..Cardinality(SourcePlaces) /\ Cardinality(SourcePlaces) \in Nat
    BY <1>3, SourcesAreCounted
  <2> QED
    BY <2>2, <2>3
<1>6. \A i : Graph(Len(stmts))!CycleMates(adj, i) = SourceCycle(i)
  BY <1>3, <1>4, <1>5, SourceGraph
<1>7. comps' = {SourceCycle(i) : i \in {j \in Sources : SourceCycle(j) # {j}}}
  BY <1>5, <1>6 DEF FindCycles
<1>8. /\ SourceStmts' = SourceStmts /\ SQLite' = SQLite /\ Sources' = Sources
      /\ \A i \in Sources : Original(i)' = Original(i)
      /\ \A i : SourceCycle(i)' = SourceCycle(i) /\ (InCycle(i)' <=> InCycle(i))
  BY <1>2, <1>3, SameFiles DEF SourcesStay
<1>9. \A i : ~Handled(i)'
  BY <1>7, <1>8 DEF Handled, InCycle
<1>10. \A i \in Sources : stmts'[i].deps = Deps(Original(i)')
  <2>1. \A i \in Sources : stmts[i].deps = Deps(Original(i))
    BY <1>4, <1>5 DEF AsLoaded, Loaded
  <2> QED
    BY <1>1, <1>8, <2>1
<1>11. HandledAreBreakable' /\ RewritesAreTheirs'
  BY <1>1, <1>4, <1>8, <1>9 DEF HandledAreBreakable, RewritesAreTheirs, Sorting
<1>12. DepsAreTheirs'
  BY <1>1, <1>8, <1>9, <1>10 DEF DepsAreTheirs, Sorting
<1> QED
  BY <1>2, <1>9, <1>11, <1>12 DEF BreakInv

\* A component is dealt with: it could be broken.
LEMMA HandlesMore ==
    ASSUME StateInv, StateInv', SourcesStay, BreakInv, mode # "graph", pc = "break", pc' = "break",
           NEW C \in comps, comps' = comps \ {C}, AllForeignKeys(C), SQLite \/ Splittable(C)
    PROVE  /\ HandledAreBreakable'
           /\ \A i \in Sources : (Handled(i)' <=> Handled(i) \/ i \in C) /\ (i \in C => ~Handled(i))
<1>1. Positions /\ Positions' /\ Sorting /\ Sorting'
  BY DEF StateInv, StmtsInv, Sorting, SourcesStay
<1>2. /\ SourceStmts' = SourceStmts /\ SQLite' = SQLite /\ Sources' = Sources
      /\ \A i : SourceCycle(i)' = SourceCycle(i) /\ (InCycle(i)' <=> InCycle(i))
  BY <1>1, SameFiles DEF SourcesStay
<1>3. \A i \in C : InCycle(i) /\ SourceCycle(i) = C
  BY WhileBreaking DEF StateInv
<1>4. \A i \in Sources : SourceCycle(i) = C => i \in C
  <2>1. PICK n : n = Cardinality(SourcePlaces)
    OBVIOUS
  <2>2. \A i : SourceCycle(i) = Graph(n)!CycleMates(SourceAdj, i)
    BY <1>1, <2>1, SourceGraph
  <2> QED
    BY <2>2 DEF Graph!CycleMates
<1>5. \A i \in Sources : (Handled(i)' <=> Handled(i) \/ i \in C) /\ (i \in C => ~Handled(i))
  BY <1>2, <1>3, <1>4 DEF Handled
<1>6. \A i \in C : Breakable(SourceStmts, SQLite, i)
  BY ComponentBreaks DEF Breakable
<1>7. \A i \in Sources : Handled(i)' => Breakable(SourceStmts, SQLite, i)
  BY <1>1, <1>5, <1>6 DEF BreakInv, HandledAreBreakable
<1>8. HandledAreBreakable'
  BY <1>2, <1>7 DEF HandledAreBreakable
<1> QED
  BY <1>5, <1>8

LEMMA DropBreak ==
    ASSUME StateInv, StateInv', DropEdgesSQLite, BreakInv, mode # "graph"
    PROVE  SourcesStay /\ BreakInv'
<1>1. UNCHANGED <<input, mode, rewritten>> /\ pc = "break" /\ pc' = "break" /\ SQLite
  BY DEF DropEdgesSQLite, SQLite
<1>2. PICK C \in comps :
         /\ AllForeignKeys(C)
         /\ stmts' = [i \in DOMAIN stmts |->
               IF i \in C
               THEN [stmts[i] EXCEPT !.deps = {n \in @ : ResolvesIn(C, i, n) = {}}]
               ELSE stmts[i]]
         /\ comps' = comps \ {C}
  BY DEF DropEdgesSQLite
<1>3. Positions /\ Positions'
  BY DEF StateInv, StmtsInv
<1>4. \A i \in DOMAIN stmts : stmts[i] \in Stmt
  BY <1>3, StmtShapes
<1>5. DOMAIN stmts' = DOMAIN stmts
  BY <1>2
<1>6. \A i \in DOMAIN stmts :
         /\ stmts'[i].at = stmts[i].at /\ stmts'[i].synthesized = stmts[i].synthesized
         /\ stmts'[i].deps = IF i \in C THEN {n \in stmts[i].deps : ResolvesIn(C, i, n) = {}} ELSE stmts[i].deps
  <2> SUFFICES ASSUME NEW i \in DOMAIN stmts
               PROVE  /\ stmts'[i].at = stmts[i].at /\ stmts'[i].synthesized = stmts[i].synthesized
                      /\ stmts'[i].deps = IF i \in C THEN {n \in stmts[i].deps : ResolvesIn(C, i, n) = {}} ELSE stmts[i].deps
    OBVIOUS
  <2>1. PICK D : D = {n \in stmts[i].deps : ResolvesIn(C, i, n) = {}}
    OBVIOUS
  <2>2. stmts'[i] = IF i \in C THEN [stmts[i] EXCEPT !.deps = D] ELSE stmts[i]
    BY <1>2, <2>1
  <2> QED
    BY <1>4, <2>1, <2>2 DEF Stmt
<1>7. SourcesStay
  BY <1>1, <1>5, <1>6 DEF SourcesStay, Sources
<1>8. /\ HandledAreBreakable'
      /\ \A i \in Sources : (Handled(i)' <=> Handled(i) \/ i \in C) /\ (i \in C => ~Handled(i))
  BY <1>1, <1>2, <1>7, HandlesMore
<1>9. /\ SourceStmts' = SourceStmts /\ SQLite' = SQLite /\ Sources' = Sources
      /\ \A i \in Sources : Original(i)' = Original(i)
  BY <1>3, <1>7, SameFiles DEF SourcesStay
<1>10. RewritesAreTheirs'
  BY <1>1, <1>9 DEF BreakInv, RewritesAreTheirs, Sorting
<1>11. DepsAreTheirs'
  <2> SUFFICES ASSUME NEW i \in Sources
               PROVE  stmts'[i].deps = IF Handled(i)' THEN {m \in Deps(Original(i)) : Inside(SourceStmts, i, m) = {}}
                                       ELSE Deps(Original(i))
    BY <1>1, <1>9 DEF DepsAreTheirs
  <2>1. i \in DOMAIN stmts
    BY DEF Sources
  <2>2. stmts[i].deps = IF Handled(i) THEN {m \in Deps(Original(i)) : Inside(SourceStmts, i, m) = {}}
                        ELSE Deps(Original(i))
    BY <1>1 DEF BreakInv, DepsAreTheirs, Sorting
  <2>3. CASE i \in C
    <3>1. \A m : ResolvesIn(C, i, m) = Inside(SourceStmts, i, m)
      BY <1>1, <2>3, ComponentLink
    <3> QED
      BY <1>6, <1>8, <2>1, <2>2, <2>3, <3>1
  <2>4. CASE i \notin C
    BY <1>6, <1>8, <2>1, <2>2, <2>4
  <2> QED
    BY <2>3, <2>4
<1> QED
  BY <1>7, <1>8, <1>10, <1>11 DEF BreakInv

LEMMA SplitBreak ==
    ASSUME StateInv, StateInv', SplitComponent, BreakInv, mode # "graph"
    PROVE  SourcesStay /\ BreakInv'
<1>1. UNCHANGED <<input, mode, stmts>> /\ pc = "break" /\ pc' = "break" /\ ~SQLite
  BY DEF SplitComponent, SQLite, Splits
<1>2. PICK C \in comps :
         /\ AllForeignKeys(C) /\ Splittable(C) /\ comps' = comps \ {C}
         /\ rewritten' = [i \in DOMAIN rewritten \cup {j \in C : ToExtract(C, j) # {}} |->
               IF i \in DOMAIN rewritten
               THEN rewritten[i]
               ELSE Remove(stmts[i].src.items, ToExtract(C, i))]
  BY DEF SplitComponent
<1>3. Positions /\ Positions'
  BY DEF StateInv, StmtsInv
<1>4. SourcesStay
  BY <1>1 DEF SourcesStay, Sources
<1>5. /\ HandledAreBreakable'
      /\ \A i \in Sources : (Handled(i)' <=> Handled(i) \/ i \in C) /\ (i \in C => ~Handled(i))
  BY <1>1, <1>2, <1>4, HandlesMore
<1>6. /\ SourceStmts' = SourceStmts /\ SQLite' = SQLite /\ Sources' = Sources
      /\ \A i \in Sources : Original(i)' = Original(i)
  BY <1>3, <1>4, SameFiles DEF SourcesStay
<1>7. \A i \in C : /\ i \in Sources /\ ToExtract(C, i) = ExtractedFrom(SourceStmts, i)
                   /\ stmts[i].src = Original(i)
  BY <1>1, <1>2, ComponentLink
<1>8. /\ DOMAIN rewritten = {i \in Sources : Handled(i) /\ ExtractedFrom(SourceStmts, i) # {}}
      /\ \A i \in DOMAIN rewritten : rewritten[i] = Remove(Original(i).items, ExtractedFrom(SourceStmts, i))
  BY <1>1 DEF BreakInv, RewritesAreTheirs, Sorting
<1>9. DOMAIN rewritten' = {i \in Sources : Handled(i)' /\ ExtractedFrom(SourceStmts, i) # {}}
  <2>1. DOMAIN rewritten' = DOMAIN rewritten \cup {j \in C : ToExtract(C, j) # {}}
    BY <1>2
  <2>2. \A i : i \in DOMAIN rewritten' <=> i \in Sources /\ (Handled(i) \/ i \in C) /\ ExtractedFrom(SourceStmts, i) # {}
    BY <1>7, <1>8, <2>1
  <2> QED
    BY <1>5, <2>2
<1>10. \A i \in DOMAIN rewritten' : rewritten'[i] = Remove(Original(i).items, ExtractedFrom(SourceStmts, i))
  <2> SUFFICES ASSUME NEW i \in DOMAIN rewritten'
               PROVE  rewritten'[i] = Remove(Original(i).items, ExtractedFrom(SourceStmts, i))
    OBVIOUS
  <2>1. rewritten'[i] = IF i \in DOMAIN rewritten THEN rewritten[i] ELSE Remove(stmts[i].src.items, ToExtract(C, i))
    BY <1>2
  <2>2. i \notin DOMAIN rewritten => i \in C
    BY <1>2
  <2> QED
    BY <1>7, <1>8, <2>1, <2>2
<1>11. RewritesAreTheirs'
  <2>1. \A i \in DOMAIN rewritten' : i \in Sources
    BY <1>9
  <2> QED
    BY <1>1, <1>6, <1>9, <1>10, <2>1 DEF RewritesAreTheirs
<1>12. DepsAreTheirs'
  BY <1>1, <1>6 DEF BreakInv, DepsAreTheirs, Sorting
<1> QED
  BY <1>4, <1>5, <1>11, <1>12 DEF BreakInv

LEMMA AddBreak ==
    ASSUME StateInv, StateInv', AddAlterTable, BreakInv, mode # "graph"
    PROVE  SourcesStay /\ BreakInv'
<1>1. UNCHANGED <<input, mode, comps, rewritten>> /\ pc = "break" /\ pc' = "break"
  BY DEF AddAlterTable
<1>2. Positions /\ Positions'
  BY DEF StateInv, StmtsInv
<1>3. \E new : stmts' = Append(stmts, new) /\ new.synthesized = TRUE
  <2>1. PICK mv \in moves :
           LET table == stmts[mv.of]
               alter == [kind |-> "alter", name |-> table.src.name,
                         items |-> <<[form |-> "table", target |-> mv.target]>>,
                         sources |-> {}, requires |-> {}]
           IN  stmts' = Append(stmts,
                  [src |-> alter, at |-> table.at,
                   sub |-> NextSubIndex(stmts, table.at) + mv.subN,
                   synthesized |-> TRUE, deps |-> AlterDeps(alter)])
    BY DEF AddAlterTable
  <2>2. \A a, b, c, d : [src |-> a, at |-> b, sub |-> c, synthesized |-> TRUE, deps |-> d].synthesized = TRUE
    OBVIOUS
  <2> QED
    BY <2>1, <2>2
<1>4. PICK new : stmts' = Append(stmts, new) /\ new.synthesized = TRUE
  BY <1>3
<1>5. PICK m \in Nat : m = Len(stmts) /\ DOMAIN stmts = 1..m /\ Sources \subseteq 1..m
  BY <1>2, StmtShapes
<1>6. DOMAIN stmts' = 1..(m + 1) /\ (\A i \in 1..m : stmts'[i] = stmts[i]) /\ stmts'[m + 1] = new
  <2>1. stmts \in Seq(Stmt)
    BY <1>2 DEF Positions
  <2> QED
    BY <1>4, <1>5, <2>1
<1>7. Sources' = Sources
  <2>1. \A i : i \in DOMAIN stmts' <=> i \in DOMAIN stmts \/ i = m + 1
    BY <1>5, <1>6
  <2>2. m + 1 \notin DOMAIN stmts
    BY <1>5
  <2> QED
    BY <1>4, <1>5, <1>6, <2>1, <2>2 DEF Sources
<1>8. \A i \in Sources : stmts'[i] = stmts[i]
  BY <1>5, <1>6
<1>9. SourcesStay
  BY <1>1, <1>7, <1>8 DEF SourcesStay
<1>10. Sorting
  BY <1>1 DEF Sorting
<1> QED
  BY <1>1, <1>2, <1>8, <1>9, <1>10, SameBreak

\* The rewritten statements are parsed again: they depend on what is left.
LEMMA ApplyBreak ==
    ASSUME StateInv, StateInv', ApplyRewrites, BreakInv, mode # "graph"
    PROVE  SourcesStay /\ BreakInv'
<1>1. /\ UNCHANGED <<input, mode, comps, rewritten>> /\ pc = "break" /\ pc' = "resort" /\ comps = {}
      /\ stmts' = [i \in DOMAIN stmts |->
            IF i \in DOMAIN rewritten THEN Reparsed(stmts[i], rewritten[i]) ELSE stmts[i]]
  BY DEF ApplyRewrites
<1>2. /\ Positions /\ Positions' /\ LoadTypes
      /\ \A i \in Sources : stmts[i].src = Original(i) /\ Original(i) \in Statement
  BY <1>1, WhileBreaking DEF StateInv, StmtsInv, LoadInv
<1>3. \A i \in DOMAIN stmts : stmts[i] \in Stmt
  BY <1>2, StmtShapes
<1> PICK ss : ss = SourceStmts
  OBVIOUS
<1>4. /\ DOMAIN rewritten = {i \in Sources : Handled(i) /\ ~SQLite /\ ExtractedFrom(ss, i) # {}}
      /\ \A i \in DOMAIN rewritten : rewritten[i] = Remove(Original(i).items, ExtractedFrom(ss, i))
  BY <1>1 DEF BreakInv, RewritesAreTheirs, Sorting
<1>5. \A i \in DOMAIN stmts : i \notin DOMAIN rewritten => stmts'[i] = stmts[i]
  BY <1>1
<1>6. ASSUME NEW i \in DOMAIN rewritten
      PROVE  /\ stmts'[i].at = stmts[i].at /\ stmts'[i].synthesized = stmts[i].synthesized
             /\ stmts'[i].deps = Deps([RewrittenText(Original(i), ExtractedFrom(ss, i)) EXCEPT !.requires = {}])
  <2>1. i \in DOMAIN stmts /\ i \in Sources
    BY <1>4 DEF Sources
  <2>2. PICK text : text = RewrittenText(Original(i), ExtractedFrom(ss, i))
    OBVIOUS
  <2>3. [stmts[i].src EXCEPT !.items = rewritten[i]] = text
    BY <1>2, <1>4, <2>1, <2>2 DEF RewrittenText
  <2>4. PICK D : D = Deps([text EXCEPT !.requires = {}])
    OBVIOUS
  <2>5. stmts'[i] = [stmts[i] EXCEPT !.src = text, !.deps = D]
    BY <1>1, <2>1, <2>3, <2>4 DEF Reparsed
  <2> QED
    BY <1>3, <2>1, <2>2, <2>4, <2>5 DEF Stmt
<1>7. SourcesStay
  <2>1. DOMAIN stmts' = DOMAIN stmts
    BY <1>1
  <2>2. \A i \in DOMAIN stmts : stmts'[i].at = stmts[i].at /\ stmts'[i].synthesized = stmts[i].synthesized
    BY <1>5, <1>6
  <2> QED
    BY <1>1, <2>1, <2>2 DEF SourcesStay, Sources
<1>8. /\ SourceStmts' = ss /\ SQLite' = SQLite /\ Sources' = Sources
      /\ \A i \in Sources : Original(i)' = Original(i)
      /\ \A i : SourceCycle(i)' = SourceCycle(i) /\ (InCycle(i)' <=> InCycle(i))
  BY <1>2, <1>7, SameFiles DEF SourcesStay
<1>9. \A i : Handled(i) <=> InCycle(i)
  BY <1>1 DEF Handled
<1>10. \A i : Handled(i)' <=> Handled(i)
  BY <1>1, <1>8 DEF Handled
<1>11. HandledAreBreakable'
  BY <1>1, <1>8, <1>10 DEF BreakInv, HandledAreBreakable, Sorting
<1>12. RewritesAreTheirs'
  <2>1. \A i \in DOMAIN rewritten : i \in Sources
    BY <1>4
  <2> QED
    BY <1>1, <1>4, <1>8, <1>10, <2>1 DEF RewritesAreTheirs
<1>13. DepsAreTheirs'
  <2> SUFFICES ASSUME NEW i \in Sources PROVE stmts'[i].deps = DepsLeft(ss, SQLite, i)
    BY <1>1, <1>8 DEF DepsAreTheirs
  <2>1. i \in DOMAIN stmts /\ ss[i].src = Original(i) /\ SourceCycle(i) = CycleOf(ss, i)
    BY <1>2, SourcesLink DEF Sources
  <2>2. stmts[i].deps = IF Handled(i) /\ SQLite THEN {m \in Deps(Original(i)) : Inside(ss, i, m) = {}}
                        ELSE Deps(Original(i))
    BY <1>1 DEF BreakInv, DepsAreTheirs, Sorting
  <2>3. Handled(i) <=> CycleOf(ss, i) # {i}
    BY <1>9, <2>1 DEF InCycle
  <2>4. CASE i \in DOMAIN rewritten
    BY <1>4, <1>6, <2>1, <2>3, <2>4 DEF DepsLeft
  <2>5. CASE i \notin DOMAIN rewritten
    <3>1. stmts'[i].deps = stmts[i].deps
      BY <1>5, <2>1, <2>5
    <3>2. ~Handled(i) \/ SQLite \/ ExtractedFrom(ss, i) = {}
      BY <1>4, <2>5
    <3> QED
      BY <2>1, <2>2, <2>3, <3>1, <3>2 DEF DepsLeft
  <2> QED
    BY <2>4, <2>5
<1> QED
  BY <1>7, <1>11, <1>12, <1>13 DEF BreakInv

\* Sorting leaves all this alone.
LEMMA SortBreak ==
    ASSUME StateInv, StateInv', StartSort \/ EmitNext, BreakInv, mode # "graph"
    PROVE  SourcesStay /\ BreakInv'
<1>1. /\ UNCHANGED <<input, mode, stmts, comps, rewritten>> /\ pc \in {"resort", "sort"} /\ pc' = "sort"
  BY DEF StartSort, EmitNext
<1>2. SourcesStay
  BY <1>1 DEF SourcesStay, Sources
<1>3. Positions /\ Positions' /\ Sorting
  BY <1>1 DEF StateInv, StmtsInv, Sorting
<1> QED
  BY <1>1, <1>2, <1>3, SameBreak

-----------------------------------------------------------------------------
(* Cycle errors *)

\* What CyclesAreGenuine claims of a cycle error.
Genuine(i) ==
    LET s == Original(i)
        inside == {Original(j).name : j \in SourceCycle(i) \ {i}}
    IN  /\ inside # {}
        /\ \/ \E r \in DepRefs(s) : r.name \in inside /\ (s.kind # "table" \/ r.kind # "auto")
           \/ input.dialect # "sqlite" /\ (~Extractable(s) \/ EndsInPair(s.items))
GenuineCycle == \E i \in 1..Cardinality(SourcePlaces) : Genuine(i)

LEMMA SameGenuine ==
    ASSUME Positions, Positions', UNCHANGED <<input, mode, stmts>>
    PROVE  GenuineCycle' <=> GenuineCycle
<1>1. SourcePlaces' = SourcePlaces
  BY DEF SourcePlaces
<1>2. SourcesStay
  BY DEF SourcesStay, Sources
<1>3. \A i : SourceCycle(i)' = SourceCycle(i)
  BY <1>2, SameFiles
<1>4. \A i : Original(i)' = Original(i)
  BY DEF Original, SourceStatement
<1>5. \A i : Genuine(i)' <=> Genuine(i)
  BY <1>3, <1>4 DEF Genuine
<1> QED
  BY <1>1, <1>5 DEF GenuineCycle

\* The shape of a genuine cycle, in terms of the files.
LEMMA GenuineShape ==
    ASSUME Positions, LoadTypes, NEW i \in Sources, CycleOf(SourceStmts, i) # {i},
           \/ ~OnlyForeignKeys(SourceStmts, i)
           \/ ~SQLite /\ (~Extractable(Original(i)) \/ EndsInPair(Original(i).items))
    PROVE  GenuineCycle
<1> PICK ss : ss = SourceStmts
  OBVIOUS
<1>1. /\ Sources = 1..Cardinality(SourcePlaces) /\ Sources = 1..Len(ss) /\ AreSources(ss)
      /\ \A j \in Sources : ss[j].src = Original(j)
      /\ SourceCycle(i) = CycleOf(ss, i)
  BY SourcesLink
<1>2. CycleOf(ss, i) \subseteq Sources /\ i \in CycleOf(ss, i)
  BY <1>1, AdjShape
<1>3. PICK inside : inside = {Original(j).name : j \in SourceCycle(i) \ {i}}
  OBVIOUS
<1>4. \A j \in CycleOf(ss, i) \ {i} : ss[j].src.name \in inside
  BY <1>1, <1>2, <1>3
<1>5. inside # {}
  BY <1>2, <1>4
<1>6. CASE ~OnlyForeignKeys(ss, i)
  <2>1. PICK r \in DepRefs(ss[i].src) : Inside(ss, i, r.name) # {} /\ ~(ss[i].src.kind = "table" /\ r.kind = "auto")
    BY <1>6 DEF OnlyForeignKeys
  <2>2. r.name \in inside
    BY <1>4, <2>1 DEF Inside
  <2>3. Genuine(i)
    BY <1>1, <1>3, <1>5, <2>1, <2>2 DEF Genuine
  <2> QED
    BY <1>1, <2>3 DEF GenuineCycle
<1>7. CASE ~SQLite /\ (~Extractable(Original(i)) \/ EndsInPair(Original(i).items))
  <2>1. Genuine(i)
    BY <1>3, <1>5, <1>7 DEF Genuine, SQLite
  <2> QED
    BY <1>1, <2>1 DEF GenuineCycle
<1> QED
  BY <1>6, <1>7

\* Every foreign key inside a cycle can be extracted if any can.
LEMMA ExtractableIsSeparable ==
    ASSUME NEW ss, AreSources(ss), NEW i \in 1..Len(ss), OnlyForeignKeys(ss, i), Extractable(ss[i].src)
    PROVE  Separable(ss, i)
<1>1. PICK s : s = ss[i].src /\ s \in Statement
  BY SourcesShape
<1> SUFFICES ASSUME NEW m \in NeededBy(ss, i) PROVE \E k \in ExtractedFrom(ss, i) : s.items[k].target = m
  BY <1>1 DEF Separable
<1>2. m \in AutoNames(s) /\ Inside(ss, i, m) # {}
  BY <1>1 DEF NeededBy
<1>3. [name |-> m, kind |-> "auto"] \in DepRefs(s)
  BY <1>2 DEF DepRefs
<1>4. s.kind = "table"
  BY <1>1, <1>2, <1>3 DEF OnlyForeignKeys
<1>5. PICK k \in DOMAIN s.items : s.items[k].target = m /\ m # NoName
  BY <1>2, <1>4 DEF AutoNames, ForeignTargets
<1>6. k \in Clauses(s)
  BY <1>1, <1>5, ClausesAre
<1> QED
  BY <1>1, <1>5, <1>6 DEF ExtractedFrom

\* A component that is the cycle error of a command cannot be broken.
LEMMA UnbreakableMeans ==
    ASSUME StateInv, UnbreakableCycle, mode # "graph"
    PROVE  GenuineCycle /\ \E i \in Sources : CycleOf(SourceStmts, i) # {i} /\ ~Breakable(SourceStmts, SQLite, i)
<1>1. pc = "break" /\ Positions /\ LoadTypes
  BY DEF UnbreakableCycle, StateInv, StmtsInv, LoadInv
<1>2. PICK C \in comps : ~AllForeignKeys(C) \/ (AllForeignKeys(C) /\ ~SQLite /\ ~Splittable(C))
  BY DEF UnbreakableCycle, Splits, SQLite
<1> PICK ss : ss = SourceStmts
  OBVIOUS
<1>3. \A i \in C : i \in Sources /\ CycleOf(ss, i) # {i} /\ ss[i].src = Original(i)
  BY <1>1, <1>2, ComponentLink
<1>4. AreSources(ss) /\ Sources = 1..Len(ss)
  BY <1>1, SourcesLink
<1>5. CASE ~AllForeignKeys(C)
  <2>1. PICK i \in C : ~OnlyForeignKeys(ss, i)
    BY <1>1, <1>2, <1>5, ComponentBreaks
  <2> QED
    BY <1>1, <1>3, <2>1, GenuineShape DEF Breakable
<1>6. CASE AllForeignKeys(C) /\ ~SQLite /\ ~Splittable(C)
  <2>1. (\A i \in C : OnlyForeignKeys(ss, i)) /\ \E i \in C : ~Separable(ss, i)
    BY <1>1, <1>2, <1>6, ComponentBreaks
  <2>2. PICK i \in C : OnlyForeignKeys(ss, i) /\ ~Separable(ss, i)
    BY <2>1
  <2>3. ~Extractable(Original(i))
    BY <1>3, <1>4, <2>2, ExtractableIsSeparable
  <2> QED
    BY <1>1, <1>3, <1>6, <2>2, <2>3, GenuineShape DEF Breakable
<1> QED
  BY <1>2, <1>5, <1>6

\* Once the components are dealt with, every cycle could be broken.
LEMMA AllAreBreakable ==
    ASSUME StateInv, BreakInv, mode # "graph", pc = "sort"
    PROVE  /\ \A i \in 1..Len(SourceStmts) :
                 CycleOf(SourceStmts, i) # {i} => Breakable(SourceStmts, SQLite, i)
           /\ AreSources(SourceStmts) /\ Sources = 1..Len(SourceStmts) /\ Positions /\ LoadTypes
           /\ \A i \in Sources : SourceStmts[i].src = Original(i)
<1>1. Positions /\ LoadTypes
  BY DEF StateInv, StmtsInv, LoadInv
<1>2. /\ AreSources(SourceStmts) /\ Sources = 1..Len(SourceStmts)
      /\ \A i \in Sources : SourceStmts[i].src = Original(i)
      /\ \A i : SourceCycle(i) = CycleOf(SourceStmts, i)
  BY <1>1, SourcesLink
<1>3. comps = {} /\ \A i \in Sources : Handled(i) => Breakable(SourceStmts, SQLite, i)
  BY DEF BreakInv, HandledAreBreakable, Sorting
<1> QED
  BY <1>1, <1>2, <1>3 DEF Handled, InCycle

\* When Sort is stuck nonetheless, a foreign key was left where it was.
LEMMA StuckMeans ==
    ASSUME StateInv, BreakInv, SortFails, mode # "graph"
    PROVE  GenuineCycle /\ ~Acyclic(Len(SourceStmts), AdjLeft(SourceStmts, SQLite))
<1>1. pc = "sort" /\ Followers = {} /\ Len(order) < Len(stmts)
  BY DEF SortFails
<1>2. ~Acyclic(Len(SourceStmts), AdjLeft(SourceStmts, SQLite))
  BY <1>1, SortIsStuck DEF BreakInv
<1>3. SQLite \in BOOLEAN
  BY DEF SQLite
<1>4. PICK i \in 1..Len(SourceStmts) :
         CycleOf(SourceStmts, i) # {i} /\ ~SQLite /\ EndsInPair(SourceStmts[i].src.items)
  BY <1>1, <1>2, <1>3, AllAreBreakable, LeftoverCycle
<1>5. GenuineCycle
  BY <1>1, <1>4, AllAreBreakable, GenuineShape
<1> QED
  BY <1>2, <1>5

-----------------------------------------------------------------------------
(* The steps *)

\* A step that leaves the files and their statements alone.
LEMMA StaysPut ==
    ASSUME InFileOrder, ErrorsAreTheirs, SourcesStay, UNCHANGED <<nextFile, diags>>
    PROVE  InFileOrder' /\ ErrorsAreTheirs'
<1>1. HasError' <=> HasError
  BY DEF HasError
<1> QED
  BY <1>1, SameErrors, SameOrder DEF SourcesStay

LEMMA NotSorting ==
    ASSUME mode' = "graph" \/ pc' \notin {"break", "resort", "sort"}
    PROVE  BreakInv'
BY DEF BreakInv, HandledAreBreakable, RewritesAreTheirs, DepsAreTheirs, Sorting

\* A step inside a command.
LEMMA GoesOn ==
    ASSUME VerdictsAreTheirs, UNCHANGED <<input, mode, verdict>>, pc # "end", pc' # "end"
    PROVE  VerdictsAreTheirs' /\ CyclesAreGenuine'
<1>1. GoodTree' = GoodTree
  BY SameTree
<1>2. VerdictsAreTheirs'
  BY <1>1 DEF VerdictsAreTheirs
<1>3. CyclesAreGenuine'
  BY DEF CyclesAreGenuine
<1> QED
  BY <1>2, <1>3

\* A command ends as it should.
LEMMA ConcludeVerdict ==
    ASSUME StateInv, StateInv', VerdictInv, mode # "graph", pc # "end",
           NEW v \in Verdict \ {"none"}, Conclude(v), UNCHANGED <<nextFile, stmts, diags>>,
           v = "ok" <=> GoodTree, v \in {"cycle", "unsplittable"} => GenuineCycle
    PROVE  VerdictInv'
<1>1. /\ UNCHANGED <<input, mode>> /\ pc' = "end" /\ verdict' = [verdict EXCEPT ![mode] = v]
      /\ verdict \in [Mode -> Verdict] /\ mode \in {"check", "build"}
  BY DEF Conclude, StateInv, LoadInv, LoadTypes, Mode
<1>2. /\ verdict'[mode] = v
      /\ \A m \in {"check", "build"} : m # mode => verdict'[m] = verdict[m]
  BY <1>1 DEF Mode
<1>3. SourcesStay
  BY <1>1 DEF SourcesStay, Sources
<1>4. GoodTree' = GoodTree
  BY <1>1, SameTree
<1>5. VerdictsAreTheirs'
  BY <1>1, <1>2, <1>4 DEF VerdictInv, VerdictsAreTheirs
<1>6. GenuineCycle' <=> GenuineCycle
  BY <1>1, SameGenuine DEF StateInv, StmtsInv
<1>7. CyclesAreGenuine'
  <2>1. (pc' = "end" /\ mode' = "build" /\ verdict'["build"] \in {"cycle", "unsplittable"}) => GenuineCycle'
    BY <1>1, <1>2, <1>6
  <2> QED
    BY <2>1 DEF CyclesAreGenuine, GenuineCycle, Genuine, Original
<1>8. InFileOrder' /\ ErrorsAreTheirs'
  BY <1>3, StaysPut DEF VerdictInv
<1>9. BreakInv'
  BY <1>1, NotSorting
<1> QED
  BY <1>5, <1>7, <1>8, <1>9 DEF VerdictInv

LEMMA StartsOver ==
    ASSUME NEW command, StartOver(command)
    PROVE  InFileOrder' /\ ErrorsAreTheirs' /\ BreakInv'
<1>1. stmts' = << >> /\ diags' = {} /\ nextFile' = 1 /\ pc' = "load"
  BY DEF StartOver
<1>2. Sources' = {}
  BY <1>1 DEF Sources
<1>3. InFileOrder'
  BY <1>2 DEF InFileOrder
<1>4. ErrorsAreTheirs'
  BY <1>1 DEF ErrorsAreTheirs, UnsplitRead, HasError
<1> QED
  BY <1>1, <1>3, <1>4, NotSorting

\* A tree that check and bundle accept can be ordered.
LEMMA GoodMeans ==
    ASSUME StateInv, InFileOrder, ErrorsAreTheirs, pc \notin {"load", "end"}
    PROVE  GoodTree <=> ~HasError /\ CanBeOrdered(SourceStmts, SQLite)
<1>1. Complete
  BY DEF StateInv, LoadInv, LoadTypes
<1> QED
  BY <1>1, CleanLink, TreeLink DEF GoodTree

LEMMA ReadFailsVerdict == ASSUME StateInv, StateInv', VerdictInv, ReadFails, mode # "graph" PROVE VerdictInv'
<1>1. /\ pc = "load" /\ nextFile <= Len(input.files) /\ input.files[nextFile].status = "unreadable"
      /\ Conclude("io") /\ UNCHANGED <<nextFile, stmts, diags>>
  BY DEF ReadFails, work
<1>2. nextFile \in DOMAIN input.files
  BY <1>1 DEF StateInv, LoadInv, LoadTypes, Tree
<1>3. ~GoodTree
  BY <1>1, <1>2 DEF GoodTree, Clean
<1>4. "io" \in Verdict \ {"none"}
  BY DEF Verdict
<1> QED
  BY <1>1, <1>3, <1>4, ConcludeVerdict

LEMMA StopVerdict == ASSUME StateInv, StateInv', VerdictInv, StopAtDiagnostic, mode # "graph" PROVE VerdictInv'
<1>1. pc = "gate" /\ HasError /\ Conclude("diagnostic") /\ UNCHANGED <<nextFile, stmts, diags>>
  BY DEF StopAtDiagnostic, work
<1>2. ~GoodTree
  BY <1>1, GoodMeans DEF VerdictInv
<1>3. "diagnostic" \in Verdict \ {"none"}
  BY DEF Verdict
<1> QED
  BY <1>1, <1>2, <1>3, ConcludeVerdict

LEMMA UnbreakableVerdict ==
    ASSUME StateInv, StateInv', VerdictInv, UnbreakableCycle, mode # "graph" PROVE VerdictInv'
<1>1. pc = "break" /\ UNCHANGED <<nextFile, stmts, diags>>
  BY DEF UnbreakableCycle, work
<1>2. PICK v \in {"cycle", "unsplittable"} : Conclude(v)
  BY DEF UnbreakableCycle
<1>3. v \in Verdict \ {"none"} /\ v # "ok"
  BY DEF Verdict
<1>4. Sources = 1..Len(SourceStmts)
  BY SourcesLink DEF StateInv, StmtsInv, LoadInv
<1>5. GenuineCycle /\ ~CanBeOrdered(SourceStmts, SQLite)
  BY <1>4, UnbreakableMeans DEF CanBeOrdered
<1>6. ~GoodTree
  BY <1>1, <1>5, GoodMeans DEF VerdictInv
<1> QED
  BY <1>1, <1>2, <1>3, <1>5, <1>6, ConcludeVerdict

LEMMA SortFailsVerdict ==
    ASSUME StateInv, StateInv', VerdictInv, SortFails, mode # "graph" PROVE VerdictInv'
<1>1. pc = "sort" /\ Conclude("cycle") /\ UNCHANGED <<nextFile, stmts, diags>>
  BY DEF SortFails, work
<1>2. GenuineCycle /\ ~CanBeOrdered(SourceStmts, SQLite)
  BY StuckMeans DEF VerdictInv, CanBeOrdered
<1>3. ~GoodTree
  BY <1>1, <1>2, GoodMeans DEF VerdictInv
<1>4. "cycle" \in Verdict \ {"none"}
  BY DEF Verdict
<1> QED
  BY <1>1, <1>2, <1>3, <1>4, ConcludeVerdict

LEMMA FinishVerdict ==
    ASSUME StateInv, StateInv', VerdictInv, Finish, mode # "graph" PROVE VerdictInv'
<1>1. pc = "sort" /\ Len(order) = Len(stmts) /\ Conclude(FinalVerdict) /\ UNCHANGED <<nextFile, stmts, diags>>
  BY DEF Finish
<1>2. BreakInv /\ DepsAreTheirs
  BY DEF VerdictInv, BreakInv
<1>3. CanBeOrdered(SourceStmts, SQLite)
  BY <1>1, <1>2, AllAreBreakable, SortSucceeds DEF CanBeOrdered
<1>4. FinalVerdict = "ok" <=> GoodTree
  BY <1>1, <1>3, GoodMeans DEF VerdictInv, FinalVerdict
<1>5. FinalVerdict \in Verdict \ {"none"} /\ FinalVerdict \notin {"cycle", "unsplittable"}
  BY DEF FinalVerdict, Verdict
<1> QED
  BY <1>1, <1>4, <1>5, ConcludeVerdict

LEMMA LoadVerdict ==
    ASSUME StateInv, VerdictInv, LexFails \/ LoadFile \/ FinishLoad
    PROVE  VerdictInv'
<1>1. UNCHANGED <<input, mode, verdict>> /\ pc = "load" /\ pc' \in {"load", "gate"}
  BY DEF LexFails, LoadFile, FinishLoad
<1>2. InFileOrder' /\ ErrorsAreTheirs'
  BY LexFailsVerdict, LoadFileVerdict, FinishLoadVerdict DEF VerdictInv
<1> QED
  BY <1>1, <1>2, NotSorting, GoesOn DEF VerdictInv

LEMMA ResolveVerdict ==
    ASSUME StateInv, StateInv', VerdictInv, PassGate \/ ResolveEdges \/ FindCycles
    PROVE  VerdictInv'
<1>1. /\ UNCHANGED <<input, mode, nextFile, stmts, diags, verdict>> /\ pc # "end" /\ pc' # "end"
      /\ FindCycles \/ pc' \notin {"break", "resort", "sort"}
  BY DEF PassGate, ResolveEdges, FindCycles, work
<1>2. SourcesStay
  BY <1>1 DEF SourcesStay, Sources
<1>3. InFileOrder' /\ ErrorsAreTheirs'
  BY <1>1, <1>2, StaysPut DEF VerdictInv
<1>4. BreakInv'
  BY <1>1, NotSorting, FindBreak
<1> QED
  BY <1>1, <1>3, <1>4, GoesOn DEF VerdictInv

LEMMA BreakingVerdict ==
    ASSUME StateInv, StateInv', VerdictInv, mode # "graph",
           DropEdgesSQLite \/ SplitComponent \/ AddAlterTable \/ ApplyRewrites \/ StartSort \/ EmitNext
    PROVE  VerdictInv'
<1>1. /\ UNCHANGED <<input, mode, nextFile, diags, verdict>>
      /\ pc \in {"break", "resort", "sort"} /\ pc' \in {"break", "resort", "sort"}
  <2>1. CASE DropEdgesSQLite
    BY <2>1 DEF DropEdgesSQLite
  <2>2. CASE SplitComponent
    BY <2>2 DEF SplitComponent
  <2>3. CASE AddAlterTable
    BY <2>3 DEF AddAlterTable
  <2>4. CASE ApplyRewrites
    BY <2>4 DEF ApplyRewrites
  <2>5. CASE StartSort
    BY <2>5 DEF StartSort
  <2>6. CASE EmitNext
    BY <2>6 DEF EmitNext
  <2> QED
    BY <2>1, <2>2, <2>3, <2>4, <2>5, <2>6
<1>2. SourcesStay /\ BreakInv'
  BY DropBreak, SplitBreak, AddBreak, ApplyBreak, SortBreak DEF VerdictInv
<1>3. InFileOrder' /\ ErrorsAreTheirs'
  BY <1>1, <1>2, StaysPut DEF VerdictInv
<1> QED
  BY <1>1, <1>2, <1>3, GoesOn DEF VerdictInv

LEMMA RunBuildVerdict == ASSUME VerdictInv, RunBuild PROVE VerdictInv'
<1>1. /\ UNCHANGED <<input, verdict>> /\ pc = "end" /\ mode = "check" /\ mode' = "build" /\ pc' = "load"
      /\ StartOver("build")
  BY DEF RunBuild, StartOver
<1>2. InFileOrder' /\ ErrorsAreTheirs' /\ BreakInv'
  BY <1>1, StartsOver
<1>3. GoodTree' = GoodTree
  BY <1>1, SameTree
<1>4. VerdictsAreTheirs'
  BY <1>1, <1>3 DEF VerdictInv, VerdictsAreTheirs
<1>5. CyclesAreGenuine'
  BY <1>1 DEF CyclesAreGenuine
<1> QED
  BY <1>2, <1>4, <1>5 DEF VerdictInv

LEMMA SameVerdict == ASSUME StateInv, StateInv', VerdictInv, UNCHANGED vars PROVE VerdictInv'
<1>1. UNCHANGED <<input, mode, pc, nextFile, stmts, diags, comps, rewritten, verdict>>
  BY DEF vars, work
<1>2. SourcesStay /\ Positions /\ Positions'
  BY <1>1 DEF SourcesStay, Sources, StateInv, StmtsInv
<1>3. InFileOrder' /\ ErrorsAreTheirs'
  BY <1>1, <1>2, StaysPut DEF VerdictInv
<1>4. BreakInv'
  <2>1. CASE Sorting
    BY <1>1, <1>2, <2>1, SameBreak DEF VerdictInv, Sorting
  <2>2. CASE ~Sorting
    BY <1>1, <2>2, NotSorting DEF Sorting
  <2> QED
    BY <2>1, <2>2
<1>5. VerdictsAreTheirs'
  <2>1. GoodTree' = GoodTree
    BY <1>1, SameTree
  <2> QED
    BY <1>1, <2>1 DEF VerdictInv, VerdictsAreTheirs
<1>6. CyclesAreGenuine'
  <2>1. GenuineCycle' <=> GenuineCycle
    BY <1>1, <1>2, SameGenuine
  <2>2. pc = "end" /\ mode = "build" /\ verdict["build"] \in {"cycle", "unsplittable"} => GenuineCycle
    BY DEF VerdictInv, CyclesAreGenuine, GenuineCycle, Genuine, Original
  <2>3. pc' = "end" /\ mode' = "build" /\ verdict'["build"] \in {"cycle", "unsplittable"} => GenuineCycle'
    BY <1>1, <2>1, <2>2
  <2> QED
    BY <2>3 DEF CyclesAreGenuine, GenuineCycle, Genuine, Original
<1> QED
  BY <1>3, <1>4, <1>5, <1>6 DEF VerdictInv

LEMMA BundleStepVerdict == ASSUME StateInv, StateInv', VerdictInv, BundleStep PROVE VerdictInv'
<1>1. mode # "graph" /\ Next
  BY DEF BundleStep
<1>2. CASE Ended
  BY <1>2, SameVerdict DEF Ended
<1> QED
  BY <1>1, <1>2, ReadFailsVerdict, LoadVerdict, StopVerdict, ResolveVerdict, UnbreakableVerdict, BreakingVerdict,
     SortFailsVerdict, FinishVerdict, RunBuildVerdict DEF Next

\* graph breaks no cycle and fails on none.
LEMMA GraphVerdict ==
    ASSUME mode' = "graph", InFileOrder', ErrorsAreTheirs'
    PROVE  VerdictInv'
<1>1. VerdictsAreTheirs' /\ CyclesAreGenuine'
  BY DEF VerdictsAreTheirs, CyclesAreGenuine
<1> QED
  BY <1>1, NotSorting DEF VerdictInv

LEMMA GraphStepVerdict ==
    ASSUME StateInv, StateInv', VerdictInv, RunGraph \/ GraphLoadStep \/ ExportGraph
    PROVE  VerdictInv'
<1>1. CASE RunGraph
  <2>1. mode' = "graph" /\ StartOver("graph")
    BY <1>1 DEF RunGraph, StartOver
  <2> QED
    BY <2>1, StartsOver, GraphVerdict
<1>2. CASE GraphLoadStep /\ (LexFails \/ LoadFile \/ FinishLoad)
  BY <1>2, LoadVerdict
<1>3. CASE GraphLoadStep /\ (PassGate \/ ResolveEdges \/ FindCycles)
  BY <1>3, ResolveVerdict
<1>4. CASE (GraphLoadStep /\ ReadFails) \/ ExportGraph
  <2>1. mode = "graph" /\ UNCHANGED work /\ \E v : Conclude(v)
    BY <1>4 DEF GraphLoadStep, ReadFails, ExportGraph
  <2>2. mode' = "graph" /\ UNCHANGED <<input, mode, nextFile, stmts, diags>>
    BY <2>1 DEF Conclude, work
  <2>3. SourcesStay
    BY <2>2 DEF SourcesStay, Sources
  <2> QED
    BY <2>2, <2>3, StaysPut, GraphVerdict DEF VerdictInv
<1> QED
  BY <1>1, <1>2, <1>3, <1>4 DEF GraphLoadStep

LEMMA VerdictInvInit == CommandsInit => VerdictInv
<1> SUFFICES ASSUME CommandsInit PROVE VerdictInv
  OBVIOUS
<1>1. /\ pc = "load" /\ mode = "check" /\ stmts = << >> /\ diags = {} /\ nextFile = 1
      /\ verdict = [m \in Mode |-> "none"]
  BY DEF CommandsInit, Init, Fresh
<1>2. Sources = {}
  BY <1>1 DEF Sources
<1>3. InFileOrder
  BY <1>2 DEF InFileOrder
<1>4. ErrorsAreTheirs
  BY <1>1 DEF ErrorsAreTheirs, UnsplitRead, HasError
<1>5. BreakInv
  BY <1>1 DEF BreakInv, HandledAreBreakable, RewritesAreTheirs, DepsAreTheirs, Sorting
<1>6. VerdictsAreTheirs
  BY <1>1 DEF VerdictsAreTheirs, Mode
<1>7. CyclesAreGenuine
  BY <1>1 DEF CyclesAreGenuine
<1> QED
  BY <1>3, <1>4, <1>5, <1>6, <1>7 DEF VerdictInv

LEMMA VerdictInvNext == ASSUME CommandsInv, CommandsInv', VerdictInv, [CommandsNext]_allVars PROVE VerdictInv'
<1>1. StateInv /\ StateInv'
  BY DEF CommandsInv
<1>2. CASE BundleStep
  BY <1>1, <1>2, BundleStepVerdict
<1>3. CASE RunGraph \/ GraphLoadStep \/ ExportGraph
  BY <1>1, <1>3, GraphStepVerdict
<1>4. CASE CommandsEnded \/ UNCHANGED allVars
  <2>1. UNCHANGED vars
    BY <1>4 DEF CommandsEnded, allVars
  <2> QED
    BY <1>1, <2>1, SameVerdict
<1> QED
  BY <1>2, <1>3, <1>4 DEF CommandsNext

LEMMA AlwaysVerdictInv == CommandsSpec => []VerdictInv
<1>1. CommandsInv /\ CommandsInv' /\ VerdictInv /\ [CommandsNext]_allVars => VerdictInv'
  BY VerdictInvNext
<1> QED
  BY <1>1, VerdictInvInit, AlwaysCommandsInv, PTL DEF CommandsSpec

-----------------------------------------------------------------------------
(* Counting foreign keys *)

KeysTo(items, t) == {k \in DOMAIN items : items[k].target = t}

\* The foreign keys to t of the statements at a, each with its statement.
KeyPlaces(ss, a, t) ==
    UNION {{<<p, k>> : k \in {j \in DOMAIN ss[p].src.items : ss[p].src.items[j].target = t}} :
              p \in {q \in DOMAIN ss : ss[q].at = a}}

LEMMA KeysCounted ==
    ASSUME NEW items, IsFiniteSet(DOMAIN items), NEW t
    PROVE  /\ IsFiniteSet(KeysTo(items, t)) /\ Cardinality(KeysTo(items, t)) \in Nat
           /\ ForeignKeysTo(items, t) = Cardinality(KeysTo(items, t))
<1>1. KeysTo(items, t) \in SUBSET (DOMAIN items)
  BY DEF KeysTo
<1>2. IsFiniteSet(KeysTo(items, t))
  BY <1>1, FS_Subset
<1> QED
  BY <1>2, FS_CardinalityType DEF ForeignKeysTo, KeysTo

LEMMA ItemsAreFinite ==
    ASSUME NEW items \in Seq(Item)
    PROVE  IsFiniteSet(DOMAIN items)
<1>1. PICK n \in Nat : DOMAIN items = 1..n
  OBVIOUS
<1> QED
  BY <1>1, CountTo

Firsts(c, S) == {<<c, k>> : k \in S}
Seconds(S, c) == {<<k, c>> : k \in S}

LEMMA PairsAreCounted ==
    ASSUME NEW S, IsFiniteSet(S), NEW c
    PROVE  /\ IsFiniteSet(Firsts(c, S)) /\ Cardinality(Firsts(c, S)) = Cardinality(S)
           /\ IsFiniteSet(Seconds(S, c)) /\ Cardinality(Seconds(S, c)) = Cardinality(S)
<1> DEFINE f == [k \in S |-> <<c, k>>]
           g == [k \in S |-> <<k, c>>]
<1>1. f \in Bijection(S, Firsts(c, S))
  BY DEF Bijection, Injection, IsInjective, Surjection, Firsts
<1>2. g \in Bijection(S, Seconds(S, c))
  BY DEF Bijection, Injection, IsInjective, Surjection, Seconds
<1>3. ExistsBijection(S, Firsts(c, S)) /\ ExistsBijection(S, Seconds(S, c))
  BY <1>1, <1>2 DEF ExistsBijection
<1> QED
  BY <1>3, FS_Bijection

\* Remove keeps every foreign key that is not to be removed and, of a pair at
\* the end of the list, one that is.
LEMMA KeysLeft ==
    ASSUME NEW items \in Seq(Item), NEW E \in SUBSET (DOMAIN items), NEW t, t # NoName
    PROVE  /\ ForeignKeysTo(Remove(items, E), t) + Cardinality({k \in E : items[k].target = t})
                 >= ForeignKeysTo(items, t)
           /\ ~EndsInPair(items) =>
                 ForeignKeysTo(Remove(items, E), t) + Cardinality({k \in E : items[k].target = t})
                    = ForeignKeysTo(items, t)
<1>1. PICK S : S = Left(items, E)
  OBVIOUS
<1>2. PICK left : left = Remove(items, E)
  OBVIOUS
<1>3. PICK c : c = Cardinality(S)
  OBVIOUS
<1>4. PICK f \in Bijection(1..c, S) :
         left = [j \in 1..c |-> IF f[j] \in E /\ items[f[j]].form = "inline" THEN Plain ELSE items[f[j]]]
  BY <1>1, <1>2, <1>3, RemoveKeepsLeft
<1>5. PICK W : W = KeysTo(items, t)
  OBVIOUS
<1>6. PICK X : X = {k \in E : items[k].target = t}
  OBVIOUS
<1>7. PICK L : L = {k \in W : k \notin E \/ SkippedByRemove(items, E, k)}
  OBVIOUS
<1>8. PICK A : A = KeysTo(left, t)
  OBVIOUS
<1>9. IsFiniteSet(W) /\ IsFiniteSet(X) /\ IsFiniteSet(L)
  <2>1. IsFiniteSet(W)
    BY <1>5, ItemsAreFinite, KeysCounted
  <2>2. X \in SUBSET W /\ L \in SUBSET W
    BY <1>5, <1>6, <1>7 DEF KeysTo
  <2> QED
    BY <2>1, <2>2, FS_Subset
<1>10. /\ f \in [1..c -> S] /\ \A j, h \in 1..c : f[j] = f[h] => j = h
       /\ \A k \in S : \E j \in 1..c : f[j] = k
  BY <1>4 DEF Bijection, Injection, IsInjective, Surjection
<1>11. \A j \in 1..c : j \in A <=> f[j] \in L
  <2> SUFFICES ASSUME NEW j \in 1..c PROVE j \in A <=> f[j] \in L
    OBVIOUS
  <2>1. f[j] \in S /\ f[j] \in DOMAIN items
    BY <1>1, <1>10 DEF Left
  <2>2. left[j] = IF f[j] \in E /\ items[f[j]].form = "inline" THEN Plain ELSE items[f[j]]
    BY <1>4
  <2>3. DOMAIN left = 1..c
    BY <1>4
  <2>4. Plain.target = NoName
    BY DEF Plain
  <2>5. j \in A <=> left[j].target = t
    BY <1>8, <2>3 DEF KeysTo
  <2>6. f[j] \in L <=> items[f[j]].target = t /\ (f[j] \notin E \/ SkippedByRemove(items, E, f[j]))
    BY <1>5, <1>7, <2>1 DEF KeysTo
  <2>7. SkippedByRemove(items, E, f[j]) => items[f[j]].form = "table"
    BY DEF SkippedByRemove
  <2>8. f[j] \notin E \/ items[f[j]].form = "inline" \/ SkippedByRemove(items, E, f[j])
    BY <1>1, <2>1 DEF Left
  <2> QED
    BY <2>2, <2>4, <2>5, <2>6, <2>7, <2>8
<1>12. A \subseteq 1..c
  BY <1>4, <1>8 DEF KeysTo
<1>13. L \subseteq S
  BY <1>1, <1>5, <1>7 DEF KeysTo, Left
<1>14. IsFiniteSet(A) /\ Cardinality(A) = Cardinality(L)
  <2> DEFINE g == [j \in A |-> f[j]]
  <2>1. g \in Injection(A, L)
    BY <1>10, <1>11, <1>12 DEF Injection, IsInjective
  <2>2. g \in Surjection(A, L)
    <3>1. \A k \in L : \E j \in A : f[j] = k
      BY <1>10, <1>11, <1>13
    <3>2. g \in [A -> L]
      BY <2>1 DEF Injection
    <3>3. \A k \in L : \E j \in A : g[j] = k
      BY <3>1
    <3> QED
      BY <3>2, <3>3 DEF Surjection
  <2> HIDE DEF g
  <2> QED
    BY <1>9, <2>1, <2>2, FS_Injection
<1>15. L \cup X = W
  BY <1>5, <1>6, <1>7 DEF KeysTo
<1>16. /\ Cardinality(W) = Cardinality(L) + Cardinality(X) - Cardinality(L \cap X)
       /\ Cardinality(L \cap X) \in Nat
  BY <1>9, <1>15, FS_Union, FS_Intersection, FS_CardinalityType
<1>17. ~EndsInPair(items) => Cardinality(L \cap X) = 0
  <2> SUFFICES ASSUME ~EndsInPair(items) PROVE L \cap X = {}
    BY FS_EmptySet
  <2> SUFFICES ASSUME NEW k \in L, k \in X PROVE FALSE
    OBVIOUS
  <2>1. SkippedByRemove(items, E, k)
    BY <1>6, <1>7
  <2>2. PICK n \in Nat : n = Len(items) /\ DOMAIN items = 1..n
    OBVIOUS
  <2>3. k = n /\ n - 1 \in E /\ items[n].form = "table" /\ items[n - 1].form = "table"
    BY <2>1, <2>2 DEF SkippedByRemove
  <2>4. n >= 2
    BY <2>2, <2>3
  <2> QED
    BY <2>2, <2>3, <2>4 DEF EndsInPair
<1>18. ForeignKeysTo(left, t) = Cardinality(A) /\ ForeignKeysTo(items, t) = Cardinality(W)
  BY <1>5, <1>8 DEF ForeignKeysTo, KeysTo
<1>19. Cardinality(L) \in Nat /\ Cardinality(X) \in Nat /\ Cardinality(W) \in Nat
  BY <1>9, FS_CardinalityType
<1> QED
  BY <1>2, <1>6, <1>14, <1>16, <1>17, <1>18, <1>19

IsKeyPlace(ss, a, t, p, k) ==
    p \in DOMAIN ss /\ ss[p].at = a /\ k \in DOMAIN ss[p].src.items /\ ss[p].src.items[k].target = t

ArePairs(S, D) == \A x \in S : x = <<x[1], x[2]>> /\ x[1] \in D

\* ord puts m things in another order.
Reorders(ord, m) ==
    /\ ord \in [1..m -> 1..m]
    /\ \A p, q \in 1..m : ord[p] = ord[q] => p = q
    /\ \A i \in 1..m : \E p \in 1..m : ord[p] = i

LEMMA InKeyPlaces ==
    ASSUME NEW ss, NEW a, NEW t
    PROVE  /\ \A p, k : <<p, k>> \in KeyPlaces(ss, a, t) <=> IsKeyPlace(ss, a, t, p, k)
           /\ ArePairs(KeyPlaces(ss, a, t), DOMAIN ss)
<1> DEFINE To(p) == {j \in DOMAIN ss[p].src.items : ss[p].src.items[j].target = t}
           Pair(p, K) == {<<p, k>> : k \in K}
           At == {q \in DOMAIN ss : ss[q].at = a}
<1>1. KeyPlaces(ss, a, t) = UNION {Pair(p, To(p)) : p \in At}
  BY DEF KeyPlaces
<1>2. \A p, k : k \in To(p) <=> k \in DOMAIN ss[p].src.items /\ ss[p].src.items[k].target = t
  OBVIOUS
<1>3. \A p : p \in At <=> p \in DOMAIN ss /\ ss[p].at = a
  OBVIOUS
<1> HIDE DEF To, At
<1>4. \A p, q, k, K : <<q, k>> \in Pair(p, K) <=> q = p /\ k \in K
  OBVIOUS
<1>5. \A p, K : \A x \in Pair(p, K) : x = <<x[1], x[2]>> /\ x[1] = p
  OBVIOUS
<1> HIDE DEF Pair
<1>6. \A x : x \in KeyPlaces(ss, a, t) <=> \E p \in At : x \in Pair(p, To(p))
  BY <1>1
<1>7. \A p, k : <<p, k>> \in KeyPlaces(ss, a, t) <=> p \in At /\ k \in To(p)
  BY <1>4, <1>6
<1>8. \A x \in KeyPlaces(ss, a, t) : x = <<x[1], x[2]>> /\ x[1] \in DOMAIN ss
  BY <1>3, <1>5, <1>6
<1>9. \A p, k : <<p, k>> \in KeyPlaces(ss, a, t) <=> IsKeyPlace(ss, a, t, p, k)
  BY <1>2, <1>3, <1>7 DEF IsKeyPlace
<1> QED
  BY <1>8, <1>9 DEF ArePairs

\* Numbering things in another order keeps their number.
LEMMA Renumbering ==
    ASSUME NEW m, NEW ord, NEW S, NEW T, Reorders(ord, m), IsFiniteSet(T),
           ArePairs(S, 1..m), ArePairs(T, 1..m),
           \A p \in 1..m : \A k : <<p, k>> \in S <=> <<ord[p], k>> \in T
    PROVE  Cardinality(S) = Cardinality(T)
<1> DEFINE g == [x \in S |-> <<ord[x[1]], x[2]>>]
<1>1. \A x \in S : x = <<x[1], x[2]>> /\ x[1] \in 1..m
  BY DEF ArePairs
<1>2. \A x \in S : <<ord[x[1]], x[2]>> \in T
  BY <1>1
<1>3. g \in [S -> T]
  BY <1>2
<1>4. \A x, y \in S : g[x] = g[y] => x = y
  <2> SUFFICES ASSUME NEW x \in S, NEW y \in S, g[x] = g[y] PROVE x = y
    OBVIOUS
  <2>1. ord[x[1]] = ord[y[1]] /\ x[2] = y[2]
    OBVIOUS
  <2>2. x[1] = y[1]
    BY <1>1, <2>1 DEF Reorders
  <2> QED
    BY <1>1, <2>1, <2>2
<1>5. \A z \in T : \E x \in S : g[x] = z
  <2> SUFFICES ASSUME NEW z \in T PROVE \E x \in S : g[x] = z
    OBVIOUS
  <2>1. z = <<z[1], z[2]>> /\ z[1] \in 1..m
    BY DEF ArePairs
  <2>2. PICK p \in 1..m : ord[p] = z[1]
    BY <2>1 DEF Reorders
  <2>3. <<p, z[2]>> \in S
    BY <2>1, <2>2
  <2>4. g[<<p, z[2]>>] = z
    BY <2>1, <2>2, <2>3
  <2> QED
    BY <2>3, <2>4
<1> HIDE DEF g
<1>6. g \in Injection(S, T) /\ g \in Surjection(S, T)
  BY <1>3, <1>4, <1>5 DEF Injection, IsInjective, Surjection
<1> QED
  BY <1>6, FS_Injection

\* The statements have the same keys in whatever order they are.
LEMMA KeysRenumbered ==
    ASSUME NEW ss, NEW out, NEW m, NEW ord, NEW a, NEW t,
           Reorders(ord, m), DOMAIN ss = 1..m, DOMAIN out = 1..m,
           \A p \in 1..m : out[p] = ss[ord[p]],
           IsFiniteSet(KeyPlaces(ss, a, t))
    PROVE  Cardinality(KeyPlaces(out, a, t)) = Cardinality(KeyPlaces(ss, a, t))
<1>1. \A p \in 1..m : \A k : IsKeyPlace(out, a, t, p, k) <=> IsKeyPlace(ss, a, t, ord[p], k)
  <2> SUFFICES ASSUME NEW p \in 1..m, NEW k
               PROVE  IsKeyPlace(out, a, t, p, k) <=> IsKeyPlace(ss, a, t, ord[p], k)
    OBVIOUS
  <2>1. ord[p] \in DOMAIN ss /\ p \in DOMAIN out
    BY DEF Reorders
  <2>2. PICK st : st = out[p] /\ st = ss[ord[p]]
    OBVIOUS
  <2> QED
    BY <2>1, <2>2 DEF IsKeyPlace
<1>2. \A p \in 1..m : \A k : <<p, k>> \in KeyPlaces(out, a, t) <=> <<ord[p], k>> \in KeyPlaces(ss, a, t)
  BY <1>1, InKeyPlaces
<1>3. ArePairs(KeyPlaces(out, a, t), 1..m) /\ ArePairs(KeyPlaces(ss, a, t), 1..m)
  BY InKeyPlaces
<1> QED
  BY <1>2, <1>3, Renumbering

-----------------------------------------------------------------------------
(* Foreign keys move *)

\* What has been extracted from i, and what of it has been added again.
Extracted(i) == IF Handled(i) /\ ~SQLite THEN ExtractedFrom(SourceStmts, i) ELSE {}
Moved(i) == {k \in Extracted(i) : \A mv \in moves : mv.of # i \/ mv.clause # k}

\* The statements split off table i for a foreign key to t.
Alters(i, t) == {j \in DOMAIN stmts \ Sources : stmts[j].at = stmts[i].at /\ stmts[j].src.items[1].target = t}

MovesAreTheirs ==
    Touched =>
        /\ \A mv \in moves : /\ mv.of \in Sources /\ mv.clause \in Extracted(mv.of)
                             /\ mv.target = Original(mv.of).items[mv.clause].target
        /\ \A x, y \in moves : x.of = y.of /\ x.clause = y.clause => x = y
        /\ Broken => moves = {}

ExtractedIsRemoved ==
    Touched =>
        /\ DOMAIN rewritten = {i \in Sources : Extracted(i) # {}}
        /\ \A i \in DOMAIN rewritten : rewritten[i] = Remove(Original(i).items, Extracted(i))

\* One statement has been added for each foreign key moved.
MovedIsAdded ==
    Touched =>
        /\ \A j \in DOMAIN stmts \ Sources : DOMAIN stmts[j].src.items = {1}
        /\ \A i \in Sources : \A t \in Name :
              Cardinality(Alters(i, t)) = Cardinality({k \in Moved(i) : Original(i).items[k].target = t})

KeysInv == MovesAreTheirs /\ ExtractedIsRemoved /\ MovedIsAdded

LEMMA ExtractedShape ==
    ASSUME Positions, LoadTypes, NEW i \in Sources
    PROVE  /\ Extracted(i) \in SUBSET (DOMAIN Original(i).items)
           /\ Original(i).items \in Seq(Item) /\ IsFiniteSet(DOMAIN Original(i).items)
<1>1. SourceStmts[i].src = Original(i) /\ Original(i) \in Statement
  BY SourcesLink
<1>2. Original(i).items \in Seq(Item)
  BY <1>1 DEF Statement
<1>3. IsFiniteSet(DOMAIN Original(i).items)
  BY <1>2, ItemsAreFinite
<1>4. Extracted(i) \in SUBSET (DOMAIN Original(i).items)
  BY <1>1 DEF Extracted, ExtractedFrom, Clauses
<1> QED
  BY <1>2, <1>3, <1>4

\* While components are being broken and sorted, what was extracted is what
\* the rewrites remove.
LEMMA RemovedWhileSorting == BreakInv /\ Sorting => ExtractedIsRemoved
<1> SUFFICES ASSUME BreakInv, Sorting PROVE ExtractedIsRemoved
  OBVIOUS
<1>1. /\ DOMAIN rewritten = {i \in Sources : Handled(i) /\ ~SQLite /\ ExtractedFrom(SourceStmts, i) # {}}
      /\ \A i \in DOMAIN rewritten : rewritten[i] = Remove(Original(i).items, ExtractedFrom(SourceStmts, i))
  BY DEF BreakInv, RewritesAreTheirs
<1>2. \A i : Extracted(i) # {} <=> Handled(i) /\ ~SQLite /\ ExtractedFrom(SourceStmts, i) # {}
  BY DEF Extracted
<1>3. DOMAIN rewritten = {i \in Sources : Extracted(i) # {}}
  BY <1>1, <1>2
<1>4. \A i \in DOMAIN rewritten : Extracted(i) = ExtractedFrom(SourceStmts, i)
  BY <1>1 DEF Extracted
<1> QED
  BY <1>1, <1>3, <1>4 DEF ExtractedIsRemoved

\* Nothing is moved, and the statements that were added stay.
LEMMA SameMoved ==
    ASSUME Positions, Positions', SourcesStay, Touched, MovedIsAdded,
           DOMAIN stmts' = DOMAIN stmts, \A j \in DOMAIN stmts \ Sources : stmts'[j] = stmts[j],
           \A i \in Sources : Moved(i)' = Moved(i)
    PROVE  MovedIsAdded'
<1>1. Sources' = Sources /\ \A i \in Sources : stmts'[i].at = stmts[i].at
  BY DEF SourcesStay
<1>2. \A i \in Sources : Original(i)' = Original(i)
  BY SameFiles
<1>3. \A i \in Sources : \A t : Alters(i, t)' = Alters(i, t)
  BY <1>1 DEF Alters
<1>4. /\ \A j \in DOMAIN stmts \ Sources : DOMAIN stmts[j].src.items = {1}
      /\ \A i \in Sources : \A t \in Name :
            Cardinality(Alters(i, t)) = Cardinality({k \in Moved(i) : Original(i).items[k].target = t})
  BY DEF MovedIsAdded
<1>5. \A j \in DOMAIN stmts' \ Sources' : DOMAIN stmts'[j].src.items = {1}
  BY <1>1, <1>4
<1>6. ASSUME NEW i \in Sources, NEW t \in Name
      PROVE  Cardinality(Alters(i, t)') = Cardinality({k \in Moved(i)' : Original(i)'.items[k].target = t})
  BY <1>2, <1>3, <1>4
<1> QED
  BY <1>1, <1>5, <1>6 DEF MovedIsAdded

\* A step that leaves the moves and what is extracted alone.
LEMMA SameKeys ==
    ASSUME Positions, Positions', SourcesStay, Touched, KeysInv,
           DOMAIN stmts' = DOMAIN stmts, \A j \in DOMAIN stmts \ Sources : stmts'[j] = stmts[j],
           \A i \in Sources : Extracted(i)' = Extracted(i),
           UNCHANGED <<moves, rewritten>>, Broken' => moves = {}
    PROVE  KeysInv'
<1>1. Sources' = Sources /\ moves' = moves /\ rewritten' = rewritten
  BY DEF SourcesStay
<1>2. \A i \in Sources : Original(i)' = Original(i)
  BY SameFiles
<1>3. \A i \in Sources : Moved(i)' = Moved(i)
  BY <1>1 DEF Moved
<1>4. MovedIsAdded'
  BY <1>3, SameMoved DEF KeysInv
<1>5. MovesAreTheirs'
  <2>1. /\ \A mv \in moves : /\ mv.of \in Sources /\ mv.clause \in Extracted(mv.of)
                             /\ mv.target = Original(mv.of).items[mv.clause].target
        /\ \A x, y \in moves : x.of = y.of /\ x.clause = y.clause => x = y
    BY DEF KeysInv, MovesAreTheirs
  <2> SUFFICES ASSUME NEW mv \in moves
               PROVE  /\ mv.of \in Sources /\ mv.clause \in Extracted(mv.of)'
                      /\ mv.target = Original(mv.of)'.items[mv.clause].target
    BY <1>1, <2>1 DEF MovesAreTheirs
  <2>2. PICK i \in Sources : i = mv.of
    BY <2>1
  <2>3. Original(i)' = Original(i) /\ Extracted(i)' = Extracted(i)
    BY <1>2
  <2> QED
    BY <2>1, <2>2, <2>3
<1>6. ExtractedIsRemoved'
  <2>1. /\ DOMAIN rewritten = {i \in Sources : Extracted(i) # {}}
        /\ \A i \in DOMAIN rewritten : rewritten[i] = Remove(Original(i).items, Extracted(i))
    BY DEF KeysInv, ExtractedIsRemoved
  <2>2. DOMAIN rewritten = {i \in Sources : Extracted(i)' # {}}
    BY <2>1
  <2>3. \A i \in DOMAIN rewritten : rewritten[i] = Remove(Original(i)'.items, Extracted(i)')
    BY <1>2, <2>1
  <2> QED
    BY <1>1, <2>2, <2>3 DEF ExtractedIsRemoved
<1> QED
  BY <1>4, <1>5, <1>6 DEF KeysInv

\* Cycles are found: nothing is extracted yet.
LEMMA FindKeys ==
    ASSUME StateInv, StateInv', FindCycles, mode # "graph"
    PROVE  KeysInv'
<1>1. UNCHANGED <<stmts, moves, rewritten>> /\ pc = "components" /\ pc' = "break" /\ mode' = mode
  BY DEF FindCycles
<1>2. SourcesStay /\ BreakInv' /\ \A i : ~Handled(i)'
  BY FindBreak
<1>3. moves' = {} /\ Sources' = DOMAIN stmts'
  <2>1. moves = {} /\ \A i \in DOMAIN stmts : AsLoaded(i)
    BY <1>1 DEF StateInv, StmtsInv, LoadedAsTheyAre, Untouched
  <2>2. \A i \in DOMAIN stmts : ~stmts[i].synthesized
    BY <2>1 DEF AsLoaded, Loaded
  <2> QED
    BY <1>1, <2>1, <2>2 DEF Sources
<1>4. ExtractedIsRemoved'
  <2>1. Sorting'
    BY <1>1 DEF Sorting
  <2> QED
    BY <1>2, <2>1, RemovedWhileSorting, PTL
<1>5. \A i : Extracted(i)' = {} /\ Moved(i)' = {}
  BY <1>2 DEF Extracted, Moved
<1>6. \A i, t : Alters(i, t)' = {}
  BY <1>3 DEF Alters
<1>7. MovesAreTheirs'
  BY <1>3 DEF MovesAreTheirs
<1>8. MovedIsAdded'
  <2> SUFFICES ASSUME NEW i \in Sources', NEW t \in Name
               PROVE  Cardinality(Alters(i, t)') = Cardinality({k \in Moved(i)' : Original(i)'.items[k].target = t})
    BY <1>3 DEF MovedIsAdded
  <2>1. {k \in Moved(i)' : Original(i)'.items[k].target = t} = {}
    BY <1>5
  <2> QED
    BY <1>6, <2>1
<1> QED
  BY <1>4, <1>7, <1>8 DEF KeysInv

LEMMA SameExtracted ==
    ASSUME Positions, Positions', SourcesStay, UNCHANGED comps
    PROVE  \A i : Extracted(i)' = Extracted(i)
<1>1. /\ SourceStmts' = SourceStmts /\ SQLite' = SQLite
      /\ \A i : SourceCycle(i)' = SourceCycle(i) /\ (InCycle(i)' <=> InCycle(i))
  BY SameFiles
<1>2. \A i : Handled(i)' <=> Handled(i)
  BY <1>1 DEF Handled
<1> QED
  BY <1>1, <1>2 DEF Extracted

LEMMA DropKeys ==
    ASSUME StateInv, StateInv', DropEdgesSQLite, BreakInv, KeysInv, mode # "graph"
    PROVE  KeysInv'
<1>1. UNCHANGED <<input, mode, moves, rewritten>> /\ pc = "break" /\ pc' = "break" /\ SQLite
  BY DEF DropEdgesSQLite, SQLite
<1>2. SourcesStay /\ Positions /\ Positions'
  BY DropBreak DEF StateInv, StmtsInv
<1>3. PICK C \in comps :
         stmts' = [i \in DOMAIN stmts |->
            IF i \in C THEN [stmts[i] EXCEPT !.deps = {n \in @ : ResolvesIn(C, i, n) = {}}] ELSE stmts[i]]
  BY DEF DropEdgesSQLite
<1>4. \A i \in C : i \in Sources
  BY <1>1, WhileBreaking DEF StateInv
<1>5. DOMAIN stmts' = DOMAIN stmts /\ \A j \in DOMAIN stmts \ Sources : stmts'[j] = stmts[j]
  BY <1>3, <1>4
<1>6. SQLite' = SQLite
  BY <1>2, SameFiles
<1>7. \A i : Extracted(i)' = Extracted(i)
  BY <1>1, <1>6 DEF Extracted
<1>8. Touched /\ ~Broken'
  BY <1>1 DEF Touched, Broken, Built
<1> QED
  BY <1>1, <1>2, <1>5, <1>7, <1>8, SameKeys

LEMMA ApplyKeys ==
    ASSUME StateInv, StateInv', ApplyRewrites, BreakInv, KeysInv, mode # "graph"
    PROVE  KeysInv'
<1>1. /\ UNCHANGED <<input, mode, comps, moves, rewritten>> /\ pc = "break" /\ moves = {}
      /\ stmts' = [i \in DOMAIN stmts |->
            IF i \in DOMAIN rewritten THEN Reparsed(stmts[i], rewritten[i]) ELSE stmts[i]]
  BY DEF ApplyRewrites
<1>2. SourcesStay /\ Positions /\ Positions'
  BY ApplyBreak DEF StateInv, StmtsInv
<1>3. \A i \in DOMAIN rewritten : i \in Sources
  BY <1>1, WhileBreaking DEF StateInv
<1>4. DOMAIN stmts' = DOMAIN stmts /\ \A j \in DOMAIN stmts \ Sources : stmts'[j] = stmts[j]
  BY <1>1, <1>3
<1>5. Touched
  BY <1>1 DEF Touched
<1> QED
  BY <1>1, <1>2, <1>4, <1>5, SameExtracted, SameKeys

\* Nothing is moved any more.
LEMMA SortKeys ==
    ASSUME StateInv, StateInv', KeysInv, mode # "graph",
           UNCHANGED <<input, mode, stmts, comps, moves, rewritten>>, pc \in {"resort", "sort"}
    PROVE  KeysInv'
<1>1. Broken /\ Touched
  BY DEF Broken, Touched
<1>2. SourcesStay /\ Positions /\ Positions'
  BY DEF SourcesStay, Sources, StateInv, StmtsInv
<1>3. moves = {}
  BY <1>1 DEF KeysInv, MovesAreTheirs
<1> QED
  BY <1>1, <1>2, <1>3, SameExtracted, SameKeys

\* Every clause that is to be extracted from a component is to be moved.
LEMMA SplitKeys ==
    ASSUME StateInv, StateInv', SplitComponent, BreakInv, KeysInv, mode # "graph"
    PROVE  KeysInv'
<1>1. /\ UNCHANGED <<input, mode, stmts>> /\ pc = "break" /\ pc' = "break" /\ mode' # "graph"
      /\ ~SQLite /\ moves = {}
  BY DEF SplitComponent, SQLite, Splits
<1>2. PICK C \in comps : /\ AllForeignKeys(C) /\ Splittable(C) /\ comps' = comps \ {C}
                         /\ moves' = MovesOf(C)
  BY DEF SplitComponent
<1>3. Positions /\ Positions' /\ SourcesStay /\ BreakInv'
  BY SplitBreak DEF StateInv, StmtsInv
<1>4. \A i \in Sources : (Handled(i)' <=> Handled(i) \/ i \in C) /\ (i \in C => ~Handled(i))
  BY <1>1, <1>2, <1>3, HandlesMore
<1>5. /\ SourceStmts' = SourceStmts /\ SQLite' = SQLite /\ Sources' = Sources
      /\ \A i \in Sources : Original(i)' = Original(i)
  BY <1>3, SameFiles DEF SourcesStay
<1>6. \A i \in C : /\ i \in Sources /\ ToExtract(C, i) = ExtractedFrom(SourceStmts, i)
                   /\ stmts[i].src = Original(i)
  BY <1>1, <1>2, ComponentLink
<1>7. \A i \in Sources : /\ i \in C => Extracted(i)' = ToExtract(C, i) /\ Extracted(i) = {}
                         /\ i \notin C => Extracted(i)' = Extracted(i)
  BY <1>1, <1>4, <1>5, <1>6 DEF Extracted
<1> DEFINE Move(i, k) == [of |-> i, clause |-> k, target |-> stmts[i].src.items[k].target,
                          subN |-> Cardinality({j \in ToExtract(C, i) : j < k})]
           From(i) == {Move(i, k) : k \in ToExtract(C, i)}
<1>8. moves' = UNION {From(i) : i \in C}
  BY <1>2 DEF MovesOf
<1>9. \A i, k : /\ Move(i, k).of = i /\ Move(i, k).clause = k
                /\ Move(i, k).target = stmts[i].src.items[k].target
  OBVIOUS
<1>10. \A i : \A mv : mv \in From(i) <=> \E k \in ToExtract(C, i) : mv = Move(i, k)
  OBVIOUS
<1> HIDE DEF Move, From
<1>11. \A mv : mv \in moves' <=> \E i \in C : \E k \in ToExtract(C, i) : mv = Move(i, k)
  <2>1. \A mv : mv \in moves' <=> \E i \in C : mv \in From(i)
    BY <1>8
  <2> QED
    BY <1>10, <2>1
<1>12. \A mv \in moves' : /\ mv.of \in C /\ mv.clause \in ToExtract(C, mv.of) /\ mv = Move(mv.of, mv.clause)
                          /\ mv.target = stmts[mv.of].src.items[mv.clause].target
  BY <1>9, <1>11
<1>13. MovesAreTheirs'
  <2>1. ~Broken'
    BY <1>1 DEF Broken, Built
  <2>2. \A x, y \in moves' : x.of = y.of /\ x.clause = y.clause => x = y
    BY <1>12
  <2> SUFFICES ASSUME NEW mv \in moves'
               PROVE  /\ mv.of \in Sources' /\ mv.clause \in Extracted(mv.of)'
                      /\ mv.target = Original(mv.of)'.items[mv.clause].target
    BY <2>1, <2>2 DEF MovesAreTheirs
  <2>3. PICK i \in C : i = mv.of
    BY <1>12
  <2>4. i \in Sources /\ Extracted(i)' = ToExtract(C, i) /\ Original(i)' = stmts[i].src
    BY <1>5, <1>6, <1>7
  <2> QED
    BY <1>5, <1>12, <2>3, <2>4
<1>14. ExtractedIsRemoved'
  <2>1. Sorting'
    BY <1>1 DEF Sorting
  <2> QED
    BY <1>3, <2>1, RemovedWhileSorting, PTL
<1>15. ASSUME NEW i \in Sources PROVE Moved(i)' = Moved(i)
  <2>1. Moved(i) = Extracted(i)
    BY <1>1 DEF Moved
  <2>2. Moved(i)' = {k \in Extracted(i)' : \A mv \in moves' : mv.of # i \/ mv.clause # k}
    BY DEF Moved
  <2>3. CASE i \in C
    <3>1. \A k \in ToExtract(C, i) : \E mv \in moves' : mv.of = i /\ mv.clause = k
      BY <1>9, <1>11, <2>3
    <3> QED
      BY <1>7, <2>1, <2>2, <2>3, <3>1
  <2>4. CASE i \notin C
    <3>1. \A mv \in moves' : mv.of # i
      BY <1>12, <2>4
    <3> QED
      BY <1>7, <2>1, <2>2, <2>4, <3>1
  <2> QED
    BY <2>3, <2>4
<1>16. MovedIsAdded'
  <2>1. Touched
    BY <1>1 DEF Touched
  <2> QED
    BY <1>1, <1>3, <1>15, <2>1, SameMoved DEF KeysInv
<1> QED
  BY <1>13, <1>14, <1>16 DEF KeysInv

\* The statement that is added stands for the move that is gone.
LEMMA AddKeys ==
    ASSUME StateInv, StateInv', AddAlterTable, BreakInv, KeysInv, mode # "graph"
    PROVE  KeysInv'
<1>1. UNCHANGED <<input, mode, comps, rewritten>> /\ pc = "break" /\ pc' = "break" /\ Touched
  BY DEF AddAlterTable, Touched
<1>2. Positions /\ Positions' /\ SourcesStay /\ BreakInv' /\ LoadTypes
  BY AddBreak DEF StateInv, StmtsInv, LoadInv
<1>3. PICK mv \in moves :
         /\ moves' = moves \ {mv}
         /\ LET table == stmts[mv.of]
                alter == [kind |-> "alter", name |-> table.src.name,
                          items |-> <<[form |-> "table", target |-> mv.target]>>,
                          sources |-> {}, requires |-> {}]
            IN  stmts' = Append(stmts,
                   [src |-> alter, at |-> table.at,
                    sub |-> NextSubIndex(stmts, table.at) + mv.subN,
                    synthesized |-> TRUE, deps |-> AlterDeps(alter)])
  BY DEF AddAlterTable
<1>4. PICK o, c, u : o = mv.of /\ c = mv.clause /\ u = mv.target
  OBVIOUS
<1>5. \E new : /\ stmts' = Append(stmts, new) /\ new.synthesized = TRUE /\ new.at = stmts[o].at
               /\ new.src.items = <<[form |-> "table", target |-> u]>>
  <2>1. PICK alter : alter = [kind |-> "alter", name |-> stmts[o].src.name,
                              items |-> <<[form |-> "table", target |-> u]>>,
                              sources |-> {}, requires |-> {}]
    OBVIOUS
  <2>2. PICK new : new = [src |-> alter, at |-> stmts[o].at, sub |-> NextSubIndex(stmts, stmts[o].at) + mv.subN,
                          synthesized |-> TRUE, deps |-> AlterDeps(alter)]
    OBVIOUS
  <2>3. stmts' = Append(stmts, new)
    BY <1>3, <1>4, <2>1, <2>2
  <2>4. new.synthesized = TRUE /\ new.at = stmts[o].at /\ new.src = alter
    BY <2>2
  <2>5. alter.items = <<[form |-> "table", target |-> u]>>
    BY <2>1
  <2> QED
    BY <2>3, <2>4, <2>5
<1>6. PICK new : /\ stmts' = Append(stmts, new) /\ new.synthesized = TRUE /\ new.at = stmts[o].at
                 /\ new.src.items = <<[form |-> "table", target |-> u]>>
  BY <1>5
<1>7. PICK m \in Nat : m = Len(stmts) /\ DOMAIN stmts = 1..m /\ Sources \subseteq 1..m
  BY <1>2, StmtShapes
<1>8. DOMAIN stmts' = 1..(m + 1) /\ (\A i \in 1..m : stmts'[i] = stmts[i]) /\ stmts'[m + 1] = new
  <2>1. stmts \in Seq(Stmt)
    BY <1>2 DEF Positions
  <2> QED
    BY <1>6, <1>7, <2>1
<1>9. Sources' = Sources /\ m + 1 \notin Sources
  BY <1>2, <1>7 DEF SourcesStay
<1>10. \A i : i \in DOMAIN stmts' \ Sources' <=> i \in DOMAIN stmts \ Sources \/ i = m + 1
  BY <1>7, <1>8, <1>9
<1>11. \A i : Extracted(i)' = Extracted(i)
  BY <1>1, <1>2, SameExtracted
<1>12. \A i \in Sources : Original(i)' = Original(i)
  BY <1>2, SameFiles
<1>13. /\ \A x \in moves : /\ x.of \in Sources /\ x.clause \in Extracted(x.of)
                           /\ x.target = Original(x.of).items[x.clause].target
       /\ \A x, y \in moves : x.of = y.of /\ x.clause = y.clause => x = y
  BY <1>1 DEF KeysInv, MovesAreTheirs
<1>14. o \in Sources /\ c \in Extracted(o) /\ u = Original(o).items[c].target /\ mv \in moves
  BY <1>3, <1>4, <1>13
<1>15. MovesAreTheirs'
  <2>1. ~Broken'
    BY <1>1 DEF Broken, Built
  <2>2. \A x \in moves' : x \in moves
    BY <1>3
  <2> SUFFICES ASSUME NEW x \in moves'
               PROVE  /\ x.of \in Sources' /\ x.clause \in Extracted(x.of)'
                      /\ x.target = Original(x.of)'.items[x.clause].target
    BY <1>13, <2>1, <2>2 DEF MovesAreTheirs
  <2>3. PICK i \in Sources : i = x.of
    BY <1>13, <2>2
  <2>4. Extracted(i)' = Extracted(i) /\ Original(i)' = Original(i)
    BY <1>11, <1>12
  <2> QED
    BY <1>9, <1>13, <2>2, <2>3, <2>4
<1>16. ExtractedIsRemoved'
  <2>1. Sorting'
    BY <1>1 DEF Sorting
  <2> QED
    BY <1>2, <2>1, RemovedWhileSorting, PTL
<1>17. \A i \in Sources : Moved(i)' = IF i = o THEN Moved(i) \cup {c} ELSE Moved(i)
  <2> SUFFICES ASSUME NEW i \in Sources, NEW k
               PROVE  k \in Moved(i)' <=> k \in Moved(i) \/ (i = o /\ k = c)
    OBVIOUS
  <2>1. k \in Moved(i) <=> k \in Extracted(i) /\ \A x \in moves : x.of # i \/ x.clause # k
    BY DEF Moved
  <2>2. k \in Moved(i)' <=> k \in Extracted(i) /\ \A x \in moves' : x.of # i \/ x.clause # k
    BY <1>11 DEF Moved
  <2> QED
    BY <1>3, <1>4, <1>13, <1>14, <2>1, <2>2
<1>18. c \notin Moved(o)
  BY <1>4, <1>14 DEF Moved
<1>19. \A i \in Sources : \A t, j : j \in Alters(i, t)' <=> j \in Alters(i, t) \/ (i = o /\ t = u /\ j = m + 1)
  <2> SUFFICES ASSUME NEW i \in Sources, NEW t, NEW j
               PROVE  j \in Alters(i, t)' <=> j \in Alters(i, t) \/ (i = o /\ t = u /\ j = m + 1)
    OBVIOUS
  <2>1. j \in Alters(i, t) <=> j \in DOMAIN stmts \ Sources /\ stmts[j].at = stmts[i].at /\ stmts[j].src.items[1].target = t
    BY DEF Alters
  <2>2. j \in Alters(i, t)' <=> j \in DOMAIN stmts' \ Sources' /\ stmts'[j].at = stmts'[i].at /\ stmts'[j].src.items[1].target = t
    BY DEF Alters
  <2>3. stmts'[i].at = stmts[i].at
    BY <1>7, <1>8
  <2>4. CASE j = m + 1
    <3>1. new.at = stmts[i].at <=> i = o
      BY <1>2, <1>6, <1>14 DEF Positions
    <3>2. new.src.items[1].target = u
      BY <1>6
    <3>3. j \notin DOMAIN stmts
      BY <1>7, <2>4
    <3> QED
      BY <1>8, <1>10, <2>1, <2>2, <2>3, <2>4, <3>1, <3>2, <3>3
  <2>5. CASE j # m + 1
    <3>1. j \in DOMAIN stmts => stmts'[j] = stmts[j]
      BY <1>7, <1>8
    <3> QED
      BY <1>10, <2>1, <2>2, <2>3, <2>5, <3>1
  <2> QED
    BY <2>4, <2>5
<1>20. /\ \A j \in DOMAIN stmts \ Sources : DOMAIN stmts[j].src.items = {1}
       /\ \A i \in Sources : \A t \in Name :
             Cardinality(Alters(i, t)) = Cardinality({k \in Moved(i) : Original(i).items[k].target = t})
  BY <1>1 DEF KeysInv, MovedIsAdded
<1>21. \A j \in DOMAIN stmts' \ Sources' : DOMAIN stmts'[j].src.items = {1}
  <2>1. DOMAIN new.src.items = {1}
    <3>1. \A it : DOMAIN <<it>> = {1}
      OBVIOUS
    <3>2. DOMAIN <<[form |-> "table", target |-> u]>> = {1}
      BY <3>1, Zenon
    <3> QED
      BY <1>6, <3>2, Zenon
  <2>2. \A j \in DOMAIN stmts \ Sources : stmts'[j] = stmts[j]
    BY <1>7, <1>8
  <2> QED
    BY <1>8, <1>10, <1>20, <2>1, <2>2
<1>22. ASSUME NEW i \in Sources, NEW t \in Name
       PROVE  Cardinality(Alters(i, t)') = Cardinality({k \in Moved(i)' : Original(i)'.items[k].target = t})
  <2> PICK A : A = Alters(i, t)
    OBVIOUS
  <2> PICK M : M = {k \in Moved(i) : Original(i).items[k].target = t}
    OBVIOUS
  <2>1. Cardinality(A) = Cardinality(M)
    BY <1>20
  <2>2. IsFiniteSet(A) /\ m + 1 \notin A
    <3>1. A \in SUBSET (1..m) /\ m + 1 \notin 1..m
      BY <1>7 DEF Alters
    <3> QED
      BY <3>1, CountTo, FS_Subset
  <2>3. IsFiniteSet(M)
    <3>1. M \in SUBSET (DOMAIN Original(i).items)
      BY <1>2, ExtractedShape DEF Moved
    <3> QED
      BY <1>2, <3>1, ExtractedShape, FS_Subset
  <2>4. Original(i)' = Original(i)
    BY <1>12
  <2>5. CASE i = o /\ t = u
    <3>1. Alters(i, t)' = A \cup {m + 1}
      BY <1>19, <2>5
    <3>2. {k \in Moved(i)' : Original(i)'.items[k].target = t} = M \cup {c}
      BY <1>14, <1>17, <2>4, <2>5
    <3>3. c \notin M
      BY <1>18, <2>5
    <3>4. Cardinality(A \cup {m + 1}) = Cardinality(A) + 1
      BY <2>2, FS_AddElement
    <3>5. Cardinality(M \cup {c}) = Cardinality(M) + 1
      BY <2>3, <3>3, FS_AddElement
    <3> QED
      BY <2>1, <3>1, <3>2, <3>4, <3>5
  <2>6. CASE i # o
    BY <1>17, <1>19, <2>1, <2>4, <2>6
  <2>7. CASE i = o /\ t # u
    <3>1. {k \in Moved(i)' : Original(i)'.items[k].target = t} = M
      BY <1>14, <1>17, <2>4, <2>7
    <3>2. Alters(i, t)' = A
      BY <1>19, <2>7
    <3> QED
      BY <2>1, <3>1, <3>2
  <2> QED
    BY <2>5, <2>6, <2>7
<1>23. MovedIsAdded'
  BY <1>9, <1>21, <1>22 DEF MovedIsAdded
<1> QED
  BY <1>15, <1>16, <1>23 DEF KeysInv

LEMMA OtherKeys == ASSUME ~Touched' PROVE KeysInv'
BY DEF KeysInv, MovesAreTheirs, ExtractedIsRemoved, MovedIsAdded

\* A step before cycles are broken, or to a failure.
LEMMA EarlyKeys ==
    ASSUME StateInv,
           \/ pc' \in {"load", "gate", "cycles", "components"}
           \/ mode' = "graph"
           \/ \E v \in Verdict : v # "ok" /\ Conclude(v)
    PROVE  KeysInv'
<1>1. CASE pc' \in {"load", "gate", "cycles", "components"} \/ mode' = "graph"
  <2>1. ~Touched'
    BY <1>1 DEF Touched, Broken, Built
  <2> QED
    BY <2>1, OtherKeys
<1>2. CASE \E v \in Verdict : v # "ok" /\ Conclude(v)
  <2>1. pc' = "end" /\ ~Built'
    BY <1>2, ConcludeFails DEF StateInv, Conclude
  <2>2. ~Touched'
    BY <2>1 DEF Touched, Broken
  <2> QED
    BY <2>2, OtherKeys
<1> QED
  BY <1>1, <1>2

LEMMA UnchangedKeys == ASSUME StateInv, StateInv', KeysInv, UNCHANGED vars PROVE KeysInv'
<1>1. UNCHANGED <<input, mode, pc, stmts, comps, moves, rewritten, verdict>>
  BY DEF vars, work
<1>2. (Touched' <=> Touched) /\ (Broken' <=> Broken)
  BY <1>1 DEF Touched, Broken, Built
<1>3. CASE Touched
  <2>1. SourcesStay /\ Positions /\ Positions'
    BY <1>1 DEF SourcesStay, Sources, StateInv, StmtsInv
  <2>2. Broken' => moves = {}
    BY <1>2, <1>3 DEF KeysInv, MovesAreTheirs
  <2> QED
    BY <1>1, <1>3, <2>1, <2>2, SameExtracted, SameKeys
<1> QED
  BY <1>2, <1>3, OtherKeys

LEMMA BundleStepKeys == ASSUME StateInv, StateInv', VerdictInv, KeysInv, BundleStep PROVE KeysInv'
<1>1. mode # "graph" /\ Next /\ BreakInv
  BY DEF BundleStep, VerdictInv
<1>2. CASE ReadFails \/ StopAtDiagnostic \/ UnbreakableCycle \/ SortFails
  <2>1. \E v \in Verdict : v # "ok" /\ Conclude(v)
    BY <1>2 DEF ReadFails, StopAtDiagnostic, UnbreakableCycle, SortFails, Verdict
  <2> QED
    BY <2>1, EarlyKeys
<1>3. CASE LexFails \/ LoadFile \/ FinishLoad \/ PassGate \/ ResolveEdges \/ RunBuild
  <2>1. pc' \in {"load", "gate", "cycles", "components"}
    BY <1>3 DEF LexFails, LoadFile, FinishLoad, PassGate, ResolveEdges, RunBuild, StartOver
  <2> QED
    BY <2>1, EarlyKeys
<1>4. CASE StartSort \/ EmitNext \/ Finish
  <2>1. UNCHANGED <<input, mode, stmts, comps, moves, rewritten>> /\ pc \in {"resort", "sort"}
    BY <1>4 DEF StartSort, EmitNext, Finish, Conclude
  <2> QED
    BY <1>1, <2>1, SortKeys
<1>5. CASE Ended
  BY <1>5, UnchangedKeys DEF Ended
<1> QED
  BY <1>1, <1>2, <1>3, <1>4, <1>5, FindKeys, DropKeys, SplitKeys, AddKeys, ApplyKeys DEF Next

LEMMA KeysInvInit == CommandsInit => KeysInv
<1> SUFFICES ASSUME CommandsInit PROVE KeysInv
  OBVIOUS
<1>1. ~Touched
  BY DEF CommandsInit, Init, Touched, Broken, Built
<1> QED
  BY <1>1 DEF KeysInv, MovesAreTheirs, ExtractedIsRemoved, MovedIsAdded

LEMMA KeysInvNext ==
    ASSUME CommandsInv, CommandsInv', VerdictInv, KeysInv, [CommandsNext]_allVars
    PROVE  KeysInv'
<1>1. StateInv /\ StateInv'
  BY DEF CommandsInv
<1>2. CASE BundleStep
  BY <1>1, <1>2, BundleStepKeys
<1>3. CASE RunGraph \/ GraphLoadStep \/ ExportGraph
  <2>1. mode' = "graph"
    BY <1>3 DEF RunGraph, StartOver, GraphLoadStep, ReadFails, LexFails, LoadFile, FinishLoad, PassGate,
                ResolveEdges, FindCycles, ExportGraph, Conclude
  <2> QED
    BY <1>1, <2>1, EarlyKeys
<1>4. CASE CommandsEnded \/ UNCHANGED allVars
  <2>1. UNCHANGED vars
    BY <1>4 DEF CommandsEnded, allVars
  <2> QED
    BY <1>1, <2>1, UnchangedKeys
<1> QED
  BY <1>2, <1>3, <1>4 DEF CommandsNext

LEMMA AlwaysKeysInv == CommandsSpec => []KeysInv
<1>1. CommandsInv /\ CommandsInv' /\ VerdictInv /\ KeysInv /\ [CommandsNext]_allVars => KeysInv'
  BY KeysInvNext
<1> QED
  BY <1>1, KeysInvInit, AlwaysVerdictInv, AlwaysCommandsInv, PTL DEF CommandsSpec

-----------------------------------------------------------------------------
(* What the bundle holds *)

LEMMA WhenBuilt ==
    ASSUME StateInv, Built
    PROVE  /\ Touched /\ Broken /\ Positions /\ LoadTypes
           /\ Len(stmts) \in Nat /\ DOMAIN stmts = 1..Len(stmts) /\ DOMAIN output = 1..Len(stmts)
           /\ Reorders(order, Len(stmts)) /\ \A p \in 1..Len(stmts) : output[p] = stmts[order[p]]
<1>1. Touched /\ Broken /\ Positions /\ LoadTypes /\ mode # "graph"
  BY DEF Touched, Broken, Built, StateInv, StmtsInv, LoadInv
<1>2. PICK m \in Nat : m = Len(stmts) /\ DOMAIN stmts = 1..m
  BY <1>1, StmtShapes
<1>3. /\ order \in Seq(DOMAIN stmts) /\ DOMAIN order = DOMAIN stmts
      /\ \A p, q \in DOMAIN order : order[p] = order[q] => p = q
      /\ output = [p \in DOMAIN order |-> stmts[order[p]]]
  BY <1>1 DEF StateInv, OrderIsGood
<1>4. DOMAIN order = 1..m /\ \A p \in 1..m : order[p] \in 1..m
  BY <1>2, <1>3
<1>5. order \in [1..m -> 1..m]
  BY <1>2, <1>3, <1>4
<1>6. \A i \in 1..m : \E p \in 1..m : order[p] = i
  BY <1>1, <1>2, <1>3, OrderIsOnto
<1>7. Reorders(order, m)
  BY <1>3, <1>4, <1>5, <1>6 DEF Reorders
<1>8. DOMAIN output = 1..m /\ \A p \in 1..m : output[p] = stmts[order[p]]
  BY <1>3, <1>4
<1> QED
  BY <1>1, <1>2, <1>7, <1>8

\* Every statement of the files is emitted, once.
LEMMA EmittedOnce ==
    ASSUME StateInv, Built, NEW i \in Sources
    PROVE  Cardinality({p \in DOMAIN output : output[p].at = stmts[i].at /\ ~output[p].synthesized}) = 1
<1>1. PICK m \in Nat :
         /\ Positions /\ DOMAIN stmts = 1..m /\ DOMAIN output = 1..m /\ Reorders(order, m)
         /\ \A p \in 1..m : output[p] = stmts[order[p]]
  BY WhenBuilt
<1>2. i \in 1..m
  BY <1>1 DEF Sources
<1>3. PICK p \in 1..m : order[p] = i
  BY <1>1, <1>2 DEF Reorders
<1>4. \A q \in 1..m : output[q].at = stmts[i].at /\ ~output[q].synthesized <=> q = p
  <2> SUFFICES ASSUME NEW q \in 1..m
               PROVE  output[q].at = stmts[i].at /\ ~output[q].synthesized <=> q = p
    OBVIOUS
  <2>1. PICK j \in 1..m : j = order[q] /\ output[q] = stmts[j]
    BY <1>1 DEF Reorders
  <2>2. ~stmts[j].synthesized <=> j \in Sources
    BY <1>1, <2>1 DEF Sources
  <2>3. j \in Sources /\ stmts[j].at = stmts[i].at <=> j = i
    BY <1>1 DEF Positions
  <2>4. j = i <=> q = p
    BY <1>1, <1>3, <2>1 DEF Reorders
  <2> QED
    BY <2>1, <2>2, <2>3, <2>4
<1>5. {q \in DOMAIN output : output[q].at = stmts[i].at /\ ~output[q].synthesized} = {p}
  BY <1>1, <1>4
<1> QED
  BY <1>5, FS_Singleton

\* A table's foreign keys are in its CREATE TABLE and in the statements split
\* off it.
LEMMA KeysOfTable ==
    ASSUME StateInv, KeysInv, Built, NEW i \in Sources, NEW t \in Name
    PROVE  /\ IsFiniteSet(KeyPlaces(stmts, stmts[i].at, t))
           /\ Cardinality(KeyPlaces(stmts, stmts[i].at, t)) =
                 ForeignKeysTo(stmts[i].src.items, t)
                    + Cardinality({k \in Extracted(i) : Original(i).items[k].target = t})
<1>1. PICK m \in Nat : Touched /\ Broken /\ Positions /\ LoadTypes /\ DOMAIN stmts = 1..m
  BY WhenBuilt
<1>2. moves = {}
  BY <1>1 DEF KeysInv, MovesAreTheirs
<1>3. Moved(i) = Extracted(i)
  BY <1>2 DEF Moved
<1>4. PICK A : A = Alters(i, t)
  OBVIOUS
<1>5. Cardinality(A) = Cardinality({k \in Extracted(i) : Original(i).items[k].target = t})
  BY <1>1, <1>3, <1>4 DEF KeysInv, MovedIsAdded
<1>6. IsFiniteSet(A) /\ Cardinality(A) \in Nat
  <2>1. A \in SUBSET (1..m)
    BY <1>1, <1>4 DEF Alters
  <2> QED
    BY <2>1, CountTo, FS_Subset, FS_CardinalityType
<1>7. PICK items : items = stmts[i].src.items
  OBVIOUS
<1>8. i \in 1..m /\ items \in Seq(Item)
  <2>1. i \in 1..m /\ stmts[i] \in Stmt
    BY <1>1, StmtShapes DEF Sources
  <2> QED
    BY <1>7, <2>1 DEF Stmt, Statement
<1>9. PICK K : K = KeysTo(items, t)
  OBVIOUS
<1>10. IsFiniteSet(K) /\ Cardinality(K) \in Nat /\ ForeignKeysTo(items, t) = Cardinality(K)
  BY <1>8, <1>9, ItemsAreFinite, KeysCounted
<1>11. PICK P : P = Firsts(i, K)
  OBVIOUS
<1>12. PICK Q : Q = Seconds(A, 1)
  OBVIOUS
<1>13. /\ IsFiniteSet(P) /\ Cardinality(P) = Cardinality(K)
       /\ IsFiniteSet(Q) /\ Cardinality(Q) = Cardinality(A)
  BY <1>6, <1>10, <1>11, <1>12, PairsAreCounted
<1>14. /\ \A k \in K : <<i, k>> \in P
       /\ \A j \in A : <<j, 1>> \in Q
  BY <1>11, <1>12 DEF Firsts, Seconds
<1>15. /\ \A x \in P : x[1] = i /\ x[2] \in K /\ x = <<x[1], x[2]>>
       /\ \A x \in Q : x[1] \in A /\ x[2] = 1 /\ x = <<x[1], x[2]>>
  BY <1>11, <1>12 DEF Firsts, Seconds
<1>16. PICK S : S = KeyPlaces(stmts, stmts[i].at, t)
  OBVIOUS
<1>17. \A p, k : <<p, k>> \in S <=> IsKeyPlace(stmts, stmts[i].at, t, p, k)
  BY <1>16, InKeyPlaces
<1>18. \A p, k : IsKeyPlace(stmts, stmts[i].at, t, p, k) <=> (p = i /\ k \in K) \/ (p \in A /\ k = 1)
  <2> SUFFICES ASSUME NEW p, NEW k
               PROVE  IsKeyPlace(stmts, stmts[i].at, t, p, k) <=> (p = i /\ k \in K) \/ (p \in A /\ k = 1)
    OBVIOUS
  <2>1. CASE p \notin DOMAIN stmts
    BY <1>1, <1>4, <1>8, <2>1 DEF IsKeyPlace, Alters
  <2>2. CASE p \in Sources
    <3>1. stmts[p].at = stmts[i].at <=> p = i
      BY <1>1, <2>2 DEF Positions
    <3>2. p \in DOMAIN stmts /\ p \notin A
      BY <1>4, <2>2 DEF Sources, Alters
    <3>3. k \in K <=> k \in DOMAIN items /\ items[k].target = t
      BY <1>9 DEF KeysTo
    <3> QED
      BY <1>7, <3>1, <3>2, <3>3 DEF IsKeyPlace
  <2>3. CASE p \in DOMAIN stmts \ Sources
    <3>1. DOMAIN stmts[p].src.items = {1}
      BY <1>1, <2>3 DEF KeysInv, MovedIsAdded
    <3>2. p \in A <=> stmts[p].at = stmts[i].at /\ stmts[p].src.items[1].target = t
      BY <1>4, <2>3 DEF Alters
    <3>3. k \in DOMAIN stmts[p].src.items <=> k = 1
      BY <3>1
    <3> QED
      BY <2>3, <3>2, <3>3 DEF IsKeyPlace
  <2> QED
    BY <2>1, <2>2, <2>3
<1>19. S = P \cup Q
  <2>1. ASSUME NEW x \in S PROVE x \in P \cup Q
    <3>1. PICK p, k : p = x[1] /\ k = x[2]
      OBVIOUS
    <3>2. x = <<p, k>>
      BY <1>16, <3>1, InKeyPlaces DEF ArePairs
    <3>3. (p = i /\ k \in K) \/ (p \in A /\ k = 1)
      BY <1>17, <1>18, <3>2
    <3> QED
      BY <1>14, <3>2, <3>3
  <2>2. ASSUME NEW x \in P \cup Q PROVE x \in S
    <3>1. PICK p, k : p = x[1] /\ k = x[2]
      OBVIOUS
    <3>2. x = <<p, k>> /\ ((p = i /\ k \in K) \/ (p \in A /\ k = 1))
      BY <1>15, <3>1
    <3> QED
      BY <1>17, <1>18, <3>2
  <2> QED
    BY <2>1, <2>2
<1>20. P \cap Q = {}
  <2> SUFFICES ASSUME NEW x \in P, x \in Q PROVE FALSE
    OBVIOUS
  <2>1. x[1] = i /\ x[1] \in A
    BY <1>15
  <2> QED
    BY <1>4, <2>1 DEF Alters
<1>21. IsFiniteSet(P \cup Q) /\ Cardinality(P \cup Q) = Cardinality(P) + Cardinality(Q)
  <2>1. /\ IsFiniteSet(P \cup Q)
        /\ Cardinality(P \cup Q) = Cardinality(P) + Cardinality(Q) - Cardinality(P \cap Q)
    BY <1>13, FS_Union
  <2>2. Cardinality(P \cap Q) = 0
    BY <1>20, FS_EmptySet
  <2> QED
    BY <1>6, <1>10, <1>13, <2>1, <2>2
<1> QED
  BY <1>5, <1>7, <1>10, <1>13, <1>16, <1>19, <1>21

LEMMA KeysKept ==
    ASSUME StateInv, KeysInv, Built, NEW i \in Sources, NEW t \in ForeignTargets(Original(i).items)
    PROVE  /\ EmittedKeys(stmts[i].at, t) >= ForeignKeysTo(Original(i).items, t)
           /\ ~EndsInPair(Original(i).items) =>
                 EmittedKeys(stmts[i].at, t) = ForeignKeysTo(Original(i).items, t)
<1>1. PICK m \in Nat :
         /\ Touched /\ Broken /\ Positions /\ LoadTypes
         /\ DOMAIN stmts = 1..m /\ DOMAIN output = 1..m /\ Reorders(order, m)
         /\ \A p \in 1..m : output[p] = stmts[order[p]]
  BY WhenBuilt
<1>2. PICK items : items = Original(i).items
  OBVIOUS
<1>3. PICK E : E = Extracted(i)
  OBVIOUS
<1>4. items \in Seq(Item) /\ E \in SUBSET (DOMAIN items) /\ IsFiniteSet(DOMAIN items)
  BY <1>1, <1>2, <1>3, ExtractedShape
<1>5. t \in Name /\ t # NoName
  <2>1. \A it \in Item : it.target = NoName \/ it.target \in Name
    BY DEF Item, Plain
  <2>2. PICK k \in DOMAIN items : items[k].target = t /\ t # NoName
    BY <1>2 DEF ForeignTargets
  <2>3. items[k] \in Item
    BY <1>4, <2>2
  <2> QED
    BY <2>1, <2>2, <2>3
<1>6. PICK X : X = {k \in E : items[k].target = t}
  OBVIOUS
<1>7. EmittedKeys(stmts[i].at, t) = Cardinality(KeyPlaces(output, stmts[i].at, t))
  BY DEF EmittedKeys, KeyPlaces
<1>8. Cardinality(KeyPlaces(output, stmts[i].at, t)) = Cardinality(KeyPlaces(stmts, stmts[i].at, t))
  <2>1. IsFiniteSet(KeyPlaces(stmts, stmts[i].at, t))
    BY <1>5, KeysOfTable
  <2> QED
    BY <1>1, <2>1, KeysRenumbered
<1>9. EmittedKeys(stmts[i].at, t) = ForeignKeysTo(stmts[i].src.items, t) + Cardinality(X)
  BY <1>2, <1>3, <1>5, <1>6, <1>7, <1>8, KeysOfTable
<1>10. CASE E = {}
  <2>1. i \notin DOMAIN rewritten
    BY <1>1, <1>3, <1>10 DEF KeysInv, ExtractedIsRemoved
  <2>2. stmts[i].src.items = items
    BY <1>1, <1>2, <2>1 DEF StateInv, StmtsInv, TextsAreTheirs
  <2>3. Cardinality(X) = 0
    BY <1>6, <1>10, FS_EmptySet
  <2>4. ForeignKeysTo(items, t) \in Nat
    BY <1>4, KeysCounted
  <2> QED
    BY <1>2, <1>9, <2>2, <2>3, <2>4
<1>11. CASE E # {}
  <2>1. i \in DOMAIN rewritten /\ rewritten[i] = Remove(items, E)
    BY <1>1, <1>2, <1>3, <1>11 DEF KeysInv, ExtractedIsRemoved
  <2>2. Original(i) \in Statement
    BY <1>1, SourcesLink
  <2>3. stmts[i].src = [Original(i) EXCEPT !.items = rewritten[i]]
    BY <1>1, <2>1 DEF StateInv, StmtsInv, TextsAreTheirs
  <2>4. stmts[i].src.items = Remove(items, E)
    BY <2>1, <2>2, <2>3 DEF Statement
  <2> QED
    BY <1>2, <1>4, <1>5, <1>6, <1>9, <2>4, KeysLeft
<1> QED
  BY <1>10, <1>11

LEMMA NothingLostHolds == StateInv /\ KeysInv => NothingLost
<1> SUFFICES ASSUME StateInv, KeysInv, Built
             PROVE  \A at \in SourcePlaces :
                       /\ Cardinality({p \in DOMAIN output : output[p].at = at /\ ~output[p].synthesized}) = 1
                       /\ \A t \in ForeignTargets(SourceStatement(at).items) :
                             LET items == SourceStatement(at).items
                             IN  /\ EmittedKeys(at, t) >= ForeignKeysTo(items, t)
                                 /\ ~EndsInPair(items) => EmittedKeys(at, t) = ForeignKeysTo(items, t)
  BY DEF NothingLost
<1> SUFFICES ASSUME NEW at \in SourcePlaces
             PROVE  /\ Cardinality({p \in DOMAIN output : output[p].at = at /\ ~output[p].synthesized}) = 1
                    /\ \A t \in ForeignTargets(SourceStatement(at).items) :
                          /\ EmittedKeys(at, t) >= ForeignKeysTo(SourceStatement(at).items, t)
                          /\ ~EndsInPair(SourceStatement(at).items) =>
                                EmittedKeys(at, t) = ForeignKeysTo(SourceStatement(at).items, t)
  OBVIOUS
<1>1. PICK i \in Sources : stmts[i].at = at
  BY WhenBuilt DEF SourcePlaces, Positions
<1>2. Original(i) = SourceStatement(at)
  BY <1>1 DEF Original
<1> QED
  BY <1>1, <1>2, EmittedOnce, KeysKept

-----------------------------------------------------------------------------
(* The theorems *)

LEMMA CheckPredictsBuildHolds == VerdictInv => CheckPredictsBuild
BY DEF VerdictInv, VerdictsAreTheirs, CheckPredictsBuild

\* For any schema tree, sqldefkit bundle succeeds on the files exactly if
\* sqldefkit check reported no error on them: although only bundle stops at
\* the first error diagnostic, both accept the trees whose files can be read
\* and split, define no name twice and whose cycles can be broken for good.
THEOREM BuildFailsWhenCheckDoes == CommandsSpec => []CheckPredictsBuild
BY CheckPredictsBuildHolds, AlwaysVerdictInv, PTL

\* For any schema tree, a bundle that ends with a cycle error, from
\* breakFKCycles or from Sort after it, has found a cycle of the source that
\* has an edge other than a foreign key of a CREATE TABLE or, except for
\* SQLite, a table whose foreign keys cannot be split off completely.
THEOREM CycleErrorsAreGenuine == CommandsSpec => []CyclesAreGenuine
<1>1. VerdictInv => CyclesAreGenuine
  BY DEF VerdictInv
<1> QED
  BY <1>1, AlwaysVerdictInv, PTL

\* For any schema tree, a bundle that succeeds holds every statement of the
\* files once and every foreign key of every table, in its CREATE TABLE or in
\* an ALTER TABLE, and none of them twice unless the table ends in two table
\* constraints that Remove takes for one.
THEOREM NothingIsLost == CommandsSpec => []NothingLost
BY NothingLostHolds, AlwaysCommandsInv, AlwaysKeysInv, PTL DEF CommandsInv

=============================================================================
