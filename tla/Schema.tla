------------------------------- MODULE Schema -------------------------------
(***************************************************************************)
(* One SQL statement as internal/parse and internal/fkrewrite see it: what *)
(* it defines, what it refers to, and, for a CREATE TABLE, the items of    *)
(* its column and constraint list that declare foreign keys.               *)
(***************************************************************************)
EXTENDS Integers, Sequences, FiniteSets

CONSTANTS
    Name,       \* object names, normalized
    NoName      \* a statement that defines nothing; an item without target

ASSUME NamesAssumption == NoName \notin Name

\* "index" stands for indexes and triggers, "type" for the named objects
\* without scanned references (types, sequences, extensions, functions).
Kind == {"table", "view", "index", "alter", "type", "other"}

\* A list item declares no foreign key ("plain"), declares one inside a
\* column definition ("inline") or as a table constraint ("table"), or holds
\* a REFERENCES that fkrewrite.Extract cannot bound ("opaque").
Plain == [form |-> "plain", target |-> NoName]
Item == {Plain} \cup [form : {"inline", "table", "opaque"}, target : Name]

\* sources: the names after FROM and JOIN of a view, ON of an index or a
\* trigger, REFERENCES of another statement; requires: the names in the
\* sqldefkit:require directives of its leading comments.
Statement == [kind : Kind, name : Name \cup {NoName}, items : Seq(Item),
              sources : SUBSET Name, requires : SUBSET Name]

\* Every name after REFERENCES in the item list.
ForeignTargets(items) == {items[k].target : k \in DOMAIN items} \ {NoName}

\* The references extract() finds in the text itself.  A table never depends
\* on itself; an ALTER TABLE always depends on its table.
AutoNames(s) ==
    CASE s.kind = "table" -> ForeignTargets(s.items) \ {s.name}
      [] s.kind = "alter" -> ({s.name} \ {NoName}) \cup ForeignTargets(s.items)
      [] s.kind \in {"index", "other"} -> s.sources
      [] OTHER -> {}

\* parse.Parse: DepRefs, deduplicated by name among the scanned references
\* but not against the directives.
DepRefs(s) ==
    {[name |-> n, kind |-> "auto"] : n \in AutoNames(s)} \cup
    {[name |-> n, kind |-> "scan"] : n \in IF s.kind = "view" THEN s.sources ELSE {}} \cup
    {[name |-> n, kind |-> "directive"] : n \in s.requires}

Deps(s) == {r.name : r \in DepRefs(s)}

-----------------------------------------------------------------------------
(* internal/fkrewrite, at the level of list items (FkRewrite has the text). *)

\* fkrewrite.Extract succeeds: every REFERENCES of the list can be bounded.
Extractable(s) == \A k \in DOMAIN s.items : s.items[k].form # "opaque"

\* The clauses Extract yields, as positions in the list.
Clauses(s) == {k \in DOMAIN s.items : s.items[k].form \in {"inline", "table"}}

\* Remove() leaves the last item in place when both it and the item before
\* it are table constraints to be removed: the comma it would swallow is
\* gone with the item before it, and the overlapping span is skipped.
SkippedByRemove(items, E, k) ==
    /\ k = Len(items)
    /\ {k - 1, k} \subseteq E
    /\ items[k].form = "table"
    /\ items[k - 1].form = "table"

\* fkrewrite.Remove on the clauses at positions E: an inline clause leaves
\* its column behind, a table constraint leaves nothing.
Remove(items, E) ==
    LET left == {k \in DOMAIN items : \/ k \notin E
                                      \/ items[k].form = "inline"
                                      \/ SkippedByRemove(items, E, k)}
        nth(j) == CHOOSE k \in left : Cardinality({h \in left : h <= k}) = j
    IN  [j \in 1..Cardinality(left) |->
            IF nth(j) \in E /\ items[nth(j)].form = "inline" THEN Plain ELSE items[nth(j)]]
=============================================================================
