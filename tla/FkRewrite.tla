----------------------------- MODULE FkRewrite -----------------------------
(***************************************************************************)
(* fkrewrite.Remove on the text of a CREATE TABLE's parenthesised list:    *)
(* the loop over the clause spans, the widening of a table-level span over *)
(* a neighbouring comma and its own line, and the comma and whitespace     *)
(* cleanup afterwards.                                                     *)
(*                                                                         *)
(* A text is a sequence of symbols <<what, item>>: parentheses, commas,    *)
(* newlines, spaces and comments (item 0), and the words of an item, each  *)
(* carrying the number of the item it belongs to.  Offsets are 1-based and *)
(* spans half-open, [start, end).                                          *)
(***************************************************************************)
EXTENDS Integers, Sequences, SequencesExt

CONSTANT Layouts    \* the lists, and which clauses are removed from them

VARIABLES
    layout,     \* [forms, extract, first, before, after, last]
    text,       \* the text given to Remove
    spans,      \* spans still to be visited, by start
    cursor,     \* end of the last span removed
    out,        \* the text built
    pc          \* "spans", "collapse", "trim" or "done"

vars == <<layout, text, spans, cursor, out, pc>>

Word(w, k) == <<w, k>>
Open == <<"(", 0>>
Close == <<")", 0>>
Comma == <<",", 0>>
Newline == <<"nl", 0>>
Space == <<"sp", 0>>
Comment == <<"comment", 0>>

\* isHSpace and isSQLSpace.
HSpace == {Space}
SQLSpace == {Space, Newline}

-----------------------------------------------------------------------------
(* Layouts and what Extract finds in them *)

\* An item's words.  ref is REFERENCES with its tail; "tail" goes on with
\* another column constraint, "named" gives the inline constraint a name,
\* "literal" has a string with two commas in it.
WordsOf(form, k) ==
    CASE form = "plain" -> <<Word("col", k)>>
      [] form = "literal" -> <<Word("quote", k), Comma, Comma, Word("quote", k)>>
      [] form = "inline" -> <<Word("col", k), Space, Word("ref", k)>>
      [] form = "tail" -> <<Word("col", k), Space, Word("ref", k), Space, Word("not null", k)>>
      [] form = "named" -> <<Word("col", k), Space, Word("constraint", k), Space, Word("ref", k)>>
      [] form = "table" -> <<Word("foreign key", k)>>

InlineForms == {"inline", "tail", "named"}

\* The list: items separated by a comma, with the layout's whitespace (or
\* comments) after the opening parenthesis, around commas and at the end.
TextOf(l) ==
    LET separator == l.before \o <<Comma>> \o l.after
        items == [k \in DOMAIN l.forms |->
                    (IF k = 1 THEN << >> ELSE separator) \o WordsOf(l.forms[k], k)]
    IN  <<Open>> \o l.first \o FlattenSeq(items) \o l.last \o <<Close>>

\* Where a word is in t.
At(t, w) == CHOOSE p \in DOMAIN t : t[p] = w

\* Slip: an inline clause always runs to the end of its item.
ClauseSpanToItemEnd(l, t, k) ==
    IF l.forms[k] = "table"
    THEN LET p == At(t, Word("foreign key", k)) IN [start |-> p, end |-> p + 1, tableLevel |-> TRUE]
    ELSE [start |-> At(t, Word("ref", k)),
          end |-> 1 + At(t, Word(IF l.forms[k] = "tail" THEN "not null" ELSE "ref", k)),
          tableLevel |-> FALSE]

\* The clause of item k.  A table-level clause is the whole item; an inline
\* one starts at REFERENCES and ends at the item's end or, when something
\* else follows in the column, where that starts.
ClauseSpan(l, t, k) ==
    IF l.forms[k] = "table"
    THEN LET p == At(t, Word("foreign key", k)) IN [start |-> p, end |-> p + 1, tableLevel |-> TRUE]
    ELSE LET p == At(t, Word("ref", k))
         IN  [start |-> p,
              end |-> IF l.forms[k] = "tail" THEN At(t, Word("not null", k)) ELSE p + 1,
              tableLevel |-> FALSE]

\* The clauses given to Remove, sorted by start.
SpansOf(l, t) ==
    LET positions == SelectSeq([k \in DOMAIN l.forms |-> k], LAMBDA k : k \in l.extract)
    IN  [i \in DOMAIN positions |-> ClauseSpan(l, t, positions[i])]

Init ==
    /\ layout \in Layouts
    /\ text = TextOf(layout)
    /\ spans = SpansOf(layout, text)
    /\ cursor = 1
    /\ out = << >>
    /\ pc = "spans"

-----------------------------------------------------------------------------
(* expandTableLevelSpan *)

\* The first offset from j on whose symbol is not in S, or the text's end.
SkipForward(t, j, S) ==
    CHOOSE n \in j..(Len(t) + 1) :
        /\ n = Len(t) + 1 \/ t[n] \notin S
        /\ \A m \in j..(n - 1) : t[m] \in S

\* The first offset from i backwards that no symbol in S precedes.
SkipBack(t, i, S) ==
    CHOOSE n \in 1..i :
        /\ n = 1 \/ t[n - 1] \notin S
        /\ \A m \in n..(i - 1) : t[m] \in S

\* Slip: the last item's comma is left to whoever comes before it.
OverNextComma(t, sp) ==
    LET next == SkipForward(t, sp.end, SQLSpace)
    IN  IF next <= Len(t) /\ t[next] = Comma THEN [sp EXCEPT !.end = next + 1] ELSE sp

\* Swallow the comma that follows, or else the one that precedes.
OverComma(t, sp) ==
    LET next == SkipForward(t, sp.end, SQLSpace)
        prev == SkipBack(t, sp.start, SQLSpace)
    IN  IF next <= Len(t) /\ t[next] = Comma
        THEN [sp EXCEPT !.end = next + 1]
        ELSE IF prev > 1 /\ t[prev - 1] = Comma
             THEN [sp EXCEPT !.start = prev - 1]
             ELSE sp

\* Swallow the whole line when nothing but spaces shares it.
OverLine(t, sp) ==
    LET from == SkipBack(t, sp.start, HSpace)
        to == SkipForward(t, sp.end, HSpace)
        alone == /\ from = 1 \/ t[from - 1] = Newline
                 /\ to = Len(t) + 1 \/ t[to] = Newline
    IN  IF ~alone
        THEN sp
        ELSE IF from > 1
             THEN [sp EXCEPT !.start = from - 1, !.end = to]
             ELSE [sp EXCEPT !.start = from, !.end = IF to <= Len(t) THEN to + 1 ELSE to]

Expanded(t, sp) == IF sp.tableLevel THEN OverLine(t, OverComma(t, sp)) ELSE sp

-----------------------------------------------------------------------------
(* Remove *)

\* One span: copy the text up to it and move past it, unless it overlaps
\* what has been removed already.
TakeSpan ==
    /\ pc = "spans"
    /\ spans # << >>
    /\ LET sp == Expanded(text, Head(spans)) IN
       IF sp.start < cursor
       THEN UNCHANGED <<out, cursor>>
       ELSE /\ out' = out \o SubSeq(text, cursor, sp.start - 1)
            /\ cursor' = sp.end
    /\ spans' = Tail(spans)
    /\ UNCHANGED <<layout, text, pc>>

\* Nothing to remove returns the text as it is, without cleanup.
CopyRest ==
    /\ pc = "spans"
    /\ spans = << >>
    /\ out' = out \o SubSeq(text, cursor, Len(text))
    /\ pc' = IF layout.extract = {} THEN "done" ELSE "collapse"
    /\ UNCHANGED <<layout, text, spans, cursor>>

\* collapseDoubleComma: the first comma followed, after whitespace, by a
\* second one, which is removed.
DoubleCommas(t) ==
    {p \in DOMAIN t : /\ t[p] = Comma
                      /\ LET n == SkipForward(t, p + 1, SQLSpace)
                         IN  n <= Len(t) /\ t[n] = Comma}

Collapse ==
    /\ pc = "collapse"
    /\ IF DoubleCommas(out) = {}
       THEN /\ pc' = "trim"
            /\ out' = out
       ELSE \E p \in DoubleCommas(out) :
              /\ \A q \in DoubleCommas(out) : p <= q
              /\ out' = RemoveAt(out, SkipForward(out, p + 1, SQLSpace))
              /\ pc' = "collapse"
    /\ UNCHANGED <<layout, text, spans, cursor>>

\* trimTrailingHSpacePerLine: drop the spaces before a newline or the end.
TrimLines ==
    /\ pc = "trim"
    /\ LET ends(p) == LET n == SkipForward(out, p, HSpace)
                      IN  n = Len(out) + 1 \/ out[n] = Newline
           kept == SelectSeq([p \in DOMAIN out |-> p],
                             LAMBDA p : ~(out[p] \in HSpace /\ ends(p)))
       IN  out' = [i \in DOMAIN kept |-> out[kept[i]]]
    /\ pc' = "done"
    /\ UNCHANGED <<layout, text, spans, cursor>>

Returned == pc = "done" /\ UNCHANGED vars

Next == TakeSpan \/ CopyRest \/ Collapse \/ TrimLines \/ Returned

Spec == Init /\ [][Next]_vars

-----------------------------------------------------------------------------
(* Properties *)

\* No span reaches past the closing parenthesis.
TypeOK ==
    /\ Range(out) \subseteq Range(text)
    /\ cursor \in 1..Len(text)
    /\ pc \in {"spans", "collapse", "trim", "done"}

Without(t, S) == SelectSeq(t, LAMBDA c : c \notin S)

\* The items as Schema sees them, and the words an item of the result has.
S == INSTANCE Schema WITH Name <- {}, NoName <- 0
SchemaItems(l) ==
    [k \in DOMAIN l.forms |->
        [form |-> IF l.forms[k] \in InlineForms THEN "inline"
                  ELSE IF l.forms[k] = "literal" THEN "plain" ELSE l.forms[k],
         target |-> k]]

\* The words item k has left in a list with the items ks.
WordsLeft(l, k, item) ==
    Without(WordsOf(l.forms[k], k), {Space} \cup (IF item = S!Plain THEN {Word("ref", k)} ELSE {}))

\* The list that Schema!Remove describes, without whitespace.  A position
\* with a clause left in it carries its number as target; the columns stay
\* in their order.
ExpectedText(l) ==
    LET items == SchemaItems(l)
        stays == SelectSeq([k \in DOMAIN l.forms |-> k],
                           LAMBDA k : \/ k \notin l.extract
                                      \/ l.forms[k] # "table"
                                      \/ S!SkippedByRemove(items, l.extract, k))
        left == S!Remove(items, l.extract)
        parts == [j \in DOMAIN left |->
                    (IF j = 1 THEN << >> ELSE <<Comma>>) \o WordsLeft(l, stays[j], left[j])]
    IN  <<Open>> \o FlattenSeq(parts) \o <<Close>>

\* However a list without comments is laid out, Remove takes out whole
\* items and REFERENCES clauses and leaves a list with exactly one comma
\* between its items: the text-level edits are Schema!Remove, on which the
\* cycle-breaking model is built.
RemovesByItem ==
    pc = "done" /\ Comment \notin Range(text) =>
        Without(out, SQLSpace) = ExpectedText(layout)

\* Places where a line has nothing but spaces.
BlankLines(t) ==
    {p \in DOMAIN t : /\ t[p] = Newline
                      /\ LET n == SkipForward(t, p + 1, HSpace)
                         IN  n <= Len(t) /\ t[n] = Newline}

\* Whatever is not a removed clause is passed through: words, comments and
\* parentheses, in order; only commas and whitespace may go with a clause, and
\* a clause that had a line of its own leaves no blank line behind.
KeepsTheRest ==
    pc = "done" =>
        LET removed == {Word("ref", k) : k \in layout.extract} \cup
                       {Word("foreign key", k) : k \in layout.extract}
        IN  /\ Without(out, removed \cup SQLSpace \cup {Comma}) =
                  Without(text, removed \cup SQLSpace \cup {Comma})
            /\ BlankLines(text) = {} => BlankLines(out) = {}

-----------------------------------------------------------------------------
(* What comments and the README say and the code does not do *)

\* rewrite.go:5-8: the result has no dangling commas.
NoDanglingComma ==
    pc = "done" =>
        LET bare == Without(out, SQLSpace \cup {Comment})
        IN  \A p \in 1..(Len(bare) - 1) :
                /\ ~(bare[p] = Open /\ bare[p + 1] = Comma)
                /\ ~(bare[p] = Comma /\ bare[p + 1] = Close)

\* rewrite.go:11-13: an inline clause leaves the column and its other
\* constraints intact, a string default included.
LiteralsIntact ==
    pc = "done" => \A k \in DOMAIN layout.forms :
        layout.forms[k] = "literal" =>
            \E p \in 1..(Len(out) - 3) : SubSeq(out, p, p + 3) = WordsOf("literal", k)

\* fkrewrite.go:10-13: extraction never emits broken SQL, such as a
\* CONSTRAINT name with no constraint after it.
NoOrphanName ==
    pc = "done" => \A k \in DOMAIN layout.forms :
        Word("constraint", k) \in Range(out) => Word("ref", k) \in Range(out)
=============================================================================
