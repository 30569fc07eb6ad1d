---------------------------- MODULE MCFkRewrite ----------------------------
(* List layouts for FkRewrite. *)
EXTENDS FkRewrite

FkForms == InlineForms \cup {"table"}

\* Every choice of clauses to remove from every list of one to n items of
\* the given forms, in every combination of the given gaps.
Lists(n, formSet, firsts, befores, afters, lasts) ==
    UNION {
        {[forms |-> f, extract |-> x, first |-> fi, before |-> b, after |-> a, last |-> la] :
            x \in SUBSET {k \in DOMAIN f : f[k] \in FkForms},
            fi \in firsts, b \in befores, a \in afters, la \in lasts} :
        f \in UNION {[1..m -> formSet] : m \in 1..n}}

None == << >>
Line == <<Newline, Space>>

\* Lists on one line, one item per line, and with the comma on a line of
\* its own, without comments or literals.
Plainly ==
    Lists(3, {"plain", "inline", "tail", "table"},
          {None, Line}, {None, <<Space>>, <<Newline>>}, {None, <<Space>>, Line},
          {None, <<Newline>>})

\* Four items, one per line or all on one line.
Longer ==
    Lists(4, {"plain", "inline", "table"}, {Line}, {None}, {Line, <<Space>>}, {<<Newline>>})

\* Items with comments around them.
Commented ==
    Lists(2, {"plain", "inline", "table"},
          {None, <<Comment>>}, {None, <<Comment>>, <<Space, Comment, Newline>>},
          {None, <<Comment, Newline>>}, {None, <<Comment, Newline>>})

MCLayouts == Plainly \cup Longer \cup Commented

\* Inline constraints with a name, and string literals with commas.
Named == Lists(2, {"plain", "named"}, {Line}, {None}, {Line}, {<<Newline>>})
Literals == Lists(2, {"inline", "literal"}, {Line}, {None}, {Line}, {<<Newline>>})
=============================================================================
