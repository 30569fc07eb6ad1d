------------------------------ MODULE MCBundle ------------------------------
(* Schema trees for Bundle. *)
EXTENDS Bundle

MCName == {"a", "b", "c", "e", "v", "x"}

\* Shorthands for statements.
Inline(t) == [form |-> "inline", target |-> t]
Constraint(t) == [form |-> "table", target |-> t]
Opaque(t) == [form |-> "opaque", target |-> t]

Stmt(kind, name, items, sources, requires) ==
    [kind |-> kind, name |-> name, items |-> items, sources |-> sources, requires |-> requires]
Table(n, items, requires) == Stmt("table", n, items, {}, requires)

File(status, ss) == [status |-> status, stmts |-> ss]

\* Three tables that may refer to the other two in every shape of clause.
Shapes(x, y) ==
    { <<Plain>>,
      <<Inline(x)>>,
      <<Inline(y)>>,
      <<Plain, Constraint(x)>>,
      <<Inline(x), Inline(x)>>,
      <<Inline(x), Constraint(y)>>,
      <<Constraint(x), Constraint(y)>>,
      <<Constraint(y), Plain>>,
      <<Opaque(x)>> }

ThreeTables ==
    {[dialect |-> d,
      files |-> << File("ok", <<Table("a", ia, {}), Table("b", ib, {})>>),
                   File("ok", <<Table("c", ic, {})>>) >>] :
        d \in {"postgres", "sqlite"},
        ia \in Shapes("b", "c"), ib \in Shapes("a", "c"), ic \in Shapes("a", "b")}

\* Two tables with directives and a statement of another kind, a type
\* defined in a later file that may fail to load.
Others ==
    { Stmt("view", "v", << >>, {"a", "b"}, {}),
      Stmt("view", "v", << >>, {"v", "x"}, {"b"}),
      Stmt("view", "b", << >>, {"a"}, {}),
      Stmt("index", "v", << >>, {"b"}, {"e"}),
      Stmt("alter", "a", <<Constraint("b")>>, {}, {}),
      Stmt("alter", "x", <<Constraint("b")>>, {}, {}),
      Stmt("other", NoName, << >>, {"a"}, {"b"}) }

Mixed ==
    {[dialect |-> d,
      files |-> << File("ok", <<o, Table("a", ia, ra), Table("b", ib, rb)>>),
                   File(status, <<Stmt("type", "e", << >>, {}, {})>>) >>] :
        d \in {"mysql", "sqlite"},
        o \in Others,
        ia \in {<<Plain>>, <<Inline("b"), Inline("x")>>, <<Constraint("b"), Constraint("a")>>},
        ra \in {{}, {"e"}, {"v"}},
        ib \in {<<Plain>>, <<Inline("a")>>, <<Constraint("v")>>},
        rb \in {{}, {"e", "a"}},
        status \in {"ok", "unlexable", "unreadable"}}

MCInputs == ThreeTables \cup Mixed
=============================================================================
