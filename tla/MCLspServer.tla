---------------------------- MODULE MCLspServer ----------------------------
(* Two files under p, the first of them also under q, a directory below p. *)
EXTENDS LspServer

MCFile == 1..2
MCDir == {"p", "q"}
MCAbove == <<<<"q", "p">>, <<"p">>>>

Usable(tree) == [present |-> TRUE, usable |-> TRUE, tree |-> tree]
Broken == [present |-> TRUE, usable |-> FALSE, tree |-> {}]

MCConfigs ==
    [d \in MCDir |-> IF d = "p" THEN {Absent, Usable({1, 2})}
                                ELSE {Absent, Usable({1}), Broken}]

ConfigsOf(p, q) == [d \in MCDir |-> IF d = "p" THEN p ELSE q]

\* One project of both files, or only one of them on disk.
OneProject ==
    {[disk |-> texts, conf |-> ConfigsOf(Usable({1, 2}), Absent)] :
        texts \in {<<"def", "ref">>, <<Missing, "ref">>}}

\* Two projects, or a file outside of the schema_dir.
Divided ==
    {[disk |-> <<"def", "ref">>, conf |-> ConfigsOf(Usable({2}), q)] :
        q \in {Absent, Usable({1})}}

Configured == OneProject \cup Divided

\* No project yet.
Unconfigured == {[disk |-> <<"def", "ref">>, conf |-> ConfigsOf(Absent, Absent)]}

ASSUME StartIsWhole == WholeTrees
=============================================================================
