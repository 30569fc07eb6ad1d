------------------------------ MODULE MCSplit ------------------------------
(* Source texts for Split, and for the cursors in them. *)
EXTENDS Cursor

Strings(alphabet, n) == UNION {[1..m -> alphabet] : m \in 0..n}

\* Every text of at most n bytes of the ones a dialect gives a meaning.
Bytes(n) ==
    [dialect : {"postgres"}, text : Strings({"w", "nl", ";", "-", "/", "*", "sq", "$"}, n)]
        \cup [dialect : {"mysql"}, text : Strings({"w", "nl", ";", "-", "#", "sq", "bs", "bt"}, n)]
        \cup [dialect : {"sqlite"}, text : Strings({"w", "nl", ";", "dq", "sq", "bt", "[", "]"}, n)]

\* Longer texts, made of at most n of the given pieces.
Pieced(dialect, pieces, n) ==
    [dialect : {dialect}, text : {FlattenSeq(p) : p \in Strings(pieces, n)}]

LineComment == <<"-", "-", "w">>
BlockComment == <<"/", "*", ";", "*", "/">>
Newline == <<"nl">>
Stop == <<";">>
Name == <<"w">>
SpacedWord == <<"w", "sp">>

Longer ==
    Pieced("postgres", {LineComment, Newline, Stop, SpacedWord, <<"$", "$">>, <<"$", "w", "$">>}, 4)
        \cup Pieced("postgres", {<<"w", ";">>, <<"-", "-", "w", "nl">>, Stop, BlockComment}, 4)
        \cup Pieced("postgres", {<<"sq">>, <<"bs">>, Stop, Name}, 4)
        \cup Pieced("mysql", {<<"#", "w">>, Newline, Stop, Name, <<"sq", ";">>, <<"bs", "sq">>}, 4)
        \cup Pieced("sqlite", {LineComment, BlockComment, Newline, Stop, Name, <<"[", ";", "]">>}, 4)

\* Names with characters of more than one byte, on several lines.
Names ==
    Pieced("sqlite", {<<"e1", "e2">>, <<"s1", "s2", "s3", "s4">>, Newline, Name, <<"dq">>}, 4)

\* Index statements, references and directives, with comments in between.
Completions ==
    Pieced("mysql", {<<"C", "sp">>, <<"U", "sp">>, <<"X", "nl">>, <<"O", "sp">>, Name, Stop}, 4)
        \cup Pieced("mysql", {<<"R", "sp">>, <<"nl", "#", "D", "sp", "w">>, Newline, Name,
                              <<"/", "*", "R", "*", "/">>}, 4)

MCSources == Bytes(4) \cup Longer \cup Names \cup Completions

\* A statement that is followed by a comment on its line.
Trailing == Pieced("postgres", {LineComment, Newline, Stop, Name}, 4)

\* An index statement with comments that have a semicolon.
Commented ==
    Pieced("postgres", {<<"C", "sp">>, <<"X", "sp">>, <<"O", "nl">>, BlockComment,
                        <<"-", "-", ";", "nl">>, Name}, 4)
=============================================================================
