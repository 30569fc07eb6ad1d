------------------------------- MODULE Cursor -------------------------------
(***************************************************************************)
(* What the language server's scans around a cursor make of a text, next   *)
(* to what Split makes of it: hover, go-to-definition and completion look  *)
(* at bytes near the cursor and never at the tokens.                       *)
(***************************************************************************)
EXTENDS Split, Completion

\* The range of a hover answer: hoverIdentifierPos starts it at the cursor.
HoverRange(t, cursor) == RangeFor(t, cursor)

Cursors == 1..Len(text) + 1

\* No character begins before this offset and ends after it.
Boundary(offset) == At(text, offset) \notin {"e2", "s2", "s3", "s4"}

\* The UTF-16 units of the line in front of an offset: one for each character
\* and one more for each that needs a surrogate pair.
UnitsBefore(offset) ==
    LET before == LineStart(text, offset)..offset - 1
    IN  Cardinality({i \in before : Boundary(i)}) + Cardinality({i \in before : text[i] = "s1"})

\* A position that goes out to the editor counts UTF-16 units and, when it
\* comes back, is the same byte; and the cursor of any position the editor may send is
\* between two characters, on the line it names if there is one.
WirePositions ==
    SourceSplit =>
        /\ \A offset \in {i \in Cursors : Boundary(i)} :
              /\ RangeFor(text, offset).start.character = UnitsBefore(offset)
              /\ CursorOffset(text, RangeFor(text, offset).start) = offset
        /\ \A line \in 0..Cardinality(LineStarts(text)), character \in 0..Len(text) + 1 :
              LET cursor == CursorOffset(text, [line |-> line, character |-> character])
              IN  /\ cursor \in Cursors /\ Boundary(cursor)
                  /\ HasLine(text, line + 1) => PosOf(text, cursor).line = line + 1

\* The names a statement is looked up by: its words and quoted identifiers,
\* without the quoted ones that have a doubled quote in them and the words
\* that go on with a byte only the span takes for a letter.
NamesOf(s) ==
    {k \in DOMAIN s.tokens :
        LET first == s.start + s.tokens[k].start
            end == s.start + s.tokens[k].end
        IN  \/ s.tokens[k].kind = "word" /\ ~IsIdentByte(At(text, end))
            \/ /\ s.tokens[k].kind = "quoted"
               /\ \A i \in first + 1..end - 2 : text[i] # text[end - 1]}

\* The cursor is on a name exactly when it is on one of the name's bytes, and
\* a range that is sent for the name ends where it ends if it has one line.
NamesAreFound ==
    SourceSplit =>
        \A n \in DOMAIN statements : \A k \in NamesOf(statements[n]) :
            LET first == statements[n].start + statements[n].tokens[k].start
                end == statements[n].start + statements[n].tokens[k].end
            IN  /\ \A cursor \in Cursors :
                      SpanContains(text, first, cursor) <=> cursor \in first..end - 1
                /\ LineEnd(text, first) >= end =>
                      CursorOffset(text, RangeFor(text, first).end) = end

-----------------------------------------------------------------------------
(* Completion against lexing *)

\* The text t, up to a cursor, is one the backward scan was written for: each
\* comment begins its line, a block comment and a string keep to one line and
\* have no semicolon, and no code byte looks like a part of a comment.
ScansExactly(t, dialect) ==
    LET region == RegionOf(t, dialect)
        inside(r) == {i \in DOMAIN t : region[i] = r}
    IN  /\ \A i \in DOMAIN t : t[i] \notin {"$", "e1", "e2", "s1", "s2", "s3", "s4"}
        /\ \A i \in DOMAIN t : region[i] = 0 => t[i] \notin {"*", "#"}
        /\ \A r \in {region[i] : i \in DOMAIN t} \ {0} :
              /\ IsCommentRegion(t, dialect, r) => LineUpTo(t, r) = << >>
              /\ \A i \in inside(r) :
                    t[i] \notin {"nl", ";"} /\ (i > r => ~Starts(t, i, <<"/", "*">>))

\* The first tokens of a statement, up to three, as the lexer sees them, in
\* the bytes of t that the set `code' holds.
FirstTokens(t, code) ==
    LET startsToken(i) == ~(IsWordChar(t[i]) /\ i - 1 \in code /\ IsWordChar(t[i - 1]))
        starts == SetToSortSeq({i \in code : startsToken(i)}, LAMBDA a, b : a < b)
    IN  [k \in 1..(IF Len(starts) < 3 THEN Len(starts) ELSE 3) |->
            SubSeq(t, starts[k],
                   FirstFrom(t, starts[k] + 1, LAMBDA i : ~IsWordChar(t[i])) - 1)]

\* The context of a cursor that is in code at the end of t, by the tokens.
ContextByTokens(t, dialect) ==
    LET region == RegionOf(t, dialect)
        word == WordStart(t, Len(t) + 1)
        code == {i \in 1..word - 1 : ~IsSpace(t[i]) /\ ~IsCommentRegion(t, dialect, region[i])}
        cut == Max({0} \cup {i \in code : t[i] = ";" /\ region[i] = 0})
        last == Max({0} \cup code)
        prev == IF last = 0 \/ region[last] # 0 THEN << >>
                ELSE SubSeq(t, WordStart(t, last + 1), last)
        tokensOf == FirstTokens(t, {i \in code : i > cut})
    IN  IF prev = <<"R">> THEN "references"
        ELSE IF prev = <<"O">> /\ \/ IsPrefix(<<<<"C">>, <<"X">>>>, tokensOf)
                                  \/ IsPrefix(<<<<"C">>, <<"U">>, <<"X">>>>, tokensOf)
        THEN "on"
        ELSE "none"

\* Wherever the cursor is in code of such a text, the backward scan finds the
\* context the tokens have, over comments and line ends; and it offers names
\* for a directive only inside a line comment.
CompletionSeesTheCode ==
    SourceSplit =>
        \A cursor \in Cursors :
            LET t == SubSeq(text, 1, cursor - 1)
                typed == Append(t, "w")
                region == RegionOf(typed, src.dialect)[cursor]
            IN  ScansExactly(t, src.dialect) =>
                    /\ region = 0 =>
                          CompletionContext(text, cursor) = ContextByTokens(t, src.dialect)
                    /\ CompletionContext(text, cursor) = "directive" =>
                          region # 0 /\ RegionAt(typed, src.dialect, region) = "line"

\* completion.go:38-43: whatever the buffer holds, comments are skipped well
\* enough for the patterns to be recognized; so the scan comes to an answer.
CompletionAnswers ==
    SourceSplit => \A cursor \in Cursors : CompletionContext(text, cursor) # "panic"

\* The range of a hover covers the identifier under the cursor.
HoverCoversIdentifier ==
    SourceSplit =>
        \A n \in DOMAIN statements : \A k \in NamesOf(statements[n]) :
            LET s == statements[n]
                first == s.start + s.tokens[k].start
            IN  \A cursor \in first..s.start + s.tokens[k].end - 1 :
                    HoverRange(text, cursor) = RangeFor(text, first)

=============================================================================
