------------------------------- MODULE Split -------------------------------
(***************************************************************************)
(* lexer.Split, one action per token, on a source text; and then, on the   *)
(* text bundle.emit writes for the statements found, in any order, Split   *)
(* once more: what a later reader of the bundle makes of it.               *)
(***************************************************************************)
EXTENDS SqlText

CONSTANT Sources    \* the source texts, [dialect, text]

ASSUME SourcesAssumption ==
    \A s \in Sources : s.dialect \in Dialect /\ s.text \in Seq(STRING)

VARIABLES
    src,            \* the source being split
    written,        \* the statements emit wrote into it, in order; << >> at first
    round,          \* "source" or "bundle"
    pc,             \* "between" statements, in a "body", "done" or "failed"
    pos,            \* scanner.pos
    pending,        \* comments waiting for a statement
    start,          \* bodyStart
    leading,        \* the comments taken for the current body
    tokens,         \* its tokens, with offsets in the source
    statements      \* the statements found

body == <<start, leading, tokens>>
vars == <<src, written, round, pc, pos, pending, body, statements>>

text == src.text
Ended == pos > Len(text)
Here == At(text, pos)

CommentEndHere == CommentEnd(text, src.dialect, pos)

Reset ==
    /\ pc' = "between" /\ pos' = 1 /\ pending' = << >>
    /\ start' = 1 /\ leading' = << >> /\ tokens' = << >> /\ statements' = << >>

Init ==
    /\ src \in Sources /\ written = << >> /\ round = "source"
    /\ pc = "between" /\ pos = 1 /\ pending = << >>
    /\ start = 1 /\ leading = << >> /\ tokens = << >> /\ statements = << >>

-----------------------------------------------------------------------------
(* Between statements: skipInsignificant *)

SkipSpace ==
    /\ pc \in {"between", "body"} /\ IsSpace(Here)
    /\ pos' = pos + 1
    /\ UNCHANGED <<src, written, round, pc, pending, body, statements>>

TakeComment ==
    /\ pc = "between" /\ CommentEndHere # 0
    /\ pending' = Append(pending, [text |-> SubSeq(text, pos, CommentEndHere - 1), start |-> pos])
    /\ pos' = CommentEndHere
    /\ UNCHANGED <<src, written, round, pc, body, statements>>

BeginBody ==
    /\ pc = "between" /\ ~Ended /\ ~IsSpace(Here) /\ CommentEndHere = 0
    /\ pc' = "body" /\ start' = pos /\ tokens' = << >>
    /\ leading' = pending /\ pending' = << >>
    /\ UNCHANGED <<src, written, round, pos, statements>>

\* Comments that still wait for a statement are dropped.
EndOfText ==
    /\ pc = "between" /\ Ended
    /\ pc' = "done" /\ pending' = << >>
    /\ UNCHANGED <<src, written, round, pos, body, statements>>

-----------------------------------------------------------------------------
(* In a body *)

\* A token of the given kind up to `end'; an end of 0 is an unterminated
\* quote, on which Split gives up.
Take(kind, end) ==
    /\ IF end = 0
       THEN /\ pc' = "failed" /\ statements' = << >>
            /\ UNCHANGED <<pos, tokens>>
       ELSE /\ tokens' = Append(tokens, [kind |-> kind, start |-> pos, end |-> end])
            /\ pos' = end
            /\ UNCHANGED <<pc, statements>>
    /\ UNCHANGED <<src, written, round, pending, start, leading>>

\* Nothing in front of this byte is a space or a comment.
AtToken == pc = "body" /\ ~Ended /\ ~IsSpace(Here) /\ CommentEndHere = 0

DollarTagHere == IF src.dialect = "postgres" THEN DollarTag(text, pos) ELSE << >>

InnerComment == pc = "body" /\ CommentEndHere # 0 /\ Take("comment", CommentEndHere)

Quoted ==
    /\ AtToken
    /\ \E mark \in QuoteMarks(src.dialect) :
          Here = mark[1] /\ Take(mark[3], QuoteEnd(text, src.dialect, mark[2], pos))

DollarQuoted ==
    /\ AtToken /\ DollarTagHere # << >>
    /\ Take("string", DollarEnd(text, DollarTagHere, pos))

Word ==
    /\ AtToken /\ IsWordChar(Here)
    /\ Take("word", FirstFrom(text, pos, LAMBDA i : ~IsWordChar(text[i])))

Punctuation ==
    /\ AtToken /\ Here # ";" /\ ~IsWordChar(Here) /\ DollarTagHere = << >>
    /\ \A mark \in QuoteMarks(src.dialect) : Here # mark[1]
    /\ Take("punct", pos + 1)

\* The statement of a body: its trimmed text, with its tokens counted from it.
StatementOf(bodyText) ==
    [text |-> bodyText, start |-> start, end |-> start + Len(bodyText), comments |-> leading,
     tokens |-> [k \in DOMAIN tokens |->
                   [kind |-> tokens[k].kind,
                    start |-> tokens[k].start - start, end |-> tokens[k].end - start]]]

\* Slip: an empty body takes its comments with it.
EndBodyDropping ==
    /\ pc = "body" /\ (Ended \/ Here = ";")
    /\ LET bodyText == Trim(SubSeq(text, start, pos - 1))
       IN  /\ pending' = << >>
           /\ statements' = IF bodyText = << >> THEN statements
                            ELSE Append(statements, StatementOf(bodyText))
    /\ pos' = IF Ended THEN pos ELSE pos + 1
    /\ pc' = "between"
    /\ UNCHANGED <<src, written, round, body>>

\* Slip: the semicolon is not stepped over.
EndBodyStuck ==
    /\ pc = "body" /\ (Ended \/ Here = ";")
    /\ LET bodyText == Trim(SubSeq(text, start, pos - 1))
       IN  IF bodyText = << >>
           THEN pending' = leading /\ UNCHANGED statements
           ELSE pending' = << >> /\ statements' = Append(statements, StatementOf(bodyText))
    /\ pc' = "between"
    /\ UNCHANGED <<src, written, round, pos, body>>

\* A body ends at a semicolon or with the text.  One without text, a stray
\* semicolon, makes no statement and hands its comments on to the next.
EndBody ==
    /\ pc = "body" /\ (Ended \/ Here = ";")
    /\ LET bodyText == Trim(SubSeq(text, start, pos - 1))
       IN  IF bodyText = << >>
           THEN pending' = leading /\ UNCHANGED statements
           ELSE pending' = << >> /\ statements' = Append(statements, StatementOf(bodyText))
    /\ pos' = IF Ended THEN pos ELSE pos + 1
    /\ pc' = "between"
    /\ UNCHANGED <<src, written, round, body>>

-----------------------------------------------------------------------------
(* The bundle of the statements: emit *)

\* The header, and the line that names the file of the first statement.
Header == <<"-", "-", "w", "nl">>
SourceLine == <<"-", "-", "sp", "w", "nl">>

\* Slip: the comments of a statement run into its text.
RenderedJoined(s) ==
    FlattenSeq([k \in DOMAIN s.comments |-> s.comments[k].text]) \o s.text \o <<";", "nl">>

Rendered(s) ==
    FlattenSeq([k \in DOMAIN s.comments |-> Append(s.comments[k].text, "nl")])
        \o s.text \o <<";", "nl">>

\* The statements come from one file, so only the first is headed by it.
BundleText(ordered) ==
    Header \o <<"nl">> \o SourceLine
        \o FlattenSeq([k \in DOMAIN ordered |->
                         (IF k = 1 THEN << >> ELSE <<"nl">>) \o Rendered(ordered[k])])

EmitBundle ==
    /\ pc = "done" /\ round = "source" /\ statements # << >>
    /\ \E order \in SetToSeqs(DOMAIN statements) :
          LET ordered == [k \in DOMAIN order |-> statements[order[k]]]
          IN  written' = ordered /\ src' = [src EXCEPT !.text = BundleText(ordered)]
    /\ round' = "bundle"
    /\ Reset

-----------------------------------------------------------------------------
SplitStep ==
    \/ SkipSpace \/ TakeComment \/ BeginBody \/ EndOfText
    \/ InnerComment \/ Quoted \/ DollarQuoted \/ Word \/ Punctuation \/ EndBody

Next == SplitStep \/ EmitBundle

\* Split is a loop that runs until it returns.
Spec == Init /\ [][Next]_vars /\ WF_vars(SplitStep)

-----------------------------------------------------------------------------
(* The lexical regions of a text, read one byte at a time: a reference for *)
(* the scanner, which jumps from token to token.                           *)

\* What starts at i, when i is not inside anything.
RegionAt(t, dialect, i) ==
    CASE Starts(t, i, <<"-", "-">>) -> "line"
      [] t[i] = "#" /\ dialect = "mysql" -> "line"
      [] Starts(t, i, <<"/", "*">>) -> "block"
      [] \E mark \in QuoteMarks(dialect) : t[i] = mark[1] -> "quote"
      [] dialect = "postgres" /\ DollarTag(t, i) # << >> -> "dollar"
      [] OTHER -> "code"

\* i is the byte after an odd number of backslashes of the string begun at r.
Escaped(t, r, i) ==
    LET run == {k \in r + 1..i - 1 : \A j \in k..i - 1 : t[j] = "bs"}
    IN  Cardinality(run) % 2 = 1

\* The region begun at r has its last byte at i.  A doubled quote is two
\* quotes back to back, so it needs no rule of its own.
RegionEnds(t, dialect, r, i) ==
    LET tag == DollarTag(t, r)
        region == RegionAt(t, dialect, r)
    IN  CASE region = "line" -> At(t, i + 1) = "nl"
          [] region = "block" -> i >= r + 3 /\ Starts(t, i - 1, <<"*", "/">>)
          [] region = "quote" ->
                /\ i > r /\ \E mark \in QuoteMarks(dialect) : t[r] = mark[1] /\ t[i] = mark[2]
                /\ t[r] = "sq" /\ dialect = "mysql" => ~Escaped(t, r, i)
          [] region = "dollar" -> i >= r + 2 * Len(tag) - 1 /\ Starts(t, i + 1 - Len(tag), tag)

\* For each byte where the region it lies in begins, 0 for code.
RegionOf(t, dialect) ==
    LET region[i \in 0..Len(t)] ==
            LET r == IF i = 0 THEN 0 ELSE region[i - 1]
            IN  IF r # 0 /\ ~RegionEnds(t, dialect, r, i - 1) THEN r
                ELSE IF i > 0 /\ RegionAt(t, dialect, i) # "code" THEN i
                ELSE 0
    IN  [i \in DOMAIN t |-> region[i]]

\* A string or quoted identifier is still open at the end of the text.
QuoteLeftOpen(t, dialect) ==
    /\ t # << >>
    /\ LET r == RegionOf(t, dialect)[Len(t)]
       IN  /\ r # 0 /\ RegionAt(t, dialect, r) \in {"quote", "dollar"}
           /\ ~RegionEnds(t, dialect, r, Len(t))

IsCommentRegion(t, dialect, r) == r # 0 /\ RegionAt(t, dialect, r) \in {"line", "block"}

\* The statements of a text of these regions, of which some bytes lie in
\* comments: between two semicolons that are code, from the first byte that is
\* neither a blank nor in a comment to the last that is no blank, with the
\* comments that begin after the statement before.
SpansIn(t, region, inComment) ==
    LET cuts == {i \in DOMAIN t : t[i] = ";" /\ region[i] = 0}
        solid == {i \in DOMAIN t \ inComment : ~IsSpace(t[i])}
        firsts == {i \in solid \ cuts :
                      \A j \in solid : j < i => \E c \in cuts : j <= c /\ c < i}
        cutAfter(i) == Min({j \in cuts : j >= i} \cup {Len(t) + 1})
        cutBefore(c) == Max({0} \cup {cutAfter(f) : f \in {g \in firsts : g < c}})
    IN  [k \in 1..Cardinality(firsts) |->
            LET f == CHOOSE g \in firsts : Cardinality({h \in firsts : h <= g}) = k
            IN  [start |-> f,
                 end |-> Max({j \in f..cutAfter(f) - 1 : ~IsSpace(t[j])}) + 1,
                 comments |-> {c \in inComment : c \in cutBefore(f) + 1..f - 1 /\ region[c] = c}]]

StatementSpans(t, dialect) ==
    LET region == RegionOf(t, dialect)
    IN  SpansIn(t, region, {i \in DOMAIN t : IsCommentRegion(t, dialect, region[i])})

-----------------------------------------------------------------------------
(* Properties *)

TokenKinds == {"word", "quoted", "string", "punct", "comment"}

IsComments(cs) == \A k \in DOMAIN cs : cs[k].text \in Seq(STRING) /\ cs[k].start \in 1..Len(text)

\* Offsets lie in the text, and comments, tokens and statements have their
\* fields (Statement, Token and scanner in lexer.go and split.go).
TypeOK ==
    /\ src.dialect \in Dialect /\ text \in Seq(STRING)
    /\ round \in {"source", "bundle"} /\ pc \in {"between", "body", "done", "failed"}
    /\ pos \in 1..Len(text) + 1 /\ start \in 1..Len(text) + 1
    /\ IsComments(pending) /\ IsComments(leading)
    /\ \A k \in DOMAIN tokens :
          tokens[k].kind \in TokenKinds /\ tokens[k].start < tokens[k].end /\ tokens[k].end <= pos
    /\ \A k \in DOMAIN statements :
          LET s == statements[k]
          IN  /\ s.text # << >> /\ s.text = SubSeq(text, s.start, s.end - 1)
              /\ IsComments(s.comments)

SourceSplit == round = "source" /\ pc = "done"

\* A source splits exactly at the semicolons outside its comments, strings and
\* quoted identifiers, and Split reports an error exactly when a string or a
\* quoted identifier is never closed.
SplitsAtCode ==
    /\ SourceSplit =>
          LET spans == StatementSpans(text, src.dialect)
          IN  [k \in DOMAIN statements |-> <<statements[k].start, statements[k].end>>]
                  = [k \in DOMAIN spans |-> <<spans[k].start, spans[k].end>>]
    /\ round = "source" /\ pc \in {"done", "failed"} =>
          (pc = "failed") = QuoteLeftOpen(text, src.dialect)

\* Every comment between two statements is attached to the second, in order:
\* a directive in it is not lost and does not reach another statement. Stray
\* semicolons are passed over, as split.go:128-131 means to; lexer.go:57-59
\* and split.go:9-13 say otherwise, as CommentsAdjoin does.
CommentsAttached ==
    SourceSplit =>
        LET spans == StatementSpans(text, src.dialect)
        IN  \A k \in DOMAIN statements :
               LET cs == statements[k].comments
               IN  /\ {cs[n].start : n \in DOMAIN cs} = spans[k].comments
                   /\ \A m, n \in DOMAIN cs : m < n => cs[m].start < cs[n].start

\* The tokens of a statement tile it: they are in order, what they leave out
\* is blank, and words and punctuation are code while strings, quoted
\* identifiers and comments are not.  Keywords are looked for in words only.
TokensTile ==
    SourceSplit =>
        LET region == RegionOf(text, src.dialect)
        IN  \A n \in DOMAIN statements :
               LET s == statements[n]
                   bytes(tok) == s.start + tok.start..s.start + tok.end - 1
               IN  /\ \A k \in DOMAIN s.tokens :
                         /\ k > 1 => s.tokens[k - 1].end <= s.tokens[k].start
                         /\ \A i \in bytes(s.tokens[k]) :
                               CASE s.tokens[k].kind \in {"word", "punct"} -> region[i] = 0
                                 [] s.tokens[k].kind = "comment" -> IsCommentRegion(text, src.dialect, region[i])
                                 [] OTHER -> region[i] # 0 /\ ~IsCommentRegion(text, src.dialect, region[i])
                   /\ \A i \in s.start..s.end - 1 :
                         (\A k \in DOMAIN s.tokens : i \notin bytes(s.tokens[k])) => IsSpace(text[i])
                   /\ \A k \in DOMAIN s.tokens :
                         s.tokens[k].kind # "comment" => s.start + s.tokens[k].end <= s.end

\* The statement's last token is a comment that nothing closes.
EndsInOpenComment(s) ==
    /\ s.tokens # << >> /\ Last(s.tokens).kind = "comment"
    /\ LET comment == SubSeq(s.text, Last(s.tokens).start + 1, Len(s.text))
       IN  ~(Starts(comment, 1, <<"/", "*">>) /\ Len(comment) > 3
                /\ Starts(comment, Len(comment) - 1, <<"*", "/">>))

Texts(ss) == [k \in DOMAIN ss |-> ss[k].text]
CommentTexts(s) == [k \in DOMAIN s.comments |-> s.comments[k].text]

\* Read again, the bundle has the statements that were written into it, in
\* their order, with the comments they had, as long as none of them ends in
\* a comment that is still open.
RoundTrip ==
    (round = "bundle" /\ \A k \in DOMAIN written : ~EndsInOpenComment(written[k])) =>
        /\ pc # "failed"
        /\ pc = "done" =>
              /\ Texts(statements) = Texts(written)
              /\ \A k \in DOMAIN written :
                    IF k = 1 THEN IsSuffix(CommentTexts(written[k]), CommentTexts(statements[k]))
                    ELSE CommentTexts(written[k]) = CommentTexts(statements[k])

\* Every text comes to an end: whatever a buffer holds, Split returns.
SplitEnds == []<>(pc \in {"done", "failed"})

\* Read again, the bundle has the statements written into it.
StatementsSurvive == round = "bundle" /\ pc = "done" => Texts(statements) = Texts(written)

\* lexer.go:57-59 and split.go:9-13: no blank statement, and nothing else but
\* comments and blanks, lies between a comment and the statement it is
\* attached to; so no semicolon that is code does.
CommentsAdjoin ==
    SourceSplit =>
        LET region == RegionOf(text, src.dialect)
            ends == {i \in DOMAIN text : text[i] = ";" /\ region[i] = 0}
        IN  \A k \in DOMAIN statements :
               LET s == statements[k]
               IN  \A n \in DOMAIN s.comments :
                      ends \cap (s.comments[n].start..s.start) = {}

=============================================================================
