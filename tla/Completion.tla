---------------------------- MODULE Completion ----------------------------
(***************************************************************************)
(* detectCompletionContext of lsp/completion.go: what the text in front of *)
(* the cursor asks a completion for, found by scanning backward from the   *)
(* cursor instead of lexing.  "D" stands for sqldefkit:require.            *)
(***************************************************************************)
EXTENDS Positions

\* wordPrefixBefore: where the word that ends at the cursor begins.
WordStart(t, offset) ==
    Min({i \in 1..offset : \A j \in i..offset - 1 : IsIdentByte(t[j])})

\* The start of the line of an offset.
LineStart(t, offset) == Max({s \in LineStarts(t) : s <= offset})

\* The line up to an offset, without the blanks it starts with.
LineUpTo(t, offset) ==
    LET first == FirstFrom(t, LineStart(t, offset), LAMBDA i : t[i] # "sp")
    IN  SubSeq(t, first, offset - 1)

IsLineComment(line) == Starts(line, 1, <<"-", "-">>) \/ Starts(line, 1, <<"#">>)

\* isInRequireDirective.
InRequireDirective(t, wordStart) ==
    LET line == LineUpTo(t, wordStart)
        afterMarker == IF Starts(line, 1, <<"#">>) THEN 2 ELSE 3
        word == FirstFrom(line, afterMarker, LAMBDA i : line[i] # "sp")
    IN  /\ IsLineComment(line)
        /\ At(line, word) = "D" /\ At(line, word + 1) \in {"sp", "end"}

\* Slip: only blanks are skipped.
SkipBackwardBlanks(t, offset) ==
    Min({i \in 1..offset : \A j \in i..offset - 1 : IsSpace(t[j])})

\* skipInsignificantBackward: over blanks, over the line when it begins with
\* a comment marker, and over a block comment to the nearest /* before.
SkipBackward(t, offset) ==
    LET blanks(i) == Min({k \in 1..i : \A j \in k..i - 1 : IsSpace(t[j])})
        opens(i) == {k \in 1..i - 4 : Starts(t, k, <<"/", "*">>)}
        skip[i \in 1..Len(t) + 1] ==
            LET j == blanks(i)
            IN  IF IsLineComment(LineUpTo(t, j)) THEN skip[LineStart(t, j)]
                ELSE IF j > 2 /\ Starts(t, j - 2, <<"*", "/">>) /\ opens(j) # {}
                THEN skip[Max(opens(j))]
                ELSE j
    IN  skip[offset]

\* statementLeadingWords: the words a text starts with, over blanks and
\* comments, at most four.
LeadingWords(t) ==
    LET lead[i \in 1..Len(t) + 1, n \in 0..4] ==
            IF i > Len(t) \/ n = 0 THEN << >>
            ELSE IF IsSpace(t[i]) THEN lead[i + 1, n]
            ELSE IF CommentEnd(t, "mysql", i) # 0 THEN lead[CommentEnd(t, "mysql", i), n]
            ELSE LET end == FirstFrom(t, i, LAMBDA j : ~IsIdentByte(t[j]))
                 IN  IF end = i THEN << >> ELSE <<SubSeq(t, i, end - 1)>> \o lead[end, n - 1]
    IN  lead[1, 4]

\* statementStartsIndexOrTrigger.
StartsIndexOrTrigger(words) ==
    /\ Len(words) >= 2 /\ words[1] = <<"C">>
    /\ \/ words[2] = <<"X">>
       \/ words[2] = <<"U">> /\ Len(words) > 2 /\ words[3] = <<"X">>

\* enclosingStatementStart: just past the last semicolon, whatever it is in.
EnclosingStart(t, offset) == Max({1} \cup {i + 1 : i \in {j \in 1..offset - 1 : t[j] = ";"}})

\* "panic" is a slice whose start lies behind its end: the last semicolon is
\* in a comment that was skipped.
CompletionContext(t, offset) ==
    LET word == WordStart(t, offset)
        prevEnd == SkipBackward(t, word)
        prev == SubSeq(t, WordStart(t, prevEnd), prevEnd - 1)
    IN  IF InRequireDirective(t, word) THEN "directive"
        ELSE IF prev = <<"R">> THEN "references"
        ELSE IF prev = <<"O">> /\ EnclosingStart(t, word) > prevEnd THEN "panic"
        ELSE IF prev = <<"O">>
                /\ StartsIndexOrTrigger(LeadingWords(SubSeq(t, EnclosingStart(t, word), prevEnd - 1)))
        THEN "on"
        ELSE "none"

=============================================================================
