------------------------------ MODULE SqlText ------------------------------
(***************************************************************************)
(* SQL source text and the searches the lexer makes in it: peekComment,    *)
(* consumeSingleQuoted, consumeQuotedIdent, consumeBracketIdent,           *)
(* matchDollarTagStart and consumeDollarQuoted of internal/lexer.          *)
(*                                                                         *)
(* A text is a sequence of bytes, of which only the ones the lexer tells   *)
(* apart are kept apart.  "w" stands for any letter, digit or underscore,  *)
(* "sp" for any blank but the newline "nl", "sq", "dq" and "bt" for the  *)
(* quotes ', double quote and backtick, "bs" for a backslash and "." for   *)
(* the bytes with no meaning.  The one-letter words "R", "O", "C", "X" and *)
(* "U" stand for the keywords REFERENCES, ON, CREATE, INDEX (or TRIGGER)   *)
(* and UNIQUE.  "e1" "e2" are the two bytes of a character outside ASCII,  *)
(* "s1" .. "s4" the four of one that UTF-16 writes as a surrogate pair.    *)
(*                                                                         *)
(* Offsets are 1-based, one more than the code's; an end is exclusive.     *)
(***************************************************************************)
EXTENDS Integers, Sequences, SequencesExt, FiniteSetsExt

Dialect == {"postgres", "mysql", "sqlite"}

IsSpace(c) == c \in {"sp", "nl"}

IsWordChar(c) == c \in {"w", "R", "O", "C", "X", "U"}

At(t, i) == IF i \in DOMAIN t THEN t[i] ELSE "end"

Starts(t, i, pattern) == \A k \in DOMAIN pattern : At(t, i + k - 1) = pattern[k]

\* The first offset from `from' on where P holds, else the end of the text.
FirstFrom(t, from, P(_)) ==
    LET hits == {i \in from..Len(t) : P(i)}
    IN  IF hits = {} THEN Len(t) + 1 ELSE Min(hits)

\* The end of the line of offset i, its newline excluded.
LineEnd(t, i) == FirstFrom(t, i, LAMBDA j : t[j] = "nl")

\* strings.TrimSpace.
Trim(s) ==
    LET solid == {i \in DOMAIN s : ~IsSpace(s[i])}
    IN  IF solid = {} THEN << >> ELSE SubSeq(s, Min(solid), Max(solid))

-----------------------------------------------------------------------------
(* Comments *)

\* Slip: the closing */ may share the star of the opening.
BlockEndOverlapping(t, i) ==
    LET close == FirstFrom(t, i + 1, LAMBDA j : Starts(t, j, <<"*", "/">>))
    IN  IF close > Len(t) THEN close ELSE close + 2

\* A block comment that is never closed is one up to the end of the text.
BlockEnd(t, i) ==
    LET close == FirstFrom(t, i + 2, LAMBDA j : Starts(t, j, <<"*", "/">>))
    IN  IF close > Len(t) THEN close ELSE close + 2

\* peekComment: where the comment that starts at i ends, 0 when none does.
CommentEnd(t, dialect, i) ==
    IF Starts(t, i, <<"-", "-">>) \/ (dialect = "mysql" /\ At(t, i) = "#") THEN LineEnd(t, i)
    ELSE IF Starts(t, i, <<"/", "*">>) THEN BlockEnd(t, i)
    ELSE 0

-----------------------------------------------------------------------------
(* Strings and quoted identifiers *)

\* What each dialect quotes with: the opening byte, the closing byte and the
\* kind of token it makes.
QuoteMarks(dialect) ==
    {<<"sq", "sq", "string">>, <<"dq", "dq", "quoted">>}
        \cup (IF dialect \in {"mysql", "sqlite"} THEN {<<"bt", "bt", "quoted">>} ELSE {})
        \cup (IF dialect = "sqlite" THEN {<<"[", "]", "quoted">>} ELSE {})

\* Slip: a backslash escapes in the strings of every dialect.
QuoteEndBackslash(t, dialect, close, i) ==
    LET scan[j \in 1..Len(t) + 2] ==
            IF j > Len(t) THEN 0
            ELSE IF t[j] = "bs" /\ close = "sq" THEN scan[j + 2]
            ELSE IF t[j] # close THEN scan[j + 1]
            ELSE IF At(t, j + 1) = close /\ close # "]" THEN scan[j + 2]
            ELSE j + 1
    IN  scan[i + 1]

\* The end of the quoted token that opens at i, 0 when it is never closed: the
\* scan goes over a doubled closer, which brackets do not have, and over what
\* follows a backslash in a MySQL string.
QuoteEnd(t, dialect, close, i) ==
    LET scan[j \in 1..Len(t) + 2] ==
            IF j > Len(t) THEN 0
            ELSE IF t[j] = "bs" /\ close = "sq" /\ dialect = "mysql" THEN scan[j + 2]
            ELSE IF t[j] # close THEN scan[j + 1]
            ELSE IF At(t, j + 1) = close /\ close # "]" THEN scan[j + 2]
            ELSE j + 1
    IN  scan[i + 1]

\* The tag that opens a dollar-quoted string at i, both dollars included; the
\* empty sequence when there is none.
DollarTag(t, i) ==
    LET j == FirstFrom(t, i + 1, LAMBDA k : ~IsWordChar(t[k]))
    IN  IF At(t, i) = "$" /\ At(t, j) = "$" THEN SubSeq(t, i, j) ELSE << >>

\* The end of the string the tag opens at i, 0 when the tag does not return.
DollarEnd(t, tag, i) ==
    LET again == FirstFrom(t, i + Len(tag), LAMBDA j : Starts(t, j, tag))
    IN  IF again > Len(t) THEN 0 ELSE again + Len(tag)

=============================================================================
