----------------------------- MODULE Positions -----------------------------
(***************************************************************************)
(* Positions in a text: pos.LineMap, the UTF-16 columns of the language    *)
(* server's wire positions (lsp/utf16.go), the offset a request's position *)
(* stands for (resolvePositionContext) and the span of the identifier at   *)
(* an offset (lsp/span.go).                                                *)
(*                                                                         *)
(* Offsets, lines and byte columns are 1-based; wire positions [line,      *)
(* character] are 0-based, as on the wire.                                 *)
(***************************************************************************)
EXTENDS SqlText

LineStarts(t) == {1} \cup {i + 1 : i \in {j \in DOMAIN t : t[j] = "nl"}}

\* LineMap.Pos.
PosOf(t, offset) ==
    LET upTo == {s \in LineStarts(t) : s <= offset}
    IN  [line |-> Cardinality(upTo), col |-> offset - Max(upTo) + 1]

\* Where a line of the text starts.
StartOf(t, line) ==
    CHOOSE s \in LineStarts(t) : Cardinality({r \in LineStarts(t) : r <= s}) = line

HasLine(t, line) == line \in 1..Cardinality(LineStarts(t))

\* lineText: the empty text for a line there is not.
LineText(t, line) ==
    IF ~HasLine(t, line) THEN << >>
    ELSE SubSeq(t, StartOf(t, line), LineEnd(t, StartOf(t, line)) - 1)

-----------------------------------------------------------------------------
(* Columns in bytes and in UTF-16 units *)

\* utf8.DecodeRuneInString: a byte that begins no whole character counts alone.
RuneSize(s, i) ==
    IF Starts(s, i, <<"s1", "s2", "s3", "s4">>) THEN 4
    ELSE IF Starts(s, i, <<"e1", "e2">>) THEN 2 ELSE 1

\* Slip: a character counts as one unit, whatever its plane.
RuneUnitsFlat(s, i) == 1

\* utf16RuneLen.
RuneUnits(s, i) == IF RuneSize(s, i) = 4 THEN 2 ELSE 1

ByteColToUTF16(line, byteCol) ==
    LET limit == IF byteCol - 1 > Len(line) THEN Len(line) ELSE byteCol - 1
        units[i \in 1..Len(line) + 4] ==
            IF i > limit THEN 0 ELSE RuneUnits(line, i) + units[i + RuneSize(line, i)]
    IN  units[1]

\* A column beyond the line is the end of the line.
UTF16ColToByteCol(line, utf16Col) ==
    LET col[i \in 1..Len(line) + 4, units \in 0..Len(line)] ==
            IF i > Len(line) \/ units >= utf16Col THEN i
            ELSE col[i + RuneSize(line, i), units + RuneUnits(line, i)]
    IN  col[1, 0]

OffsetForLineCol(t, line, byteCol) ==
    IF HasLine(t, line) THEN StartOf(t, line) + byteCol - 1 ELSE Len(t) + 1

\* The offset of the cursor of a request.
CursorOffset(t, wire) ==
    OffsetForLineCol(t, wire.line + 1,
                     UTF16ColToByteCol(LineText(t, wire.line + 1), wire.character))

-----------------------------------------------------------------------------
(* Identifiers *)

\* The directive "D" is written in letters too.
IsIdentByte(c) ==
    IsWordChar(c) \/ c \in {"$", "D", "e1", "e2", "s1", "s2", "s3", "s4"}

\* Slip: the span stops in front of the closing quote.
QuotedSpanOpen(t, start, close) == FirstFrom(t, start + 1, LAMBDA i : t[i] = close)

\* quotedSpan: up to the first closing quote, doubled or not.
QuotedSpan(t, start, close) ==
    LET i == FirstFrom(t, start + 1, LAMBDA j : t[j] = close)
    IN  IF i > Len(t) THEN i ELSE i + 1

\* identifierSpan: the end of the identifier at start, start itself for none.
IdentifierSpan(t, start) ==
    IF At(t, start) \in {"dq", "bt"} THEN QuotedSpan(t, start, t[start])
    ELSE IF At(t, start) = "[" THEN QuotedSpan(t, start, "]")
    ELSE IF start \in DOMAIN t THEN FirstFrom(t, start, LAMBDA i : ~IsIdentByte(t[i]))
    ELSE start

\* spanContains.
SpanContains(t, start, offset) ==
    IF IdentifierSpan(t, start) = start THEN offset = start
    ELSE offset \in start..IdentifierSpan(t, start) - 1

\* rangeForPosition: from the offset to the end of the identifier there.
RangeFor(t, offset) ==
    LET p == PosOf(t, offset)
        wire(col) == [line |-> p.line - 1, character |-> ByteColToUTF16(LineText(t, p.line), col)]
    IN  [start |-> wire(p.col), end |-> wire(p.col + IdentifierSpan(t, offset) - offset)]

=============================================================================
