---------------------------- MODULE SplitProofs ----------------------------
(***************************************************************************)
(* lexer.Split, of every source text of every length: its statements,      *)
(* their comments and their tokens are those the regions of the text say.  *)
(*                                                                         *)
(* RegionOf reads a text one byte at a time and remembers where the region *)
(* it is in began; Split jumps from token to token.  So the proof shows,   *)
(* for each way to jump (CommentIs, WordIs, DollarIs, QuoteIs), that the   *)
(* bytes jumped over lie in one region, and that none is open where the    *)
(* scanner lands (Fresh).  A region is a value of a recursive function of  *)
(* the offset: what holds for each offset is shown of a least one for      *)
(* which it would not (HasLeast).                                          *)
(*                                                                         *)
(* ScanInv is the invariant: the statements found so far are those that    *)
(* begin before the scanner, the comments that wait are those since the    *)
(* last of them, and a body has no semicolon of code behind it.            *)
(***************************************************************************)
EXTENDS Split, TLAPS, FiniteSetTheorems, WellFoundedInduction

-----------------------------------------------------------------------------
(* Numbers *)

LEMMA HasLeast ==
    ASSUME NEW S, S \subseteq Nat, S # {}
    PROVE  \E m \in S : \A k \in S : m <= k
<1>1. IsWellFoundedOn(OpToRel(<, Nat), Nat)
  BY NatLessThanWellFounded
<1>2. PICK m \in S : \A k \in S : ~(<<k, m>> \in OpToRel(<, Nat))
  BY <1>1, WFMin, Zenon
<1>3. \A k \in S : ~(k < m)
  BY <1>2 DEF OpToRel
<1> QED
  BY <1>3

LEMMA MinIs ==
    ASSUME NEW S, S \subseteq Nat, S # {}
    PROVE  Min(S) \in S /\ \A k \in S : Min(S) <= k
<1>1. PICK m \in S : \A k \in S : m <= k
  BY HasLeast
<1> QED
  BY <1>1, Zenon DEF Min

LEMMA MaxIs ==
    ASSUME NEW n \in Nat, NEW S, S \subseteq 0..n, S # {}
    PROVE  Max(S) \in S /\ \A k \in S : Max(S) >= k
<1> DEFINE T == {n - k : k \in S}
<1>0. ASSUME NEW x \in T PROVE x \in Nat
  OBVIOUS
<1>a. T # {}
  <2>1. PICK k \in S : TRUE
    OBVIOUS
  <2>2. n - k \in T
    OBVIOUS
  <2> QED
    BY <2>2
<1>1. T \subseteq Nat /\ T # {}
  BY <1>0, <1>a
<1>2. PICK m \in T : \A k \in T : m <= k
  BY <1>1, HasLeast
<1>3. PICK g \in S : m = n - g
  OBVIOUS
<1>4. ASSUME NEW k \in S PROVE g >= k
  <2>1. n - k \in T
    OBVIOUS
  <2>2. n - g <= n - k /\ n \in Nat /\ k \in Nat /\ g \in Nat
    BY <1>2, <1>3, <2>1
  <2> QED
    BY <2>2
<1>5. g \in S /\ \A k \in S : g >= k
  BY <1>3, <1>4
<1> QED
  BY <1>5, Zenon DEF Max

\* The first of some offsets from i on, or else the one after n.
First(hits, n) == IF hits = {} THEN n + 1 ELSE Min(hits)

LEMMA FirstIs ==
    ASSUME NEW n \in Nat, NEW i \in 1..n + 1, NEW hits, hits \subseteq i..n
    PROVE  /\ First(hits, n) \in i..n + 1
           /\ \A k \in i..First(hits, n) - 1 : k \notin hits
           /\ First(hits, n) <= n => First(hits, n) \in hits
           /\ hits = {} <=> First(hits, n) = n + 1
<1>1. CASE hits = {}
  BY <1>1 DEF First
<1>2. CASE hits # {}
  <2>1. hits \subseteq Nat
    OBVIOUS
  <2>2. Min(hits) \in hits /\ \A k \in hits : Min(hits) <= k
    BY <1>2, <2>1, MinIs
  <2>3. PICK m \in hits : m = First(hits, n) /\ \A k \in hits : m <= k
    BY <1>2, <2>2 DEF First
  <2>4. m \in i..n
    OBVIOUS
  <2> HIDE DEF First
  <2> QED
    BY <1>2, <2>3, <2>4
<1> HIDE DEF First
<1> QED
  BY <1>1, <1>2, Zenon

\* The functions that start at a and of which each value is h's of the one before.
Stepwise(N, D, a, h) ==
    {f \in [0..N -> D] : f[0] = a /\ \A i \in 1..N : f[i] = h[<<i, f[i - 1]>>]}

\* There is one.
LEMMA StepsDefine ==
    ASSUME NEW N \in Nat, NEW D, NEW a \in D, NEW h \in [(1..N) \X D -> D]
    PROVE  Stepwise(N, D, a, h) # {}
<1> DEFINE Good(n) == \E f \in [0..n -> D] : f[0] = a /\ \A i \in 1..n : f[i] = h[<<i, f[i - 1]>>]
           Bad == {n \in 0..N : ~Good(n)}
<1>1. Good(0)
  <2>1. PICK f : f = [i \in 0..0 |-> a]
    OBVIOUS
  <2>2. f \in [0..0 -> D] /\ f[0] = a /\ \A i \in 1..0 : f[i] = h[<<i, f[i - 1]>>]
    BY <2>1
  <2> QED
    BY <2>2, Zenon
<1>2. ASSUME NEW n \in 1..N, Good(n - 1)
      PROVE  Good(n)
  <2>1. PICK f \in [0..(n - 1) -> D] : f[0] = a /\ \A i \in 1..(n - 1) : f[i] = h[<<i, f[i - 1]>>]
    BY <1>2, Zenon
  <2>2. PICK v : v = h[<<n, f[n - 1]>>]
    OBVIOUS
  <2>3. v \in D
    <3>1. f[n - 1] \in D
      BY <1>2
    <3> QED
      BY <2>2, <3>1
  <2>4. PICK g : g = [i \in 0..n |-> IF i = n THEN v ELSE f[i]]
    OBVIOUS
  <2>5. g \in [0..n -> D]
    BY <2>3, <2>4
  <2>6. g[0] = a
    BY <2>1, <2>4
  <2>7. ASSUME NEW i \in 1..n PROVE g[i] = h[<<i, g[i - 1]>>]
    <3>1. i - 1 \in 0..n /\ i - 1 # n /\ g[i - 1] = f[i - 1]
      BY <2>4
    <3>2. CASE i = n
      BY <2>2, <2>4, <3>1, <3>2
    <3>3. CASE i # n
      <4>1. i \in 1..(n - 1) /\ g[i] = f[i]
        BY <2>4, <3>3
      <4> QED
        BY <2>1, <3>1, <4>1
    <3> QED
      BY <3>2, <3>3
  <2> QED
    BY <2>5, <2>6, <2>7, Zenon
<1>3. Bad = {}
  <2> SUFFICES ASSUME Bad # {} PROVE FALSE
    OBVIOUS
  <2>1. Bad \subseteq Nat
    OBVIOUS
  <2>2. PICK n \in Bad : \A k \in Bad : n <= k
    BY <2>1, HasLeast
  <2>3. n \in 0..N /\ ~Good(n)
    OBVIOUS
  <2> HIDE DEF Good
  <2>4. n \in 1..N
    BY <1>1, <2>3
  <2>5. Good(n - 1)
    <3>1. n - 1 \in 0..N /\ ~(n <= n - 1)
      BY <2>4
    <3> QED
      BY <2>2, <3>1
  <2> QED
    BY <1>2, <2>3, <2>4, <2>5
<1>4. Good(N)
  <2> HIDE DEF Good
  <2> QED
    BY <1>3
<1> QED
  BY <1>4, Zenon DEF Stepwise

-----------------------------------------------------------------------------
(* Regions *)

RegionStep(t, dialect, r, i) ==
    IF r # 0 /\ ~RegionEnds(t, dialect, r, i - 1) THEN r
    ELSE IF RegionAt(t, dialect, i) # "code" THEN i
    ELSE 0

RegionAfter(t, dialect, f, i) ==
    LET r == IF i = 0 THEN 0 ELSE f[i - 1]
    IN  IF r # 0 /\ ~RegionEnds(t, dialect, r, i - 1) THEN r
        ELSE IF i > 0 /\ RegionAt(t, dialect, i) # "code" THEN i
        ELSE 0

LEMMA RegionAfterIs ==
    ASSUME NEW t, NEW dialect, NEW f, NEW i
    PROVE  /\ i = 0 => RegionAfter(t, dialect, f, i) = 0
           /\ i \in Nat \ {0} => RegionAfter(t, dialect, f, i) = RegionStep(t, dialect, f[i - 1], i)
<1>1. CASE i = 0
  BY <1>1 DEF RegionAfter
<1>2. CASE i \in Nat \ {0}
  <2>1. i # 0 /\ i > 0
    BY <1>2
  <2>2. PICK r : r = f[i - 1]
    OBVIOUS
  <2>3. RegionStep(t, dialect, r, i) = IF r # 0 /\ ~RegionEnds(t, dialect, r, i - 1) THEN r
                                       ELSE IF RegionAt(t, dialect, i) # "code" THEN i ELSE 0
    BY DEF RegionStep
  <2> QED
    BY <2>1, <2>2, <2>3, Zenon DEF RegionAfter
<1> QED
  BY <1>1, <1>2

LEMMA RegionsExist ==
    ASSUME NEW t \in Seq(STRING), NEW dialect
    PROVE  \E f : f = [i \in 0..Len(t) |-> RegionAfter(t, dialect, f, i)]
<1>1. PICK N \in Nat : N = Len(t)
  OBVIOUS
<1>2. PICK h : h = [x \in (1..N) \X (0..N) |-> RegionStep(t, dialect, x[2], x[1])]
  OBVIOUS
<1>3. h \in [(1..N) \X (0..N) -> 0..N] /\ \A i \in 1..N, r \in 0..N : h[<<i, r>>] = RegionStep(t, dialect, r, i)
  BY <1>1, <1>2 DEF RegionStep
<1>4. 0 \in 0..N
  BY <1>1
<1>5. PICK f \in [0..N -> 0..N] : f[0] = 0 /\ \A i \in 1..N : f[i] = h[<<i, f[i - 1]>>]
  <2>1. Stepwise(N, 0..N, 0, h) # {}
    BY <1>1, <1>3, <1>4, StepsDefine
  <2> QED
    BY <2>1, Zenon DEF Stepwise
<1>6. ASSUME NEW i \in 0..N PROVE f[i] = RegionAfter(t, dialect, f, i)
  <2>1. CASE i = 0
    BY <1>5, <2>1, RegionAfterIs
  <2>2. CASE i # 0
    <3>1. i \in 1..N /\ i \in Nat \ {0} /\ f[i - 1] \in 0..N
      BY <1>1, <2>2
    <3>2. f[i] = RegionStep(t, dialect, f[i - 1], i)
      BY <1>3, <1>5, <3>1
    <3>3. RegionAfter(t, dialect, f, i) = RegionStep(t, dialect, f[i - 1], i)
      BY <3>1, RegionAfterIs
    <3> QED
      BY <3>2, <3>3
  <2> QED
    BY <2>1, <2>2
<1>7. f = [i \in 0..N |-> RegionAfter(t, dialect, f, i)]
  BY <1>6
<1> QED
  BY <1>1, <1>7

\* reg are the regions of t, each byte's from the one before.
Scanned(t, dialect, reg) ==
    /\ t \in Seq(STRING) /\ dialect \in Dialect /\ reg \in [DOMAIN t -> 0..Len(t)]
    /\ \A i \in DOMAIN t : reg[i] = RegionStep(t, dialect, IF i = 1 THEN 0 ELSE reg[i - 1], i)

LEMMA RegionIs ==
    ASSUME NEW t \in Seq(STRING), NEW dialect \in Dialect
    PROVE  Scanned(t, dialect, RegionOf(t, dialect))
<1>1. PICK N \in Nat : N = Len(t) /\ DOMAIN t = 1..N
  OBVIOUS
<1>2. PICK g : /\ g = [i \in 0..Len(t) |-> RegionAfter(t, dialect, g, i)]
               /\ RegionOf(t, dialect) = [i \in DOMAIN t |-> g[i]]
  <2> DEFINE region[i \in 0..Len(t)] == RegionAfter(t, dialect, region, i)
  <2>1. region = [i \in 0..Len(t) |-> RegionAfter(t, dialect, region, i)]
    BY RegionsExist, Zenon
  <2>2. RegionOf(t, dialect) = [i \in DOMAIN t |-> region[i]]
    BY DEF RegionOf, RegionAfter
  <2> HIDE DEF region
  <2> WITNESS region
  <2> QED
    BY <2>1, <2>2, Zenon
<1>3. ASSUME NEW i \in 1..N PROVE g[i] = RegionStep(t, dialect, g[i - 1], i)
  BY <1>1, <1>2, RegionAfterIs, SMTT(30)
<1>4. g[0] = 0
  BY <1>1, <1>2, RegionAfterIs
<1>5. \A i \in 0..N : g[i] \in 0..N
  <2> DEFINE Bad == {i \in 0..N : g[i] \notin 0..N}
  <2> SUFFICES ASSUME Bad # {} PROVE FALSE
    OBVIOUS
  <2>0. Bad \subseteq Nat
    OBVIOUS
  <2>1. PICK i \in Bad : \A k \in Bad : i <= k
    BY <2>0, HasLeast
  <2>2. i \in 1..N /\ i - 1 \in 0..N /\ g[i - 1] \in 0..N /\ g[i] \notin 0..N
    BY <1>4, <2>1
  <2> QED
    BY <1>3, <2>2 DEF RegionStep
<1>6. PICK reg : reg = RegionOf(t, dialect)
  OBVIOUS
<1>7. reg = [i \in 1..N |-> g[i]]
  BY <1>1, <1>2, <1>6
<1>8. reg \in [1..N -> 0..N]
  BY <1>5, <1>7
<1>9. ASSUME NEW i \in 1..N PROVE reg[i] = RegionStep(t, dialect, IF i = 1 THEN 0 ELSE reg[i - 1], i)
  <2>1. g[i - 1] = IF i = 1 THEN 0 ELSE reg[i - 1]
    BY <1>4, <1>7
  <2> QED
    BY <1>3, <1>7, <2>1
<1> QED
  BY <1>1, <1>6, <1>8, <1>9 DEF Scanned

\* A byte in front of which no region is open.
Fresh(t, dialect, reg, p) ==
    /\ p \in 1..Len(t) + 1
    /\ \/ p = 1
       \/ p > 1 /\ reg[p - 1] = 0
       \/ p > 1 /\ RegionEnds(t, dialect, reg[p - 1], p - 1)
       \/ p = Len(t) + 1 /\ p > 1 /\ IsCommentRegion(t, dialect, reg[p - 1])

LEMMA FreshRegion ==
    ASSUME NEW t, NEW dialect, NEW reg, Scanned(t, dialect, reg),
           NEW p \in DOMAIN t, Fresh(t, dialect, reg, p)
    PROVE  reg[p] = IF RegionAt(t, dialect, p) # "code" THEN p ELSE 0
<1>1. Len(t) \in Nat /\ DOMAIN t = 1..Len(t)
  BY DEF Scanned
<1>2. p # Len(t) + 1
  BY <1>1
<1>3. reg[p] = RegionStep(t, dialect, IF p = 1 THEN 0 ELSE reg[p - 1], p)
  BY DEF Scanned
<1> QED
  BY <1>1, <1>2, <1>3, Zenon DEF Fresh, RegionStep

\* A region goes on to the first byte that ends it.
LEMMA RegionRuns ==
    ASSUME NEW t, NEW dialect, NEW reg, Scanned(t, dialect, reg),
           NEW r \in DOMAIN t, reg[r] = r, NEW e \in r + 1..Len(t) + 1,
           \A i \in r..e - 2 : ~RegionEnds(t, dialect, r, i)
    PROVE  \A i \in r..e - 1 : reg[i] = r
<1>1. Len(t) \in Nat /\ DOMAIN t = 1..Len(t)
  BY DEF Scanned
<1> DEFINE Bad == {i \in r..e - 1 : reg[i] # r}
<1> SUFFICES ASSUME Bad # {} PROVE FALSE
  OBVIOUS
<1>2. Bad \subseteq Nat
  BY <1>1
<1>3. PICK i \in Bad : \A k \in Bad : i <= k
  BY <1>2, HasLeast
<1>4. i \in r..e - 1 /\ reg[i] # r /\ i # r
  OBVIOUS
<1>5. i - 1 \in r..e - 2 /\ i # 1 /\ i \in DOMAIN t /\ r # 0
  BY <1>1, <1>4
<1>6. reg[i - 1] = r
  BY <1>3, <1>5
<1>7. reg[i] = RegionStep(t, dialect, reg[i - 1], i)
  BY <1>5 DEF Scanned
<1> QED
  BY <1>4, <1>5, <1>6, <1>7 DEF RegionStep

-----------------------------------------------------------------------------
(* What starts where *)

LEMMA AtIs ==
    ASSUME NEW t, NEW i, NEW a, a # "end"
    PROVE  At(t, i) = a <=> i \in DOMAIN t /\ t[i] = a
  BY DEF At

LEMMA StartsTwo ==
    ASSUME NEW t, NEW i \in Int, NEW a, NEW b, a # "end", b # "end"
    PROVE  Starts(t, i, <<a, b>>) <=> i \in DOMAIN t /\ t[i] = a /\ i + 1 \in DOMAIN t /\ t[i + 1] = b
<1>1. DOMAIN <<a, b>> = {1, 2} /\ <<a, b>>[1] = a /\ <<a, b>>[2] = b
  OBVIOUS
<1>2. i + 1 - 1 = i /\ i + 2 - 1 = i + 1
  OBVIOUS
<1>3. Starts(t, i, <<a, b>>) <=> At(t, i) = a /\ At(t, i + 1) = b
  BY <1>1, <1>2 DEF Starts
<1> QED
  BY <1>3, AtIs, Zenon

QuoteOpens(dialect, c) ==
    \/ c \in {"sq", "dq"}
    \/ c = "bt" /\ dialect \in {"mysql", "sqlite"}
    \/ c = "[" /\ dialect = "sqlite"

LEMMA MarksAre ==
    ASSUME NEW dialect, NEW mark
    PROVE  mark \in QuoteMarks(dialect) <=>
              \/ mark = <<"sq", "sq", "string">>
              \/ mark = <<"dq", "dq", "quoted">>
              \/ mark = <<"bt", "bt", "quoted">> /\ dialect \in {"mysql", "sqlite"}
              \/ mark = <<"[", "]", "quoted">> /\ dialect = "sqlite"
  BY DEF QuoteMarks

LEMMA OpensIs ==
    ASSUME NEW dialect, NEW c
    PROVE  (\E mark \in QuoteMarks(dialect) : c = mark[1]) <=> QuoteOpens(dialect, c)
<1>1. ASSUME NEW mark \in QuoteMarks(dialect), c = mark[1] PROVE QuoteOpens(dialect, c)
  <2>1. mark \in QuoteMarks(dialect)
    OBVIOUS
  <2> QED
    BY <1>1, <2>1, MarksAre DEF QuoteOpens
<1>2. ASSUME QuoteOpens(dialect, c) PROVE \E mark \in QuoteMarks(dialect) : c = mark[1]
  <2>1. CASE c = "sq"
    <3>1. <<"sq", "sq", "string">> \in QuoteMarks(dialect) /\ <<"sq", "sq", "string">>[1] = c
      BY <2>1, MarksAre
    <3> QED
      BY <3>1, Zenon
  <2>2. CASE c = "dq"
    <3>1. <<"dq", "dq", "quoted">> \in QuoteMarks(dialect) /\ <<"dq", "dq", "quoted">>[1] = c
      BY <2>2, MarksAre
    <3> QED
      BY <3>1, Zenon
  <2>3. CASE c = "bt" /\ dialect \in {"mysql", "sqlite"}
    <3>1. <<"bt", "bt", "quoted">> \in QuoteMarks(dialect) /\ <<"bt", "bt", "quoted">>[1] = c
      BY <2>3, MarksAre
    <3> QED
      BY <3>1, Zenon
  <2>4. CASE c = "[" /\ dialect = "sqlite"
    <3>1. <<"[", "]", "quoted">> \in QuoteMarks(dialect) /\ <<"[", "]", "quoted">>[1] = c
      BY <2>4, MarksAre
    <3> QED
      BY <3>1, Zenon
  <2> QED
    BY <1>2, <2>1, <2>2, <2>3, <2>4, Zenon DEF QuoteOpens
<1> QED
  BY <1>1, <1>2, Zenon

\* The regions that begin at p, by its byte.
LEMMA RegionAtIs ==
    ASSUME NEW t \in Seq(STRING), NEW dialect, NEW p \in DOMAIN t
    PROVE  LET line == (t[p] = "-" /\ Starts(t, p, <<"-", "-">>)) \/ (t[p] = "#" /\ dialect = "mysql")
               block == t[p] = "/" /\ Starts(t, p, <<"/", "*">>)
               quote == QuoteOpens(dialect, t[p])
               dollar == t[p] = "$" /\ dialect = "postgres" /\ DollarTag(t, p) # << >>
           IN  /\ RegionAt(t, dialect, p) =
                     IF line THEN "line" ELSE IF block THEN "block" ELSE IF quote THEN "quote"
                     ELSE IF dollar THEN "dollar" ELSE "code"
               /\ CommentEnd(t, dialect, p) =
                     IF line THEN LineEnd(t, p) ELSE IF block THEN BlockEnd(t, p) ELSE 0
<1>1. p \in Int
  OBVIOUS
<1>2. Starts(t, p, <<"-", "-">>) => t[p] = "-"
  BY <1>1, StartsTwo
<1>3. Starts(t, p, <<"/", "*">>) => t[p] = "/"
  BY <1>1, StartsTwo
<1>4. DollarTag(t, p) # << >> => t[p] = "$"
  BY AtIs DEF DollarTag
<1>5. At(t, p) = "#" <=> t[p] = "#"
  BY AtIs
<1>6. (\E mark \in QuoteMarks(dialect) : t[p] = mark[1]) <=> QuoteOpens(dialect, t[p])
  BY OpensIs
<1>7. QuoteOpens(dialect, t[p]) => t[p] \in {"sq", "dq", "bt", "["}
  BY DEF QuoteOpens
<1> QED
  <2>1. PICK line : line = ((t[p] = "-" /\ Starts(t, p, <<"-", "-">>)) \/ (t[p] = "#" /\ dialect = "mysql"))
    OBVIOUS
  <2> QED
    BY <1>2, <1>3, <1>4, <1>5, <1>6, <1>7 DEF RegionAt, CommentEnd

-----------------------------------------------------------------------------
(* Where a token ends: each leaves the scanner where no region is open *)

LEMMA CodeIs ==
    ASSUME NEW t, NEW dialect, NEW reg, Scanned(t, dialect, reg),
           NEW p \in DOMAIN t, Fresh(t, dialect, reg, p), RegionAt(t, dialect, p) = "code"
    PROVE  reg[p] = 0 /\ Fresh(t, dialect, reg, p + 1)
<1>1. reg[p] = 0
  BY FreshRegion
<1>2. p \in 1..Len(t) /\ Len(t) \in Nat
  BY DEF Scanned
<1>3. p + 1 \in 1..Len(t) + 1 /\ p + 1 > 1 /\ p + 1 - 1 = p
  BY <1>2
<1> QED
  BY <1>1, <1>3 DEF Fresh

LEMMA PlainIsCode ==
    ASSUME NEW t \in Seq(STRING), NEW dialect, NEW p \in DOMAIN t,
           t[p] \notin {"-", "#", "/", "sq", "dq", "bt", "[", "$"}
    PROVE  RegionAt(t, dialect, p) = "code" /\ CommentEnd(t, dialect, p) = 0
  BY RegionAtIs DEF QuoteOpens

LEMMA EndsIs ==
    ASSUME NEW t, NEW dialect, NEW r, NEW i
    PROVE  /\ RegionAt(t, dialect, r) = "line" =>
                 (RegionEnds(t, dialect, r, i) <=> At(t, i + 1) = "nl")
           /\ RegionAt(t, dialect, r) = "block" =>
                 (RegionEnds(t, dialect, r, i) <=> i >= r + 3 /\ Starts(t, i - 1, <<"*", "/">>))
           /\ RegionAt(t, dialect, r) = "quote" =>
                 (RegionEnds(t, dialect, r, i) <=>
                     /\ i > r /\ \E mark \in QuoteMarks(dialect) : t[r] = mark[1] /\ t[i] = mark[2]
                     /\ t[r] = "sq" /\ dialect = "mysql" => ~Escaped(t, r, i))
           /\ RegionAt(t, dialect, r) = "dollar" =>
                 (RegionEnds(t, dialect, r, i) <=>
                     /\ i >= r + 2 * Len(DollarTag(t, r)) - 1
                     /\ Starts(t, i + 1 - Len(DollarTag(t, r)), DollarTag(t, r)))
<1>1. ASSUME RegionAt(t, dialect, r) = "line"
      PROVE  RegionEnds(t, dialect, r, i) <=> At(t, i + 1) = "nl"
  BY <1>1 DEF RegionEnds
<1>2. ASSUME RegionAt(t, dialect, r) = "block"
      PROVE  RegionEnds(t, dialect, r, i) <=> i >= r + 3 /\ Starts(t, i - 1, <<"*", "/">>)
  BY <1>2 DEF RegionEnds
<1>3. ASSUME RegionAt(t, dialect, r) = "quote"
      PROVE  RegionEnds(t, dialect, r, i) <=>
                     /\ i > r /\ \E mark \in QuoteMarks(dialect) : t[r] = mark[1] /\ t[i] = mark[2]
                     /\ t[r] = "sq" /\ dialect = "mysql" => ~Escaped(t, r, i)
  BY <1>3 DEF RegionEnds
<1>4. ASSUME RegionAt(t, dialect, r) = "dollar"
      PROVE  RegionEnds(t, dialect, r, i) <=>
                     /\ i >= r + 2 * Len(DollarTag(t, r)) - 1
                     /\ Starts(t, i + 1 - Len(DollarTag(t, r)), DollarTag(t, r))
  BY <1>4 DEF RegionEnds
<1> QED
  BY <1>1, <1>2, <1>3, <1>4, Zenon

LEMMA CommentIs ==
    ASSUME NEW t, NEW dialect, NEW reg, Scanned(t, dialect, reg),
           NEW p \in DOMAIN t, Fresh(t, dialect, reg, p), CommentEnd(t, dialect, p) # 0
    PROVE  LET e == CommentEnd(t, dialect, p)
           IN  /\ e \in p + 1..Len(t) + 1
               /\ RegionAt(t, dialect, p) \in {"line", "block"}
               /\ \A i \in p..e - 1 : reg[i] = p
               /\ Fresh(t, dialect, reg, e)
<1>1. PICK N \in Nat : N = Len(t) /\ DOMAIN t = 1..N /\ t \in Seq(STRING)
  BY DEF Scanned
<1>2. p \in 1..N
  BY <1>1
<1>3. PICK e : e = CommentEnd(t, dialect, p)
  OBVIOUS
<1>4. ASSUME RegionAt(t, dialect, p) \in {"line", "block"}, e \in p + 1..N + 1,
             \A i \in p..e - 2 : ~RegionEnds(t, dialect, p, i),
             e = N + 1 \/ RegionEnds(t, dialect, p, e - 1)
      PROVE  (\A i \in p..e - 1 : reg[i] = p) /\ Fresh(t, dialect, reg, e)
  <2>1. reg[p] = p
    BY <1>4, FreshRegion
  <2>2. \A i \in p..e - 1 : reg[i] = p
    BY <1>1, <1>4, <2>1, RegionRuns
  <2>3. e - 1 \in p..e - 1 /\ e > 1 /\ e \in 1..N + 1 /\ p # 0
    BY <1>2, <1>4
  <2>4. reg[e - 1] = p /\ IsCommentRegion(t, dialect, p)
    BY <1>4, <2>2, <2>3 DEF IsCommentRegion
  <2> QED
    BY <1>1, <1>4, <2>2, <2>3, <2>4 DEF Fresh
<1>5. CASE RegionAt(t, dialect, p) = "line"
  <2>1. e = LineEnd(t, p) /\ t[p] # "nl"
    BY <1>1, <1>3, <1>5, RegionAtIs
  <2>2. PICK hits : hits = {j \in p..N : t[j] = "nl"}
    OBVIOUS
  <2>3. e = First(hits, N)
    BY <1>1, <2>1, <2>2 DEF LineEnd, FirstFrom, First
  <2>4. /\ e \in p..N + 1 /\ \A k \in p..e - 1 : k \notin hits
        /\ e <= N => e \in hits
    <3>1. hits \subseteq p..N /\ p \in 1..N + 1
      BY <1>2, <2>2
    <3> QED
      BY <2>3, <3>1, FirstIs
  <2>5. e \in p + 1..N + 1
    BY <1>2, <2>1, <2>2, <2>4
  <2>6. ASSUME NEW i \in p..e - 2 PROVE ~RegionEnds(t, dialect, p, i)
    <3>1. i + 1 \in p..e - 1 /\ i + 1 \in 1..N
      BY <1>2, <2>5
    <3>2. t[i + 1] # "nl"
      BY <2>2, <2>4, <2>5, <3>1
    <3>3. At(t, i + 1) # "nl"
      BY <1>1, <3>1, <3>2 DEF At
    <3> QED
      BY <1>5, <3>3, EndsIs, Zenon
  <2>7. e = N + 1 \/ RegionEnds(t, dialect, p, e - 1)
    <3>1. CASE e <= N
      <4>1. e \in 1..N /\ t[e] = "nl" /\ e - 1 + 1 = e
        BY <1>2, <2>2, <2>4, <3>1
      <4>2. At(t, e - 1 + 1) = "nl"
        BY <1>1, <4>1 DEF At
      <4> QED
        BY <1>5, <4>2, EndsIs, Zenon
    <3> QED
      BY <2>5, <3>1
  <2> QED
    BY <1>1, <1>3, <1>4, <1>5, <2>5, <2>6, <2>7
<1>6. CASE RegionAt(t, dialect, p) = "block"
  <2>1. e = BlockEnd(t, p) /\ Starts(t, p, <<"/", "*">>)
    BY <1>1, <1>3, <1>6, RegionAtIs
  <2>2. PICK hits : hits = {j \in p + 2..N : Starts(t, j, <<"*", "/">>)}
    OBVIOUS
  <2>3. PICK close : close = First(hits, N)
    OBVIOUS
  <2>4. e = IF close > N THEN close ELSE close + 2
    BY <1>1, <2>1, <2>2, <2>3 DEF BlockEnd, FirstFrom, First
  <2>5. p + 1 \in 1..N
    BY <1>1, <1>2, <2>1, StartsTwo
  <2>6. /\ close \in p + 2..N + 1 /\ \A k \in p + 2..close - 1 : k \notin hits
        /\ close <= N => close \in hits
    <3>1. hits \subseteq p + 2..N /\ p + 2 \in 1..N + 1
      BY <1>2, <2>2, <2>5
    <3> QED
      BY <2>3, <3>1, FirstIs
  <2>7. close <= N => close + 1 <= N
    BY <1>1, <2>2, <2>6, StartsTwo
  <2>8. e \in p + 1..N + 1
    BY <1>2, <2>4, <2>6, <2>7
  <2>9. ASSUME NEW i \in p..e - 2 PROVE ~RegionEnds(t, dialect, p, i)
    <3>1. CASE i >= p + 3
      <4>1. i - 1 \in p + 2..close - 1
        BY <1>2, <2>4, <2>6, <2>8, <3>1
      <4>2. i - 1 \in p + 2..N
        BY <2>6, <4>1
      <4>3. ~Starts(t, i - 1, <<"*", "/">>)
        BY <2>2, <2>6, <4>1, <4>2
      <4> QED
        BY <1>6, <4>3, EndsIs
    <3> QED
      BY <1>6, <3>1, EndsIs
  <2>10. e = N + 1 \/ RegionEnds(t, dialect, p, e - 1)
    <3>1. CASE close <= N
      <4>1. e - 1 - 1 = close /\ e - 1 >= p + 3 /\ Starts(t, close, <<"*", "/">>)
        BY <1>2, <2>2, <2>4, <2>6, <3>1
      <4> QED
        BY <1>6, <4>1, EndsIs
    <3> QED
      BY <2>4, <2>6, <3>1
  <2> QED
    BY <1>1, <1>3, <1>4, <1>6, <2>8, <2>9, <2>10
<1>7. RegionAt(t, dialect, p) \in {"line", "block"}
  BY <1>1, RegionAtIs
<1> QED
  BY <1>5, <1>6, <1>7

WordEnd(t, p) == FirstFrom(t, p, LAMBDA i : ~IsWordChar(t[i]))

LEMMA WordIs ==
    ASSUME NEW t, NEW dialect, NEW reg, Scanned(t, dialect, reg),
           NEW p \in DOMAIN t, Fresh(t, dialect, reg, p), IsWordChar(t[p])
    PROVE  LET e == WordEnd(t, p)
           IN  /\ e \in p + 1..Len(t) + 1
               /\ \A i \in p..e - 1 : reg[i] = 0 /\ IsWordChar(t[i])
               /\ Fresh(t, dialect, reg, e)
<1>1. PICK N \in Nat : N = Len(t) /\ DOMAIN t = 1..N /\ t \in Seq(STRING)
  BY DEF Scanned
<1>2. p \in 1..N
  BY <1>1
<1>3. PICK e : e = WordEnd(t, p)
  OBVIOUS
<1>4. PICK hits : hits = {j \in p..N : ~IsWordChar(t[j])}
  OBVIOUS
<1>5. e = First(hits, N)
  BY <1>1, <1>3, <1>4 DEF WordEnd, FirstFrom, First
<1>6. e \in p..N + 1 /\ \A k \in p..e - 1 : k \notin hits
  <2>1. hits \subseteq p..N /\ p \in 1..N + 1
    BY <1>2, <1>4
  <2>2. e <= N => e \in hits
    BY <1>5, <2>1, FirstIs
  <2> QED
    BY <1>5, <2>1, FirstIs
<1>7. e # p
  <2>1. p \in p..N /\ p \notin hits
    BY <1>2, <1>4
  <2>2. hits \subseteq p..N /\ p \in 1..N + 1
    BY <1>2, <1>4
  <2>3. e <= N => e \in hits
    BY <1>5, <2>2, FirstIs
  <2> QED
    BY <1>2, <2>1, <2>3
<1>8. \A i \in p..e - 1 : IsWordChar(t[i])
  BY <1>2, <1>4, <1>6
<1>9. ASSUME NEW i \in p..e - 1, Fresh(t, dialect, reg, i)
      PROVE  reg[i] = 0 /\ Fresh(t, dialect, reg, i + 1)
  <2>1. i \in DOMAIN t
    BY <1>1, <1>2, <1>6
  <2>2. t[i] \notin {"-", "#", "/", "sq", "dq", "bt", "[", "$"}
    BY <1>8 DEF IsWordChar
  <2>3. RegionAt(t, dialect, i) = "code"
    BY <1>1, <2>1, <2>2, PlainIsCode
  <2> QED
    BY <1>9, <2>1, <2>3, CodeIs
<1>10. \A i \in p..e : Fresh(t, dialect, reg, i)
  <2> DEFINE Bad == {i \in p..e : ~Fresh(t, dialect, reg, i)}
  <2> SUFFICES ASSUME Bad # {} PROVE FALSE
    OBVIOUS
  <2>1. Bad \subseteq Nat
    BY <1>2, <1>6
  <2>2. PICK i \in Bad : \A k \in Bad : i <= k
    BY <2>1, HasLeast
  <2>3. i \in p..e /\ ~Fresh(t, dialect, reg, i) /\ i # p
    OBVIOUS
  <2>4. i - 1 \in p..e - 1 /\ i - 1 \in p..e /\ i - 1 + 1 = i /\ ~(i <= i - 1)
    BY <1>2, <1>6, <2>3
  <2>5. Fresh(t, dialect, reg, i - 1)
    BY <2>2, <2>4
  <2> QED
    BY <1>9, <2>3, <2>4, <2>5
<1>11. \A i \in p..e - 1 : i \in p..e
  BY <1>2, <1>6
<1>12. e \in p + 1..N + 1 /\ e \in p..e
  BY <1>2, <1>6, <1>7
<1> QED
  BY <1>1, <1>3, <1>8, <1>9, <1>10, <1>11, <1>12

\* A dollar that opens a string, and the string, or what is left of the text.
LEMMA DollarTagIs ==
    ASSUME NEW t \in Seq(STRING), NEW p \in DOMAIN t, DollarTag(t, p) # << >>
    PROVE  LET tag == DollarTag(t, p)
           IN  /\ tag \in Seq(STRING) /\ Len(tag) >= 2 /\ p + Len(tag) <= Len(t) + 1
               /\ tag[Len(tag)] = "$" /\ t[p] = "$"
<1>1. PICK N \in Nat : N = Len(t) /\ DOMAIN t = 1..N
  OBVIOUS
<1>2. p \in 1..N
  BY <1>1
<1>3. PICK hits : hits = {k \in p + 1..N : ~IsWordChar(t[k])}
  OBVIOUS
<1>4. PICK j : j = First(hits, N)
  OBVIOUS
<1>5. /\ DollarTag(t, p) = SubSeq(t, p, j)
      /\ At(t, p) = "$" /\ At(t, j) = "$"
  BY <1>1, <1>3, <1>4 DEF DollarTag, FirstFrom, First
<1>6. j \in p + 1..N + 1
  <2>1. hits \subseteq p + 1..N /\ p + 1 \in 1..N + 1
    BY <1>2, <1>3
  <2> QED
    BY <1>4, <2>1, FirstIs
<1>7. t[p] = "$" /\ t[j] = "$" /\ j \in p + 1..N
  <2>1. t[p] = "$" /\ t[j] = "$" /\ j \in 1..N
    BY <1>1, <1>5, AtIs
  <2> QED
    BY <1>2, <1>6, <2>1
<1>8. /\ SubSeq(t, p, j) \in Seq(STRING) /\ Len(SubSeq(t, p, j)) = j - p + 1
      /\ SubSeq(t, p, j)[j - p + 1] = t[j]
  BY <1>1, <1>2, <1>7
<1> QED
  <2>1. PICK L : L = j - p + 1
    OBVIOUS
  <2>2. L >= 2 /\ p + L <= N + 1
    BY <1>2, <1>7, <2>1
  <2> QED
    BY <1>1, <1>5, <1>7, <1>8, <2>1, <2>2

\* A region that is still open at the end of the text.
LeftOpen(t, dialect, reg) ==
    /\ Len(t) > 0 /\ reg[Len(t)] # 0
    /\ RegionAt(t, dialect, reg[Len(t)]) \in {"quote", "dollar"}
    /\ ~RegionEnds(t, dialect, reg[Len(t)], Len(t))

LEMMA DollarIs ==
    ASSUME NEW t, NEW dialect, NEW reg, Scanned(t, dialect, reg),
           NEW p \in DOMAIN t, Fresh(t, dialect, reg, p),
           dialect = "postgres", DollarTag(t, p) # << >>
    PROVE  LET e == DollarEnd(t, DollarTag(t, p), p)
           IN  /\ RegionAt(t, dialect, p) = "dollar"
               /\ e = 0 => LeftOpen(t, dialect, reg)
               /\ e # 0 => /\ e \in p + 1..Len(t) + 1 /\ \A i \in p..e - 1 : reg[i] = p
                           /\ t[e - 1] = "$" /\ Fresh(t, dialect, reg, e)
<1>1. PICK N \in Nat : N = Len(t) /\ DOMAIN t = 1..N /\ t \in Seq(STRING)
  BY DEF Scanned
<1>2. p \in 1..N
  BY <1>1
<1>3. PICK tag : tag = DollarTag(t, p)
  OBVIOUS
<1>4. PICK L \in Nat : L = Len(tag) /\ L >= 2 /\ DOMAIN tag = 1..L /\ p + L <= N + 1 /\ tag[L] = "$" /\ t[p] = "$"
  BY <1>1, <1>3, DollarTagIs
<1>5. RegionAt(t, dialect, p) = "dollar"
  <2>1. t[p] = "$" /\ ~QuoteOpens(dialect, t[p])
    BY <1>4 DEF QuoteOpens
  <2> QED
    BY <1>1, <2>1, RegionAtIs
<1>6. PICK hits : hits = {j \in p + L..N : Starts(t, j, tag)}
  OBVIOUS
<1>7. PICK again : again = First(hits, N)
  OBVIOUS
<1>8. PICK e : e = DollarEnd(t, tag, p)
  OBVIOUS
<1>9. e = IF again > N THEN 0 ELSE again + L
  <2>1. again = FirstFrom(t, p + L, LAMBDA j : Starts(t, j, tag))
    BY <1>1, <1>6, <1>7 DEF FirstFrom, First
  <2> QED
    BY <1>1, <1>4, <1>8, <2>1 DEF DollarEnd
<1>10. /\ again \in p + L..N + 1 /\ \A k \in p + L..again - 1 : k \notin hits
       /\ again <= N => again \in hits
  <2>1. hits \subseteq p + L..N /\ p + L \in 1..N + 1
    BY <1>2, <1>4, <1>6
  <2> QED
    BY <1>7, <2>1, FirstIs
<1>11. again <= N => again + L - 1 \in 1..N /\ t[again + L - 1] = "$" /\ Starts(t, again, tag)
  <2> SUFFICES ASSUME again <= N
               PROVE  again + L - 1 \in 1..N /\ t[again + L - 1] = "$" /\ Starts(t, again, tag)
    OBVIOUS
  <2>1. Starts(t, again, tag) /\ L \in DOMAIN tag
    BY <1>4, <1>6, <1>10
  <2>2. At(t, again + L - 1) = "$"
    BY <1>4, <2>1 DEF Starts
  <2> QED
    BY <1>1, <2>1, <2>2, AtIs
<1>12. ASSUME NEW i \in p..N, again > N \/ i <= again + L - 2
       PROVE  ~RegionEnds(t, dialect, p, i)
  <2> SUFFICES ASSUME i >= p + 2 * L - 1, Starts(t, i + 1 - L, tag) PROVE FALSE
    BY <1>3, <1>4, <1>5, EndsIs
  <2>1. i + 1 - L \in p + L..N /\ i + 1 - L \in p + L..again - 1
    BY <1>2, <1>4, <1>10, <1>12
  <2> QED
    BY <1>6, <1>10, <2>1
<1>13. reg[p] = p
  BY <1>5, FreshRegion
<1>14. CASE again > N
  <2>1. e = 0
    BY <1>9, <1>14
  <2>2. N + 1 \in p + 1..Len(t) + 1 /\ \A i \in p..N + 1 - 2 : i \in p..N
    BY <1>1, <1>2
  <2>3. \A i \in p..N + 1 - 2 : ~RegionEnds(t, dialect, p, i)
    BY <1>12, <1>14, <2>2
  <2>4. \A i \in p..N + 1 - 1 : reg[i] = p
    BY <1>13, <2>2, <2>3, RegionRuns
  <2>5. N \in p..N + 1 - 1 /\ N \in p..N /\ N > 0 /\ p # 0
    BY <1>2
  <2>6. reg[N] = p /\ ~RegionEnds(t, dialect, p, N)
    BY <1>12, <1>14, <2>4, <2>5
  <2>7. LeftOpen(t, dialect, reg)
    BY <1>1, <1>5, <2>5, <2>6 DEF LeftOpen
  <2> QED
    BY <1>3, <1>5, <1>8, <2>1, <2>7
<1>15. CASE ~(again > N)
  <2>1. e = again + L /\ e \in p + 1..N + 1 /\ e # 0 /\ e - 1 = again + L - 1 /\ again <= N
    BY <1>2, <1>4, <1>9, <1>10, <1>11, <1>15
  <2>2. \A i \in p..e - 2 : i \in p..N /\ i <= again + L - 2
    BY <1>2, <1>4, <1>10, <2>1
  <2>3. \A i \in p..e - 2 : ~RegionEnds(t, dialect, p, i)
    BY <1>12, <2>2
  <2>4. \A i \in p..e - 1 : reg[i] = p
    BY <1>1, <1>13, <2>1, <2>3, RegionRuns, SMTT(30)
  <2>5. t[e - 1] = "$"
    BY <1>11, <2>1
  <2>6. RegionEnds(t, dialect, p, e - 1)
    <3>1. e - 1 >= p + 2 * L - 1 /\ e - 1 + 1 - L = again
      BY <1>2, <1>4, <1>10, <2>1
    <3> QED
      BY <1>3, <1>4, <1>5, <1>11, <2>1, <3>1, EndsIs
  <2>7. e - 1 \in p..e - 1 /\ e > 1 /\ e \in 1..N + 1
    BY <1>2, <2>1
  <2>8. Fresh(t, dialect, reg, e)
    BY <1>1, <2>4, <2>6, <2>7 DEF Fresh
  <2> QED
    BY <1>1, <1>3, <1>5, <1>8, <2>1, <2>4, <2>5, <2>8
<1> QED
  BY <1>14, <1>15

-----------------------------------------------------------------------------
(* Quotes *)

ScanStep(t, dialect, close, scan, j) ==
    IF j > Len(t) THEN 0
    ELSE IF t[j] = "bs" /\ close = "sq" /\ dialect = "mysql" THEN scan[j + 2]
    ELSE IF t[j] # close THEN scan[j + 1]
    ELSE IF At(t, j + 1) = close /\ close # "]" THEN scan[j + 2]
    ELSE j + 1

LEMMA ScanStepIs ==
    ASSUME NEW t, NEW dialect, NEW close, NEW f, NEW g, NEW j,
           j > Len(t) \/ (f[j + 1] = g[j + 1] /\ f[j + 2] = g[j + 2])
    PROVE  ScanStep(t, dialect, close, f, j) = ScanStep(t, dialect, close, g, j)
  BY Zenon DEF ScanStep

LEMMA ScansExist ==
    ASSUME NEW t \in Seq(STRING), NEW dialect, NEW close
    PROVE  \E f : f = [j \in 1..Len(t) + 2 |-> ScanStep(t, dialect, close, f, j)]
<1>1. PICK N \in Nat : N = Len(t)
  OBVIOUS
<1> DEFINE Good(m) == \E f : f = [j \in m..N + 2 |-> ScanStep(t, dialect, close, f, j)]
           Bad == {n \in 0..N : ~Good(N + 1 - n)}
<1>2. Good(N + 1)
  <2>1. PICK f : f = [j \in N + 1..N + 2 |-> 0]
    OBVIOUS
  <2>2. \A j \in N + 1..N + 2 : ScanStep(t, dialect, close, f, j) = 0
    BY <1>1 DEF ScanStep
  <2>3. f = [j \in N + 1..N + 2 |-> ScanStep(t, dialect, close, f, j)]
    BY <2>1, <2>2
  <2> QED
    BY <2>3, Zenon
<1>3. ASSUME NEW m \in 1..N, Good(m + 1)
      PROVE  Good(m)
  <2>1. PICK f : f = [j \in m + 1..N + 2 |-> ScanStep(t, dialect, close, f, j)]
    BY <1>3, Zenon
  <2>2. PICK v : v = ScanStep(t, dialect, close, f, m)
    OBVIOUS
  <2>3. PICK g : g = [j \in m..N + 2 |-> IF j = m THEN v ELSE f[j]]
    OBVIOUS
  <2>4. ASSUME NEW j \in m..N + 2 PROVE g[j] = ScanStep(t, dialect, close, g, j)
    <3>1. j > Len(t) \/ (f[j + 1] = g[j + 1] /\ f[j + 2] = g[j + 2])
      <4>1. CASE j <= N
        <5>1. j + 1 \in m..N + 2 /\ j + 1 # m /\ j + 2 \in m..N + 2 /\ j + 2 # m
          BY <4>1
        <5> QED
          BY <2>3, <5>1
      <4> QED
        BY <1>1, <4>1
    <3>2. ScanStep(t, dialect, close, g, j) = ScanStep(t, dialect, close, f, j)
      BY <3>1, ScanStepIs
    <3>3. CASE j = m
      BY <2>2, <2>3, <3>2, <3>3
    <3>4. CASE j # m
      <4>1. j \in m + 1..N + 2
        BY <3>4
      <4>2. f[j] = ScanStep(t, dialect, close, f, j)
        BY <2>1, <4>1
      <4> QED
        BY <2>3, <3>2, <3>4, <4>2
    <3> QED
      BY <3>3, <3>4
  <2>5. g = [j \in m..N + 2 |-> ScanStep(t, dialect, close, g, j)]
    BY <2>3, <2>4
  <2> QED
    BY <2>5, Zenon
<1>4. Bad = {}
  <2> SUFFICES ASSUME Bad # {} PROVE FALSE
    OBVIOUS
  <2>1. Bad \subseteq Nat
    OBVIOUS
  <2>2. PICK n \in Bad : \A k \in Bad : n <= k
    BY <2>1, HasLeast
  <2>3. n \in 0..N /\ ~Good(N + 1 - n)
    OBVIOUS
  <2> HIDE DEF Good
  <2>4. n \in 1..N /\ N + 1 - n \in 1..N
    <3>1. n = 0 => N + 1 - n = N + 1
      OBVIOUS
    <3>2. n # 0
      BY <1>2, <2>3, <3>1
    <3> QED
      BY <2>3, <3>2
  <2>5. Good((N + 1 - n) + 1)
    <3>1. n - 1 \in 0..N /\ ~(n <= n - 1) /\ N + 1 - (n - 1) = (N + 1 - n) + 1
      BY <2>4
    <3>2. Good(N + 1 - (n - 1))
      BY <2>2, <3>1
    <3> QED
      BY <3>1, <3>2
  <2> QED
    BY <1>3, <2>3, <2>4, <2>5
<1>5. Good(1)
  <2> HIDE DEF Good
  <2>1. CASE N = 0
    BY <1>2, <2>1
  <2>2. CASE N # 0
    <3>1. N \in 0..N /\ N + 1 - N = 1
      OBVIOUS
    <3> QED
      BY <1>4, <3>1
  <2> QED
    BY <2>1, <2>2
<1>6. PICK g : g = [j \in 1..N + 2 |-> ScanStep(t, dialect, close, g, j)]
  BY <1>5, Zenon
<1>7. g = [j \in 1..Len(t) + 2 |-> ScanStep(t, dialect, close, g, j)]
  BY <1>1, <1>6
<1> QED
  BY <1>7, Zenon

LEMMA QuoteEndIs ==
    ASSUME NEW t \in Seq(STRING), NEW dialect, NEW close, NEW i
    PROVE  \E scan : /\ QuoteEnd(t, dialect, close, i) = scan[i + 1]
                     /\ \A j \in 1..Len(t) + 2 : scan[j] = ScanStep(t, dialect, close, scan, j)
<1> DEFINE scan[j \in 1..Len(t) + 2] == ScanStep(t, dialect, close, scan, j)
<1>0. \E f : f = [j \in 1..Len(t) + 2 |-> ScanStep(t, dialect, close, f, j)]
  BY ScansExist
<1>1. scan = [j \in 1..Len(t) + 2 |-> ScanStep(t, dialect, close, scan, j)]
  BY <1>0, Zenon
<1>2. QuoteEnd(t, dialect, close, i) = scan[i + 1]
  BY DEF QuoteEnd, ScanStep
<1> HIDE DEF scan
<1>3. \A j \in 1..Len(t) + 2 : scan[j] = ScanStep(t, dialect, close, scan, j)
  BY <1>1, Zenon
<1> QED
  BY <1>2, <1>3, Zenon

\* The backslashes in front of a byte.
LEMMA EscapedIs ==
    ASSUME NEW t, NEW r \in Nat
    PROVE  /\ ~Escaped(t, r, r + 1)
           /\ \A j \in Nat : j > r => (Escaped(t, r, j + 1) <=> t[j] = "bs" /\ ~Escaped(t, r, j))
<1> DEFINE run(i) == {k \in r + 1..i - 1 : \A j \in k..i - 1 : t[j] = "bs"}
<1>1. \A i : Escaped(t, r, i) <=> Cardinality(run(i)) % 2 = 1
  BY DEF Escaped
<1>2. run(r + 1) = {}
  OBVIOUS
<1>3. ASSUME NEW j \in Nat, j > r, t[j] # "bs"
      PROVE  run(j + 1) = {}
  BY <1>3
<1>4. ASSUME NEW j \in Nat, j > r, t[j] = "bs"
      PROVE  run(j + 1) = run(j) \cup {j} /\ j \notin run(j) /\ IsFiniteSet(run(j))
  <2>1. run(j) \subseteq r + 1..j - 1
    OBVIOUS
  <2>2. IsFiniteSet(r + 1..j - 1)
    BY <1>4, FS_Interval
  <2>3. \A k : k \in run(j + 1) <=> k \in run(j) \/ k = j
    <3>1. ASSUME NEW k \in r + 1..j PROVE k \in run(j + 1) <=> k \in run(j) \/ k = j
      BY <1>4
    <3>2. ASSUME NEW k, k \notin r + 1..j PROVE k \notin run(j + 1) /\ k \notin run(j) /\ k # j
      BY <1>4, <3>2
    <3> QED
      BY <3>1, <3>2
  <2>4. IsFiniteSet(run(j))
    BY <2>1, <2>2, FS_Subset
  <2>5. j \notin run(j)
    OBVIOUS
  <2> HIDE DEF run
  <2> QED
    BY <2>3, <2>4, <2>5
<1> HIDE DEF run
<1>5. Cardinality({}) = 0
  BY FS_EmptySet
<1>6. ASSUME NEW j \in Nat, j > r
      PROVE  Escaped(t, r, j + 1) <=> t[j] = "bs" /\ ~Escaped(t, r, j)
  <2>1. CASE t[j] = "bs"
    <3>1. Cardinality(run(j + 1)) = Cardinality(run(j)) + 1 /\ Cardinality(run(j)) \in Nat
      BY <1>4, <1>6, <2>1, FS_AddElement, FS_CardinalityType
    <3>2. (Cardinality(run(j)) + 1) % 2 = 1 <=> ~(Cardinality(run(j)) % 2 = 1)
      BY <3>1
    <3> QED
      BY <1>1, <2>1, <3>1, <3>2
  <2>2. CASE t[j] # "bs"
    <3>1. Cardinality(run(j + 1)) = 0
      BY <1>3, <1>5, <1>6, <2>2
    <3> QED
      BY <1>1, <2>2, <3>1
  <2> QED
    BY <2>1, <2>2
<1>7. ~Escaped(t, r, r + 1)
  BY <1>1, <1>2, <1>5
<1> QED
  BY <1>6, <1>7

Closer(c) == IF c = "[" THEN "]" ELSE c

\* A quote is closed by its own byte only.
LEMMA QuoteCloses ==
    ASSUME NEW t, NEW dialect, NEW r, NEW i, RegionAt(t, dialect, r) = "quote", QuoteOpens(dialect, t[r])
    PROVE  RegionEnds(t, dialect, r, i) <=>
              /\ i > r /\ t[i] = Closer(t[r])
              /\ t[r] = "sq" /\ dialect = "mysql" => ~Escaped(t, r, i)
<1>1. \A mark \in QuoteMarks(dialect) : t[r] = mark[1] => mark[2] = Closer(t[r])
  <2> TAKE mark \in QuoteMarks(dialect)
  <2>1. mark \in QuoteMarks(dialect)
    OBVIOUS
  <2> QED
    BY <2>1, MarksAre DEF Closer
<1>2. PICK mark \in QuoteMarks(dialect) : t[r] = mark[1]
  BY OpensIs
<1>3. (\E m \in QuoteMarks(dialect) : t[r] = m[1] /\ t[i] = m[2]) <=> t[i] = Closer(t[r])
  BY <1>1, <1>2, Zenon
<1>4. RegionEnds(t, dialect, r, i) <=>
         /\ i > r /\ \E m \in QuoteMarks(dialect) : t[r] = m[1] /\ t[i] = m[2]
         /\ t[r] = "sq" /\ dialect = "mysql" => ~Escaped(t, r, i)
  BY EndsIs, Zenon
<1> QED
  BY <1>3, <1>4, Zenon

\* The scan stands at j, in a quote that begins at r.
InQuote(t, dialect, reg, open, r, j) ==
    /\ r \in DOMAIN t /\ t[r] = open /\ reg[r] = r /\ RegionAt(t, dialect, r) = "quote"
    /\ j \in r + 1..Len(t) + 2
    /\ \A i \in r..Len(t) : i < j => ~RegionEnds(t, dialect, r, i)
    /\ j <= Len(t) /\ open = "sq" /\ dialect = "mysql" => ~Escaped(t, r, j)

\* Where it comes out of it.
QuoteLeads(t, dialect, reg, close, r, e) ==
    /\ e = 0 => LeftOpen(t, dialect, reg)
    /\ e # 0 =>
          /\ e \in r + 1..Len(t) + 1 /\ t[e - 1] = close /\ Fresh(t, dialect, reg, e)
          /\ \A i \in r..e - 1 : reg[i] # 0 /\ RegionAt(t, dialect, reg[i]) = "quote"

LEMMA ScanLeads ==
    ASSUME NEW t, NEW dialect, NEW reg, Scanned(t, dialect, reg),
           NEW open, NEW close, QuoteOpens(dialect, open), close = Closer(open),
           NEW scan,
           \A j \in 1..Len(t) + 2 : scan[j] = ScanStep(t, dialect, close, scan, j),
           NEW j \in 2..Len(t) + 2,
           \A k \in j + 1..Len(t) + 2 : \A r \in DOMAIN t :
              InQuote(t, dialect, reg, open, r, k) => QuoteLeads(t, dialect, reg, close, r, scan[k]),
           NEW r \in DOMAIN t, InQuote(t, dialect, reg, open, r, j)
    PROVE  QuoteLeads(t, dialect, reg, close, r, scan[j])
<1>1. PICK N \in Nat : N = Len(t) /\ DOMAIN t = 1..N /\ t \in Seq(STRING)
  BY DEF Scanned
<1>2. /\ r \in 1..N /\ t[r] = open /\ reg[r] = r /\ RegionAt(t, dialect, r) = "quote"
      /\ j \in r + 1..N + 2
      /\ \A i \in r..N : i < j => ~RegionEnds(t, dialect, r, i)
      /\ j <= N /\ open = "sq" /\ dialect = "mysql" => ~Escaped(t, r, j)
  BY <1>1 DEF InQuote
<1>3. scan[j] = ScanStep(t, dialect, close, scan, j)
  BY <1>1, <1>2
<1>4. \A i : RegionEnds(t, dialect, r, i) <=>
               /\ i > r /\ t[i] = close
               /\ open = "sq" /\ dialect = "mysql" => ~Escaped(t, r, i)
  BY <1>2, QuoteCloses
<1>5. /\ open = "sq" <=> close = "sq"
      /\ close # "bs" /\ close # "end"
      /\ close # "]" => close = open
      /\ open \notin {"-", "/", "#"}
  BY DEF Closer, QuoteOpens
<1>6. CASE j > N
  <2>1. scan[j] = 0
    BY <1>1, <1>3, <1>6 DEF ScanStep
  <2>2. \A i \in r..N : ~RegionEnds(t, dialect, r, i)
    BY <1>2, <1>6
  <2>3. N + 1 \in r + 1..N + 1 /\ (\A i \in r..N + 1 - 2 : i \in r..N) /\ N \in r..N + 1 - 1 /\ N \in r..N
    BY <1>2
  <2>4. reg[N] = r
    <3>1. \A i \in r..N + 1 - 1 : reg[i] = r
      BY <1>1, <1>2, <2>2, <2>3, RegionRuns, SMTT(30)
    <3> QED
      BY <2>3, <3>1
  <2>5. LeftOpen(t, dialect, reg)
    BY <1>1, <1>2, <2>2, <2>3, <2>4 DEF LeftOpen
  <2> QED
    BY <2>1, <2>5 DEF QuoteLeads
<1>7. CASE j <= N /\ t[j] = "bs" /\ close = "sq" /\ dialect = "mysql"
  <2>1. scan[j] = scan[j + 2]
    BY <1>1, <1>3, <1>7 DEF ScanStep
  <2>2. r \in Nat /\ j \in Nat /\ j > r /\ j + 1 \in Nat /\ j + 1 > r
    BY <1>2
  <2>3. Escaped(t, r, j + 1) /\ ~Escaped(t, r, j + 1 + 1)
    BY <1>2, <1>5, <1>7, <2>2, EscapedIs
  <2>4. ASSUME NEW i \in r..N, i < j + 2 PROVE ~RegionEnds(t, dialect, r, i)
    <3>1. i < j \/ i = j \/ i = j + 1
      BY <1>2, <2>4
    <3> QED
      BY <1>2, <1>4, <1>5, <1>7, <2>3, <3>1
  <2>5. InQuote(t, dialect, reg, open, r, j + 2)
    <3>1. j + 2 \in r + 1..N + 2 /\ j + 1 + 1 = j + 2
      BY <1>2, <1>7
    <3> QED
      BY <1>1, <1>2, <2>3, <2>4, <3>1 DEF InQuote
  <2>6. j + 2 \in j + 1..Len(t) + 2
    BY <1>1, <1>2, <1>7
  <2> QED
    BY <2>1, <2>5, <2>6
<1>8. CASE j <= N /\ t[j] # close /\ ~(t[j] = "bs" /\ close = "sq" /\ dialect = "mysql")
  <2>1. scan[j] = scan[j + 1]
    BY <1>1, <1>3, <1>8 DEF ScanStep
  <2>2. r \in Nat /\ j \in Nat /\ j > r
    BY <1>2
  <2>3. open = "sq" /\ dialect = "mysql" => ~Escaped(t, r, j + 1)
    BY <1>5, <1>8, <2>2, EscapedIs
  <2>4. ASSUME NEW i \in r..N, i < j + 1 PROVE ~RegionEnds(t, dialect, r, i)
    <3>1. i < j \/ i = j
      BY <1>2, <2>4
    <3> QED
      BY <1>2, <1>4, <1>8, <3>1
  <2>5. InQuote(t, dialect, reg, open, r, j + 1)
    <3>1. j + 1 \in r + 1..N + 2
      BY <1>2, <1>8
    <3> QED
      BY <1>1, <1>2, <2>3, <2>4, <3>1 DEF InQuote
  <2>6. j + 1 \in j + 1..Len(t) + 2
    BY <1>1, <1>2, <1>8
  <2> QED
    BY <2>1, <2>5, <2>6
<1>9. CASE j <= N /\ t[j] = close
  <2>1. j \in 1..N /\ j > r /\ RegionEnds(t, dialect, r, j)
    BY <1>2, <1>4, <1>9
  <2>2. \A i \in r..j : reg[i] = r
    <3>1. j + 1 \in r + 1..Len(t) + 1 /\ (\A i \in r..j + 1 - 2 : i \in r..N /\ i < j) /\ j + 1 - 1 = j
      BY <1>1, <1>2, <2>1
    <3>2. \A i \in r..j + 1 - 2 : ~RegionEnds(t, dialect, r, i)
      BY <1>2, <3>1
    <3>3. \A i \in r..j + 1 - 1 : reg[i] = r
      BY <1>1, <1>2, <3>1, <3>2, RegionRuns
    <3> QED
      BY <3>1, <3>3
  <2>3. Fresh(t, dialect, reg, j + 1)
    <3>1. j + 1 \in 1..N + 1 /\ j + 1 > 1 /\ j + 1 - 1 = j /\ j \in r..j
      BY <1>2, <2>1
    <3> QED
      BY <1>1, <2>1, <2>2, <3>1 DEF Fresh
  <2>4. CASE At(t, j + 1) = close /\ close # "]"
    <3>1. scan[j] = scan[j + 2]
      BY <1>1, <1>3, <1>5, <1>9, <2>4 DEF ScanStep
    <3>2. j + 1 \in 1..N /\ t[j + 1] = open /\ close = open
      BY <1>1, <1>5, <2>4, AtIs
    <3>3. RegionAt(t, dialect, j + 1) = "quote"
      BY <1>1, <1>5, <3>2, RegionAtIs
    <3>4. reg[j + 1] = j + 1
      BY <1>1, <2>3, <3>2, <3>3, FreshRegion
    <3>5. j + 1 \in Nat /\ j + 2 = j + 1 + 1 /\ j + 2 \in j + 1 + 1..N + 2 /\ \A i \in j + 1..N : i < j + 2 => ~(i > j + 1)
      BY <1>2, <3>2
    <3>6. ~Escaped(t, j + 1, j + 2)
      BY <3>5, EscapedIs
    <3>7. \A i : RegionEnds(t, dialect, j + 1, i) => i > j + 1
      BY <3>2, <3>3, QuoteCloses
    <3>8. InQuote(t, dialect, reg, open, j + 1, j + 2)
      BY <1>1, <3>2, <3>3, <3>4, <3>5, <3>6, <3>7 DEF InQuote
    <3>9. QuoteLeads(t, dialect, reg, close, j + 1, scan[j + 2])
      <4>1. j + 2 \in j + 1..Len(t) + 2 /\ j + 1 \in DOMAIN t
        BY <1>1, <3>2
      <4> QED
        BY <3>8, <4>1
    <3>10. ASSUME scan[j] # 0
           PROVE  /\ scan[j] \in r + 1..Len(t) + 1 /\ t[scan[j] - 1] = close
                  /\ Fresh(t, dialect, reg, scan[j])
                  /\ \A i \in r..scan[j] - 1 : reg[i] # 0 /\ RegionAt(t, dialect, reg[i]) = "quote"
      <4>1. PICK e : e = scan[j]
        OBVIOUS
      <4>2. /\ e \in j + 1 + 1..Len(t) + 1 /\ t[e - 1] = close /\ Fresh(t, dialect, reg, e)
            /\ \A i \in j + 1..e - 1 : reg[i] # 0 /\ RegionAt(t, dialect, reg[i]) = "quote"
        BY <3>1, <3>9, <3>10, <4>1 DEF QuoteLeads
      <4>3. e \in r + 1..Len(t) + 1 /\ \A i \in r..e - 1 : i \in r..j \/ i \in j + 1..e - 1
        BY <1>1, <1>2, <4>2
      <4>4. r # 0
        BY <1>2
      <4>5. ASSUME NEW i \in r..e - 1 PROVE reg[i] # 0 /\ RegionAt(t, dialect, reg[i]) = "quote"
        <5>1. CASE i \in r..j
          BY <1>2, <2>2, <4>4, <5>1
        <5>2. CASE i \in j + 1..e - 1
          BY <4>2, <5>2
        <5> QED
          BY <4>3, <5>1, <5>2
      <4> QED
        BY <4>1, <4>2, <4>3, <4>5
    <3>11. scan[j] = 0 => LeftOpen(t, dialect, reg)
      BY <3>1, <3>9 DEF QuoteLeads
    <3> QED
      BY <3>10, <3>11 DEF QuoteLeads
  <2>5. CASE ~(At(t, j + 1) = close /\ close # "]")
    <3>1. scan[j] = j + 1
      BY <1>1, <1>3, <1>5, <1>9, <2>5 DEF ScanStep
    <3>2. j + 1 # 0 /\ j + 1 \in r + 1..Len(t) + 1 /\ j + 1 - 1 = j /\ r # 0
      BY <1>1, <1>2, <2>1
    <3> QED
      BY <1>2, <1>9, <2>2, <2>3, <3>1, <3>2 DEF QuoteLeads
  <2> QED
    BY <2>4, <2>5
<1> QED
  BY <1>1, <1>2, <1>6, <1>7, <1>8, <1>9

LEMMA QuoteIs ==
    ASSUME NEW t, NEW dialect, NEW reg, Scanned(t, dialect, reg),
           NEW p \in DOMAIN t, Fresh(t, dialect, reg, p),
           NEW mark \in QuoteMarks(dialect), t[p] = mark[1]
    PROVE  /\ RegionAt(t, dialect, p) = "quote"
           /\ QuoteLeads(t, dialect, reg, mark[2], p, QuoteEnd(t, dialect, mark[2], p))
<1>1. PICK N \in Nat : N = Len(t) /\ DOMAIN t = 1..N /\ t \in Seq(STRING)
  BY DEF Scanned
<1>2. PICK open, close : open = mark[1] /\ close = mark[2]
  OBVIOUS
<1>3. QuoteOpens(dialect, open) /\ close = Closer(open)
  <2>1. mark \in QuoteMarks(dialect)
    OBVIOUS
  <2> QED
    BY <1>2, <2>1, MarksAre DEF QuoteOpens, Closer
<1>4. PICK scan : /\ QuoteEnd(t, dialect, close, p) = scan[p + 1]
                  /\ \A j \in 1..Len(t) + 2 : scan[j] = ScanStep(t, dialect, close, scan, j)
  BY <1>1, QuoteEndIs
<1> DEFINE Leads(j) == \A r \in DOMAIN t :
              InQuote(t, dialect, reg, open, r, j) => QuoteLeads(t, dialect, reg, close, r, scan[j])
           Bad == {n \in 0..N : ~Leads(N + 2 - n)}
<1>5. ASSUME NEW j \in 2..Len(t) + 2, \A k \in j + 1..Len(t) + 2 : Leads(k)
      PROVE  Leads(j)
  BY <1>3, <1>4, <1>5, ScanLeads
<1>6. Bad = {}
  <2> SUFFICES ASSUME Bad # {} PROVE FALSE
    OBVIOUS
  <2>1. Bad \subseteq Nat
    OBVIOUS
  <2>2. PICK n \in Bad : \A k \in Bad : n <= k
    BY <2>1, HasLeast
  <2>3. n \in 0..N /\ ~Leads(N + 2 - n)
    OBVIOUS
  <2> HIDE DEF Leads
  <2>4. N + 2 - n \in 2..Len(t) + 2
    BY <1>1, <2>3
  <2>5. ASSUME NEW k \in (N + 2 - n) + 1..Len(t) + 2 PROVE Leads(k)
    <3>1. N + 2 - k \in 0..N /\ ~(n <= N + 2 - k) /\ N + 2 - (N + 2 - k) = k
      BY <1>1, <2>3
    <3> QED
      BY <2>2, <3>1
  <2> QED
    BY <1>5, <2>3, <2>4, <2>5
<1>7. Leads(p + 1)
  <2> HIDE DEF Leads
  <2>1. N + 2 - (p + 1) \in 0..N /\ N + 2 - (N + 2 - (p + 1)) = p + 1
    BY <1>1
  <2> QED
    BY <1>6, <2>1
<1>8. RegionAt(t, dialect, p) = "quote"
  <2>1. t[p] = open /\ open \notin {"-", "/", "#"}
    BY <1>2, <1>3 DEF QuoteOpens
  <2> QED
    BY <1>1, <1>3, <2>1, RegionAtIs
<1>9. reg[p] = p
  BY <1>8, FreshRegion
<1>10. InQuote(t, dialect, reg, open, p, p + 1)
  <2>1. p \in Nat /\ p + 1 \in p + 1..N + 2 /\ \A i \in p..N : i < p + 1 => ~(i > p)
    BY <1>1
  <2>2. ~Escaped(t, p, p + 1)
    BY <2>1, EscapedIs
  <2>3. \A i : RegionEnds(t, dialect, p, i) => i > p
    BY <1>2, <1>3, <1>8, QuoteCloses
  <2> QED
    BY <1>1, <1>2, <1>8, <1>9, <2>1, <2>2, <2>3 DEF InQuote
<1> QED
  BY <1>2, <1>4, <1>7, <1>8, <1>10

-----------------------------------------------------------------------------
(* The statements of a text: the parts of SpansIn, under names *)

Cuts(t, reg) == {i \in DOMAIN t : t[i] = ";" /\ reg[i] = 0}
InComment(t, dialect, reg) == {i \in DOMAIN t : IsCommentRegion(t, dialect, reg[i])}
Solid(t, dialect, reg) == {i \in DOMAIN t \ InComment(t, dialect, reg) : ~IsSpace(t[i])}
Firsts(t, dialect, reg) ==
    {i \in Solid(t, dialect, reg) \ Cuts(t, reg) :
        \A j \in Solid(t, dialect, reg) : j < i => \E c \in Cuts(t, reg) : j <= c /\ c < i}
CutAfter(t, reg, i) == Min({j \in Cuts(t, reg) : j >= i} \cup {Len(t) + 1})
CutBefore(t, dialect, reg, c) ==
    Max({0} \cup {CutAfter(t, reg, f) : f \in {g \in Firsts(t, dialect, reg) : g < c}})
EndOf(t, reg, f) == Max({j \in f..CutAfter(t, reg, f) - 1 : ~IsSpace(t[j])}) + 1
CommentsBefore(t, dialect, reg, p) ==
    {c \in InComment(t, dialect, reg) : c \in CutBefore(t, dialect, reg, p) + 1..p - 1 /\ reg[c] = c}

LEMMA MinEq ==
    ASSUME NEW S, S \subseteq Int, NEW m \in S, \A k \in S : m <= k
    PROVE  Min(S) = m
<1>1. Min(S) \in S /\ \A k \in S : Min(S) <= k
  BY Zenon DEF Min
<1>2. PICK x \in S : x = Min(S) /\ \A k \in S : x <= k
  BY <1>1
<1>3. x <= m /\ m <= x /\ x \in Int /\ m \in Int
  BY <1>2
<1>4. x = m
  BY <1>3
<1> QED
  BY <1>2, <1>4

LEMMA MaxEq ==
    ASSUME NEW S, S \subseteq Int, NEW m \in S, \A k \in S : m >= k
    PROVE  Max(S) = m
<1>1. Max(S) \in S /\ \A k \in S : Max(S) >= k
  BY Zenon DEF Max
<1>2. PICK x \in S : x = Max(S) /\ \A k \in S : x >= k
  BY <1>1
<1>3. x >= m /\ m >= x /\ x \in Int /\ m \in Int
  BY <1>2
<1>4. x = m
  BY <1>3
<1> QED
  BY <1>2, <1>4

LEMMA CutAfterIs ==
    ASSUME NEW t \in Seq(STRING), NEW reg, NEW i \in 1..Len(t) + 1
    PROVE  /\ CutAfter(t, reg, i) \in i..Len(t) + 1
           /\ \A c \in Cuts(t, reg) : c >= i => CutAfter(t, reg, i) <= c
           /\ CutAfter(t, reg, i) # Len(t) + 1 => CutAfter(t, reg, i) \in Cuts(t, reg)
<1>1. PICK N \in Nat : N = Len(t) /\ DOMAIN t = 1..N
  OBVIOUS
<1>2. PICK S : S = {j \in Cuts(t, reg) : j >= i} \cup {Len(t) + 1}
  OBVIOUS
<1>a. ASSUME NEW k \in S PROVE k \in i..N + 1 /\ k \in Nat
  <2>1. k = N + 1 \/ (k >= i /\ k \in 1..N)
    BY <1>1, <1>2 DEF Cuts
  <2> QED
    BY <1>1, <2>1
<1>3. S \subseteq i..N + 1 /\ S # {} /\ S \subseteq Nat
  BY <1>2, <1>a
<1>4. CutAfter(t, reg, i) \in S /\ \A k \in S : CutAfter(t, reg, i) <= k
  BY <1>2, <1>3, MinIs DEF CutAfter
<1> QED
  BY <1>1, <1>2, <1>3, <1>4

LEMMA CutAfterEq ==
    ASSUME NEW t \in Seq(STRING), NEW reg, NEW i \in 1..Len(t) + 1, NEW c \in i..Len(t) + 1,
           c = Len(t) + 1 \/ c \in Cuts(t, reg), \A k \in i..c - 1 : k \notin Cuts(t, reg)
    PROVE  CutAfter(t, reg, i) = c
<1>1. PICK N \in Nat : N = Len(t) /\ DOMAIN t = 1..N
  OBVIOUS
<1>2. PICK S : S = {j \in Cuts(t, reg) : j >= i} \cup {Len(t) + 1}
  OBVIOUS
<1>a. ASSUME NEW k \in S PROVE k \in Int
  <2>1. k = N + 1 \/ k \in 1..N
    BY <1>1, <1>2 DEF Cuts
  <2> QED
    BY <1>1, <2>1
<1>b. c \in S
  <2>1. c >= i
    BY <1>1
  <2> QED
    BY <1>2, <2>1
<1>3. S \subseteq Int /\ c \in S
  BY <1>a, <1>b
<1>4. ASSUME NEW k \in S PROVE c <= k
  <2>1. k = N + 1 \/ (k \in Cuts(t, reg) /\ k >= i /\ k \in 1..N)
    BY <1>1, <1>2 DEF Cuts
  <2> QED
    BY <1>1, <2>1
<1> QED
  BY <1>2, <1>3, <1>4, MinEq DEF CutAfter

LEMMA FirstsAre ==
    ASSUME NEW t, NEW dialect, NEW reg
    PROVE  /\ Firsts(t, dialect, reg) \subseteq Solid(t, dialect, reg)
           /\ Solid(t, dialect, reg) \subseteq DOMAIN t
           /\ Cuts(t, reg) \subseteq DOMAIN t
           /\ InComment(t, dialect, reg) \subseteq DOMAIN t
           /\ \A f \in Firsts(t, dialect, reg) : f \notin Cuts(t, reg) /\ f \notin InComment(t, dialect, reg)
  BY DEF Firsts, Solid, Cuts, InComment

LEMMA CutBeforeIs ==
    ASSUME NEW t \in Seq(STRING), NEW dialect, NEW reg, NEW p \in Nat
    PROVE  LET b == CutBefore(t, dialect, reg, p)
           IN  /\ b \in 0..Len(t) + 1
               /\ b = 0 \/ \E f \in Firsts(t, dialect, reg) : f < p /\ b = CutAfter(t, reg, f)
               /\ \A f \in Firsts(t, dialect, reg) : f < p => CutAfter(t, reg, f) <= b
<1>1. PICK N \in Nat : N = Len(t) /\ DOMAIN t = 1..N
  OBVIOUS
<1>2. PICK F : F = {g \in Firsts(t, dialect, reg) : g < p}
  OBVIOUS
<1>3. PICK S : S = {0} \cup {CutAfter(t, reg, f) : f \in F}
  OBVIOUS
<1>4. ASSUME NEW f \in F PROVE CutAfter(t, reg, f) \in 0..N + 1
  <2>1. f \in 1..Len(t) + 1 /\ f \in Nat
    BY <1>1, <1>2, FirstsAre
  <2> QED
    BY <1>1, <2>1, CutAfterIs
<1>5. S \subseteq 0..N + 1 /\ S # {}
  BY <1>1, <1>3, <1>4
<1>6. PICK b : b = CutBefore(t, dialect, reg, p)
  OBVIOUS
<1>7. b = Max(S)
  BY <1>2, <1>3, <1>6 DEF CutBefore
<1>8. b \in S /\ \A k \in S : b >= k
  <2>1. N + 1 \in Nat
    BY <1>1
  <2> QED
    BY <1>5, <1>7, <2>1, MaxIs
<1>9. ASSUME NEW f \in Firsts(t, dialect, reg), f < p PROVE CutAfter(t, reg, f) <= b
  <2>1. f \in F
    BY <1>2, <1>9
  <2>2. CutAfter(t, reg, f) \in S
    BY <1>3, <2>1
  <2> QED
    BY <1>4, <1>5, <1>8, <2>1, <2>2
<1> QED
  BY <1>1, <1>2, <1>3, <1>5, <1>6, <1>8, <1>9

LEMMA CutBeforeSame ==
    ASSUME NEW t, NEW dialect, NEW reg, NEW p, NEW q,
           \A f \in Firsts(t, dialect, reg) : f < p <=> f < q
    PROVE  CutBefore(t, dialect, reg, p) = CutBefore(t, dialect, reg, q)
<1>1. {g \in Firsts(t, dialect, reg) : g < p} = {g \in Firsts(t, dialect, reg) : g < q}
  OBVIOUS
<1> QED
  BY <1>1, Zenon DEF CutBefore

\* No statement is under way at p.
Settled(t, dialect, reg, p) ==
    \A j \in Solid(t, dialect, reg) : j < p => \E c \in Cuts(t, reg) : j <= c /\ c < p

LEMMA SettledIs ==
    ASSUME NEW t \in Seq(STRING), NEW dialect, NEW reg, NEW p \in DOMAIN t, Settled(t, dialect, reg, p)
    PROVE  CutBefore(t, dialect, reg, p) < p
<1>1. PICK N \in Nat : N = Len(t) /\ DOMAIN t = 1..N
  OBVIOUS
<1>2. ASSUME NEW f \in Firsts(t, dialect, reg), f < p
      PROVE  CutAfter(t, reg, f) < p
  <2>1. f \in Solid(t, dialect, reg) /\ f \in 1..Len(t) + 1
    BY <1>1, FirstsAre
  <2>2. PICK c \in Cuts(t, reg) : f <= c /\ c < p
    BY <1>2, <2>1 DEF Settled
  <2>3. c \in 1..N
    BY <1>1, FirstsAre
  <2>4. CutAfter(t, reg, f) \in f..Len(t) + 1 /\ CutAfter(t, reg, f) <= c
    BY <2>1, <2>2, <2>3, CutAfterIs
  <2> QED
    BY <1>1, <2>2, <2>3, <2>4
<1>3. p \in Nat
  BY <1>1
<1> QED
  BY <1>1, <1>2, <1>3, CutBeforeIs

-----------------------------------------------------------------------------
(* The tokens of a body, and the statement they become *)

TokenRec == [kind : TokenKinds, start : Nat, end : Nat]
CommentRec == [text : Seq(STRING), start : Nat]
StatementRec ==
    [text : Seq(STRING), start : Nat, end : Nat, comments : Seq(CommentRec),
     tokens : Seq([kind : TokenKinds, start : Int, end : Int])]

\* A byte may be in a token of this kind.
Fits(t, dialect, reg, kind, i) ==
    CASE kind \in {"word", "punct"} -> reg[i] = 0
      [] kind = "comment" -> IsCommentRegion(t, dialect, reg[i])
      [] OTHER -> reg[i] # 0 /\ ~IsCommentRegion(t, dialect, reg[i])

TokenFits(t, dialect, reg, tok) ==
    /\ tok.start < tok.end
    /\ \A i \in tok.start..tok.end - 1 : Fits(t, dialect, reg, tok.kind, i)
    /\ tok.kind # "comment" => ~IsSpace(t[tok.end - 1])

\* The tokens of the bytes from `from' up to `upto'.
Tokenized(t, dialect, reg, toks, from, upto) ==
    /\ toks \in Seq(TokenRec)
    /\ \A k \in DOMAIN toks :
          /\ TokenFits(t, dialect, reg, toks[k])
          /\ from <= toks[k].start /\ toks[k].end <= upto
          /\ k > 1 => toks[k - 1].end <= toks[k].start
    /\ \A i \in from..upto - 1 :
          (\A k \in DOMAIN toks : i \notin toks[k].start..toks[k].end - 1) => IsSpace(t[i])

LEMMA TokenizedNext ==
    ASSUME NEW t, NEW dialect, NEW reg, NEW toks, NEW from \in Nat, NEW p \in Nat, from <= p,
           Tokenized(t, dialect, reg, toks, from, p),
           NEW tok \in TokenRec, tok.start = p, TokenFits(t, dialect, reg, tok)
    PROVE  Tokenized(t, dialect, reg, Append(toks, tok), from, tok.end)
<1>1. PICK n \in Nat : n = Len(toks) /\ DOMAIN toks = 1..n /\ toks \in Seq(TokenRec)
  BY DEF Tokenized
<1>2. PICK new : new = Append(toks, tok)
  OBVIOUS
<1>3. /\ new \in Seq(TokenRec) /\ DOMAIN new = 1..n + 1 /\ new[n + 1] = tok
      /\ \A k \in 1..n : new[k] = toks[k]
  BY <1>1, <1>2
<1>4. tok.end \in Nat /\ tok.end > p
  BY DEF TokenRec, TokenFits
<1>5. ASSUME NEW k \in DOMAIN new
      PROVE  /\ TokenFits(t, dialect, reg, new[k])
             /\ from <= new[k].start /\ new[k].end <= tok.end
             /\ k > 1 => new[k - 1].end <= new[k].start
  <2>1. CASE k = n + 1
    <3>1. k > 1 => k - 1 \in 1..n /\ new[k - 1] = toks[k - 1]
      BY <1>3, <2>1
    <3>2. k > 1 => toks[k - 1].end <= p
      BY <1>1, <3>1 DEF Tokenized
    <3> QED
      BY <1>3, <1>4, <2>1, <3>1, <3>2
  <2>2. CASE k # n + 1
    <3>1. k \in 1..n /\ new[k] = toks[k] /\ toks[k] \in TokenRec
      BY <1>1, <1>3, <2>2
    <3>2. k > 1 => new[k - 1] = toks[k - 1]
      BY <1>3, <3>1
    <3>3. /\ TokenFits(t, dialect, reg, toks[k])
          /\ from <= toks[k].start /\ toks[k].end <= p
          /\ k > 1 => toks[k - 1].end <= toks[k].start
      BY <1>1, <3>1 DEF Tokenized
    <3>4. toks[k].end <= tok.end
      BY <1>4, <3>1, <3>3 DEF TokenRec
    <3> QED
      BY <3>1, <3>2, <3>3, <3>4
  <2> QED
    BY <2>1, <2>2
<1>6. ASSUME NEW i \in from..tok.end - 1,
             \A k \in DOMAIN new : i \notin new[k].start..new[k].end - 1
      PROVE  IsSpace(t[i])
  <2>1. i \notin p..tok.end - 1
    BY <1>3, <1>6
  <2>2. i \in from..p - 1
    BY <1>4, <2>1
  <2>3. \A k \in DOMAIN toks : i \notin toks[k].start..toks[k].end - 1
    BY <1>1, <1>3, <1>6
  <2> QED
    BY <2>2, <2>3 DEF Tokenized
<1> QED
  BY <1>2, <1>3, <1>5, <1>6 DEF Tokenized

LEMMA TokenizedSpace ==
    ASSUME NEW t, NEW dialect, NEW reg, NEW toks, NEW from \in Nat, NEW p \in Nat, from <= p,
           Tokenized(t, dialect, reg, toks, from, p), IsSpace(t[p])
    PROVE  Tokenized(t, dialect, reg, toks, from, p + 1)
<1>1. ASSUME NEW k \in DOMAIN toks PROVE toks[k].end <= p + 1
  <2>1. toks[k] \in TokenRec /\ toks[k].end <= p
    BY DEF Tokenized
  <2> QED
    BY <2>1 DEF TokenRec
<1>2. ASSUME NEW i \in from..p + 1 - 1,
             \A k \in DOMAIN toks : i \notin toks[k].start..toks[k].end - 1
      PROVE  IsSpace(t[i])
  <2>1. i = p \/ i \in from..p - 1
    OBVIOUS
  <2> QED
    BY <1>2, <2>1 DEF Tokenized
<1> QED
  BY <1>1, <1>2 DEF Tokenized

\* What is left of a body that begins with a solid byte.
LEMMA TrimIs ==
    ASSUME NEW t \in Seq(STRING), NEW a \in DOMAIN t, NEW b \in a + 1..Len(t) + 1, ~IsSpace(t[a])
    PROVE  LET u == Trim(SubSeq(t, a, b - 1))
               last == Max({j \in a..b - 1 : ~IsSpace(t[j])})
           IN  /\ u \in Seq(STRING) /\ u # << >> /\ a + Len(u) = last + 1
               /\ last \in a..b - 1 /\ \A j \in a..b - 1 : ~IsSpace(t[j]) => j <= last
<1>1. PICK N \in Nat : N = Len(t) /\ DOMAIN t = 1..N
  OBVIOUS
<1>2. a \in 1..N /\ b \in a + 1..N + 1
  BY <1>1
<1>3. PICK v : v = SubSeq(t, a, b - 1)
  OBVIOUS
<1>4. v \in Seq(STRING) /\ Len(v) = b - a /\ DOMAIN v = 1..b - a /\ \A i \in 1..b - a : v[i] = t[a + i - 1]
  BY <1>1, <1>2, <1>3
<1>5. PICK L : L = {j \in a..b - 1 : ~IsSpace(t[j])}
  OBVIOUS
<1>6. a \in L /\ L \subseteq 0..N
  BY <1>2, <1>5
<1>7. PICK last : last = Max(L)
  OBVIOUS
<1>8. last \in L /\ \A k \in L : last >= k
  BY <1>1, <1>6, <1>7, MaxIs
<1>9. PICK solid : solid = {i \in DOMAIN v : ~IsSpace(v[i])}
  OBVIOUS
<1>10. \A i \in 1..b - a : i \in solid <=> a + i - 1 \in L
  BY <1>2, <1>4, <1>5, <1>9
<1>11. solid \subseteq 1..b - a /\ solid \subseteq Int
  BY <1>4, <1>9
<1>12. Min(solid) = 1
  <2>1. 1 \in 1..b - a /\ a + 1 - 1 = a
    BY <1>2
  <2>2. 1 \in solid
    BY <1>6, <1>10, <2>1
  <2>3. \A k \in solid : 1 <= k
    BY <1>2, <1>11
  <2> QED
    BY <1>11, <2>2, <2>3, MinEq
<1>13. PICK m : m = last - a + 1
  OBVIOUS
<1>14. last \in a..b - 1 /\ m \in 1..b - a /\ a + m - 1 = last
  BY <1>2, <1>5, <1>8, <1>13
<1>15. Max(solid) = m /\ solid # {}
  <2>1. m \in solid
    BY <1>8, <1>10, <1>14
  <2>2. ASSUME NEW k \in solid PROVE m >= k
    <3>1. k \in 1..b - a /\ a + k - 1 \in L
      BY <1>10, <1>11
    <3>2. last >= a + k - 1
      BY <1>8, <3>1
    <3> QED
      BY <1>2, <1>14, <3>1, <3>2
  <2> QED
    BY <1>11, <2>1, <2>2, MaxEq
<1>16. Trim(v) = SubSeq(v, 1, m)
  BY <1>9, <1>12, <1>15 DEF Trim
<1>17. SubSeq(v, 1, m) \in Seq(STRING) /\ Len(SubSeq(v, 1, m)) = m
  BY <1>4, <1>14
<1>18. SubSeq(v, 1, m) # << >>
  <2>1. m >= 1
    BY <1>2, <1>14
  <2>2. Len(<< >>) = 0
    OBVIOUS
  <2>3. Len(SubSeq(v, 1, m)) # 0
    BY <1>17, <2>1
  <2> QED
    BY <2>2, <2>3, Zenon
<1>19. a + m = last + 1
  BY <1>2, <1>14, SMTT(30)
<1>20. \A j \in a..b - 1 : ~IsSpace(t[j]) => j <= last
  BY <1>2, <1>5, <1>8, <1>14
<1> QED
  BY <1>3, <1>5, <1>7, <1>14, <1>16, <1>17, <1>18, <1>19, <1>20

\* TokensTile, of one statement.
Tiled(t, dialect, reg, s) ==
    LET bytes(tok) == s.start + tok.start..s.start + tok.end - 1
    IN  /\ \A k \in DOMAIN s.tokens :
              /\ k > 1 => s.tokens[k - 1].end <= s.tokens[k].start
              /\ \A i \in bytes(s.tokens[k]) : Fits(t, dialect, reg, s.tokens[k].kind, i)
        /\ \A i \in s.start..s.end - 1 :
              (\A k \in DOMAIN s.tokens : i \notin bytes(s.tokens[k])) => IsSpace(t[i])
        /\ \A k \in DOMAIN s.tokens :
              s.tokens[k].kind # "comment" => s.start + s.tokens[k].end <= s.end

\* Tokens counted from a.
Shifted(toks, a) ==
    [k \in DOMAIN toks |->
        [kind |-> toks[k].kind, start |-> toks[k].start - a, end |-> toks[k].end - a]]

LEMMA TiledIs ==
    ASSUME NEW t, NEW dialect, NEW reg, NEW toks, NEW a \in Nat, NEW b \in Nat,
           Tokenized(t, dialect, reg, toks, a, b),
           NEW last \in a..b - 1, \A j \in a..b - 1 : ~IsSpace(t[j]) => j <= last,
           NEW s, s.start = a, s.end = last + 1, s.tokens = Shifted(toks, a)
    PROVE  /\ Tiled(t, dialect, reg, s)
           /\ s.tokens \in Seq([kind : TokenKinds, start : Int, end : Int])
<1>1. PICK n \in Nat : n = Len(toks) /\ DOMAIN toks = 1..n /\ toks \in Seq(TokenRec) /\ \A k \in 1..n : toks[k] \in TokenRec
  BY DEF Tokenized
<1>3. PICK rel : rel = s.tokens
  OBVIOUS
<1>4. /\ DOMAIN rel = 1..n
      /\ \A k \in 1..n :
            rel[k] = [kind |-> toks[k].kind, start |-> toks[k].start - a, end |-> toks[k].end - a]
  BY <1>1, <1>3 DEF Shifted
<1>5. rel = [k \in 1..n |-> rel[k]]
  BY <1>1, <1>3 DEF Shifted
<1>6. \A k \in 1..n : /\ rel[k].kind = toks[k].kind /\ rel[k].kind \in TokenKinds
                      /\ rel[k].start = toks[k].start - a /\ rel[k].end = toks[k].end - a
                      /\ toks[k].start \in Nat /\ toks[k].end \in Nat
                      /\ a + rel[k].start = toks[k].start /\ a + rel[k].end = toks[k].end
  <2> TAKE k \in 1..n
  <2>1. toks[k] \in TokenRec
    BY <1>1
  <2>2. a \in Int
    OBVIOUS
  <2> QED
    BY <1>4, <2>1, <2>2 DEF TokenRec
<1>7. rel \in Seq([kind : TokenKinds, start : Int, end : Int])
  <2>1. \A k \in 1..n : rel[k] \in [kind : TokenKinds, start : Int, end : Int]
    <3> TAKE k \in 1..n
    <3>1. a \in Int
      OBVIOUS
    <3>2. /\ toks[k].kind \in TokenKinds
          /\ toks[k].start - a \in Int /\ toks[k].end - a \in Int
      BY <1>6, <3>1
    <3> QED
      BY <1>4, <3>2
  <2> QED
    BY <1>1, <1>4, <1>5, <2>1
<1>9. ASSUME NEW k \in 1..n
      PROVE  /\ k > 1 => rel[k - 1].end <= rel[k].start
             /\ \A i \in s.start + rel[k].start..s.start + rel[k].end - 1 : Fits(t, dialect, reg, rel[k].kind, i)
             /\ rel[k].kind # "comment" => s.start + rel[k].end <= s.end
  <2>1. /\ TokenFits(t, dialect, reg, toks[k]) /\ a <= toks[k].start /\ toks[k].end <= b
        /\ k > 1 => toks[k - 1].end <= toks[k].start
    BY <1>1 DEF Tokenized
  <2>0. /\ rel[k].kind = toks[k].kind /\ rel[k].start = toks[k].start - a /\ rel[k].end = toks[k].end - a
        /\ toks[k].start \in Nat /\ toks[k].end \in Nat /\ a \in Nat /\ b \in Nat
        /\ s.start + rel[k].start = toks[k].start /\ s.start + rel[k].end = toks[k].end
    BY <1>6
  <2>2. k > 1 => rel[k - 1].end <= rel[k].start
    <3> SUFFICES ASSUME k > 1 PROVE rel[k - 1].end <= rel[k].start
      OBVIOUS
    <3>1. k - 1 \in 1..n
      OBVIOUS
    <3>2. rel[k - 1].end = toks[k - 1].end - a /\ toks[k - 1].end \in Nat
      BY <1>6, <3>1
    <3>3. a \in Int
      OBVIOUS
    <3>4. PICK x, y : x = toks[k - 1].end /\ y = toks[k].start /\ x <= y /\ x \in Nat /\ y \in Nat
      BY <2>0, <2>1, <3>2
    <3>5. x - a <= y - a
      BY <3>3, <3>4
    <3> QED
      BY <2>0, <3>2, <3>4, <3>5
  <2>3. \A i \in s.start + rel[k].start..s.start + rel[k].end - 1 : Fits(t, dialect, reg, rel[k].kind, i)
    BY <2>0, <2>1 DEF TokenFits
  <2>4. rel[k].kind # "comment" => s.start + rel[k].end <= s.end
    <3> SUFFICES ASSUME rel[k].kind # "comment" PROVE s.start + rel[k].end <= s.end
      OBVIOUS
    <3>1. ~IsSpace(t[toks[k].end - 1]) /\ toks[k].start < toks[k].end
      BY <2>0, <2>1 DEF TokenFits
    <3>2. toks[k].end - 1 \in a..b - 1
      BY <2>0, <2>1, <3>1
    <3>3. toks[k].end - 1 <= last
      BY <3>1, <3>2
    <3> QED
      BY <2>0, <3>3
  <2> QED
    BY <2>2, <2>3, <2>4
<1>10. ASSUME NEW i \in s.start..s.end - 1,
              \A k \in 1..n : i \notin s.start + rel[k].start..s.start + rel[k].end - 1
       PROVE  IsSpace(t[i])
  <2>1. i \in a..b - 1
    OBVIOUS
  <2>2. ASSUME NEW k \in 1..n PROVE i \notin toks[k].start..toks[k].end - 1
    <3>1. PICK x, y \in Int : x = rel[k].start /\ y = rel[k].end /\ a + x = toks[k].start /\ a + y = toks[k].end
      BY <1>6
    <3>2. i \notin a + x..a + y - 1
      BY <1>10, <3>1
    <3> QED
      BY <3>1, <3>2
  <2> QED
    BY <1>1, <2>1, <2>2 DEF Tokenized
<1> QED
  BY <1>3, <1>4, <1>7, <1>9, <1>10 DEF Tiled

-----------------------------------------------------------------------------
(* The inductive invariant *)

\* The comments that wait at p for a statement.
CommentsInv(t, dialect, reg, cs, p) ==
    /\ cs \in Seq(CommentRec)
    /\ \A k, l \in DOMAIN cs : k < l => cs[k].start < cs[l].start
    /\ {cs[k].start : k \in DOMAIN cs} = CommentsBefore(t, dialect, reg, p)

StatementOK(t, dialect, reg, s) ==
    /\ s.start \in Firsts(t, dialect, reg) /\ s.end = EndOf(t, reg, s.start)
    /\ CommentsInv(t, dialect, reg, s.comments, s.start)
    /\ Tiled(t, dialect, reg, s)

\* The statements that begin before p.
StatementsInv(t, dialect, reg, ss, p) ==
    /\ ss \in Seq(StatementRec)
    /\ \A k \in DOMAIN ss : StatementOK(t, dialect, reg, ss[k]) /\ ss[k].start < p
    /\ \A k, l \in DOMAIN ss : k < l => ss[k].start < ss[l].start
    /\ \A f \in Firsts(t, dialect, reg) : f < p => \E k \in DOMAIN ss : ss[k].start = f

BodyInv(t, dialect, reg) ==
    /\ start \in Solid(t, dialect, reg) /\ start <= pos
    /\ Settled(t, dialect, reg, start)
    /\ \A i \in start..pos - 1 : i \notin Cuts(t, reg)
    /\ Tokenized(t, dialect, reg, tokens, start, pos)
    /\ CommentsInv(t, dialect, reg, leading, start)

ScanInv(t, dialect, reg) ==
    /\ pc \in {"between", "body", "done", "failed"}
    /\ pc = "failed" => LeftOpen(t, dialect, reg)
    /\ pc = "done" => pos = Len(t) + 1
    /\ pc # "failed" =>
          /\ Fresh(t, dialect, reg, pos)
          /\ StatementsInv(t, dialect, reg, statements, IF pc = "body" THEN start ELSE pos)
    /\ pc = "between" =>
          /\ pos <= Len(t) => Settled(t, dialect, reg, pos)
          /\ CommentsInv(t, dialect, reg, pending, pos)
    /\ pc = "body" => BodyInv(t, dialect, reg)

-----------------------------------------------------------------------------
(* Between statements *)

LEMMA StatementsMove ==
    ASSUME NEW t, NEW dialect, NEW reg, Scanned(t, dialect, reg), NEW ss, NEW p \in Nat, NEW q \in Nat, p <= q,
           StatementsInv(t, dialect, reg, ss, p), \A f \in Firsts(t, dialect, reg) : f < q => f < p
    PROVE  StatementsInv(t, dialect, reg, ss, q)
<1>1. ASSUME NEW k \in DOMAIN ss PROVE ss[k].start < q
  <2>1. ss[k].start < p /\ ss[k] \in StatementRec
    BY DEF StatementsInv
  <2> QED
    BY <2>1 DEF StatementRec
<1> QED
  BY <1>1 DEF StatementsInv

\* Nothing solid is passed over.
LEMMA Passed ==
    ASSUME NEW t, NEW dialect, NEW reg, Scanned(t, dialect, reg),
           NEW p \in DOMAIN t, NEW e \in p + 1..Len(t) + 1,
           \A i \in p..e - 1 : i \notin Solid(t, dialect, reg),
           Settled(t, dialect, reg, p)
    PROVE  /\ Settled(t, dialect, reg, e)
           /\ \A f \in Firsts(t, dialect, reg) : f < e => f < p
           /\ CommentsBefore(t, dialect, reg, e) =
                 CommentsBefore(t, dialect, reg, p)
                     \cup {i \in InComment(t, dialect, reg) : i \in p..e - 1 /\ reg[i] = i}
<1>1. PICK N \in Nat : N = Len(t) /\ DOMAIN t = 1..N /\ t \in Seq(STRING)
  BY DEF Scanned
<1>2. ASSUME NEW j \in Solid(t, dialect, reg), j < e PROVE j < p
  <2>1. j \in 1..N
    BY <1>1, FirstsAre
  <2>2. j \notin p..e - 1
    OBVIOUS
  <2> QED
    BY <1>1, <1>2, <2>1, <2>2
<1>3. \A f \in Firsts(t, dialect, reg) : f < e => f < p
  BY <1>2, FirstsAre
<1>4. Settled(t, dialect, reg, e)
  <2>1. ASSUME NEW j \in Solid(t, dialect, reg), j < e
        PROVE  \E c \in Cuts(t, reg) : j <= c /\ c < e
    <3>1. PICK c \in Cuts(t, reg) : j <= c /\ c < p
      BY <1>2, <2>1 DEF Settled
    <3>2. c \in 1..N
      BY <1>1, FirstsAre
    <3>3. c < e
      BY <1>1, <3>1, <3>2
    <3> QED
      BY <3>1, <3>3
  <2> QED
    BY <2>1 DEF Settled
<1>5. PICK b : b = CutBefore(t, dialect, reg, p) /\ b \in 0..N + 1 /\ b < p
  <2>1. p \in Nat
    BY <1>1
  <2>2. CutBefore(t, dialect, reg, p) \in 0..N + 1
    BY <1>1, <2>1, CutBeforeIs
  <2> QED
    BY <1>1, <2>2, SettledIs
<1>6. CutBefore(t, dialect, reg, e) = b
  <2>1. \A f \in Firsts(t, dialect, reg) : f < p => f < e
    <3> SUFFICES ASSUME NEW f \in Firsts(t, dialect, reg), f < p PROVE f < e
      OBVIOUS
    <3>1. f \in 1..N
      BY <1>1, FirstsAre
    <3> QED
      BY <1>1, <3>1
  <2>2. CutBefore(t, dialect, reg, p) = CutBefore(t, dialect, reg, e)
    BY <1>3, <2>1, CutBeforeSame
  <2> QED
    BY <1>5, <2>2
<1>7. ASSUME NEW c \in InComment(t, dialect, reg)
      PROVE  c \in b + 1..e - 1 <=> c \in b + 1..p - 1 \/ c \in p..e - 1
  <2>1. c \in 1..N
    BY <1>1, FirstsAre
  <2> QED
    BY <1>1, <1>5, <2>1
<1>8. CommentsBefore(t, dialect, reg, e) =
                 CommentsBefore(t, dialect, reg, p)
                     \cup {i \in InComment(t, dialect, reg) : i \in p..e - 1 /\ reg[i] = i}
  BY <1>5, <1>6, <1>7 DEF CommentsBefore
<1> QED
  BY <1>3, <1>4, <1>8

LEMMA CommentsNext ==
    ASSUME NEW t, NEW dialect, NEW reg, Scanned(t, dialect, reg), NEW cs, NEW p \in DOMAIN t, NEW q,
           CommentsInv(t, dialect, reg, cs, p), NEW c \in CommentRec, c.start = p,
           CommentsBefore(t, dialect, reg, q) = CommentsBefore(t, dialect, reg, p) \cup {p}
    PROVE  CommentsInv(t, dialect, reg, Append(cs, c), q)
<1>1. PICK n \in Nat : n = Len(cs) /\ DOMAIN cs = 1..n /\ cs \in Seq(CommentRec)
  BY DEF CommentsInv
<1>2. PICK new : new = Append(cs, c)
  OBVIOUS
<1>3. /\ new \in Seq(CommentRec) /\ DOMAIN new = 1..n + 1 /\ new[n + 1] = c
      /\ \A k \in 1..n : new[k] = cs[k]
  BY <1>1, <1>2
<1>4. ASSUME NEW k \in 1..n PROVE cs[k].start < p
  <2>1. cs[k].start \in CommentsBefore(t, dialect, reg, p)
    BY <1>1 DEF CommentsInv
  <2>2. p \in Nat
    BY DEF Scanned
  <2>3. cs[k].start \in CutBefore(t, dialect, reg, p) + 1..p - 1 /\ CutBefore(t, dialect, reg, p) \in Int
    <3>1. t \in Seq(STRING)
      BY DEF Scanned
    <3> QED
      BY <2>1, <2>2, <3>1, CutBeforeIs DEF CommentsBefore
  <2> QED
    BY <2>2, <2>3
<1>5. ASSUME NEW k \in DOMAIN new, NEW l \in DOMAIN new, k < l PROVE new[k].start < new[l].start
  <2>1. k \in 1..n /\ new[k] = cs[k]
    BY <1>3, <1>5
  <2>2. CASE l = n + 1
    BY <1>3, <1>4, <2>1, <2>2
  <2>3. CASE l # n + 1
    <3>1. l \in 1..n /\ new[l] = cs[l]
      BY <1>3, <2>3
    <3> QED
      BY <1>1, <1>5, <2>1, <3>1 DEF CommentsInv
  <2> QED
    BY <2>2, <2>3
<1>6. {new[k].start : k \in DOMAIN new} = {cs[k].start : k \in DOMAIN cs} \cup {p}
  <2>1. ASSUME NEW k \in DOMAIN new PROVE new[k].start \in {cs[l].start : l \in DOMAIN cs} \cup {p}
    BY <1>1, <1>3
  <2>2. ASSUME NEW l \in DOMAIN cs PROVE \E k \in DOMAIN new : new[k].start = cs[l].start
    BY <1>1, <1>3
  <2>3. n + 1 \in DOMAIN new /\ new[n + 1].start = p
    BY <1>3
  <2> QED
    BY <2>1, <2>2, <2>3
<1> QED
  BY <1>2, <1>3, <1>5, <1>6 DEF CommentsInv

LEMMA NoCommentHere ==
    ASSUME NEW t \in Seq(STRING), NEW dialect, NEW p \in DOMAIN t, CommentEnd(t, dialect, p) = 0
    PROVE  RegionAt(t, dialect, p) \notin {"line", "block"}
<1>1. PICK N \in Nat : N = Len(t) /\ DOMAIN t = 1..N
  OBVIOUS
<1>2. p \in 1..N
  BY <1>1
<1>3. LineEnd(t, p) # 0
  <2>1. PICK hits : hits = {j \in p..N : t[j] = "nl"}
    OBVIOUS
  <2>2. LineEnd(t, p) = First(hits, N)
    BY <1>1, <2>1 DEF LineEnd, FirstFrom, First
  <2>3. hits \subseteq p..N /\ p \in 1..N + 1
    BY <1>2, <2>1
  <2>4. First(hits, N) \in p..N + 1
    BY <2>3, FirstIs
  <2> QED
    BY <1>2, <2>2, <2>4
<1>4. Starts(t, p, <<"/", "*">>) => BlockEnd(t, p) # 0
  <2> SUFFICES ASSUME Starts(t, p, <<"/", "*">>) PROVE BlockEnd(t, p) # 0
    OBVIOUS
  <2>1. p + 1 \in 1..N
    BY <1>1, <1>2, StartsTwo
  <2>2. PICK hits : hits = {j \in p + 2..N : Starts(t, j, <<"*", "/">>)}
    OBVIOUS
  <2>3. PICK close : close = First(hits, N)
    OBVIOUS
  <2>4. BlockEnd(t, p) = IF close > N THEN close ELSE close + 2
    BY <1>1, <2>2, <2>3 DEF BlockEnd, FirstFrom, First
  <2>5. hits \subseteq p + 2..N /\ p + 2 \in 1..N + 1
    BY <1>2, <2>1, <2>2
  <2>6. close \in p + 2..N + 1
    BY <2>3, <2>5, FirstIs
  <2> QED
    BY <1>2, <2>4, <2>6
<1> QED
  BY <1>3, <1>4, RegionAtIs

LEMMA CodeHere ==
    ASSUME NEW t \in Seq(STRING), NEW dialect, NEW p \in DOMAIN t,
           RegionAt(t, dialect, p) \notin {"line", "block"}, ~QuoteOpens(dialect, t[p]),
           dialect = "postgres" => DollarTag(t, p) = << >>
    PROVE  RegionAt(t, dialect, p) = "code"
  BY RegionAtIs

LEMMA CommentHere ==
    ASSUME NEW t, NEW dialect, NEW p \in Int, CommentEnd(t, dialect, p) # 0
    PROVE  p \in DOMAIN t
<1>1. Starts(t, p, <<"-", "-">>) => p \in DOMAIN t
  BY StartsTwo
<1>2. Starts(t, p, <<"/", "*">>) => p \in DOMAIN t
  BY StartsTwo
<1>3. At(t, p) = "#" => p \in DOMAIN t
  BY AtIs
<1> QED
  BY <1>1, <1>2, <1>3 DEF CommentEnd

\* Every step of Split leaves the source as it is.
LEMMA SkipSpaceKeeps ==
    ASSUME NEW t, NEW dialect, NEW reg, Scanned(t, dialect, reg), t = text, dialect = src.dialect,
           ScanInv(t, dialect, reg), SkipSpace
    PROVE  ScanInv(t, dialect, reg)'
<1>1. PICK N \in Nat : N = Len(t) /\ DOMAIN t = 1..N /\ t \in Seq(STRING)
  BY DEF Scanned
<1>2. PICK p : p = pos
  OBVIOUS
<1>3. /\ pc \in {"between", "body"} /\ IsSpace(At(t, p)) /\ pos' = p + 1
      /\ pc' = pc /\ pending' = pending /\ start' = start /\ leading' = leading
      /\ tokens' = tokens /\ statements' = statements
  BY <1>2 DEF SkipSpace, Here, body
<1>4. p \in 1..N /\ IsSpace(t[p])
  BY <1>1, <1>3 DEF IsSpace, At
<1>5. Fresh(t, dialect, reg, p) /\ p # N + 1
  BY <1>1, <1>2, <1>3, <1>4 DEF ScanInv
<1>6. reg[p] = 0 /\ Fresh(t, dialect, reg, p + 1)
  <2>1. t[p] \notin {"-", "#", "/", "sq", "dq", "bt", "[", "$"}
    BY <1>4 DEF IsSpace
  <2> QED
    BY <1>1, <1>4, <1>5, <2>1, PlainIsCode, CodeIs
<1>7. p + 1 \in p + 1..Len(t) + 1 /\ p \in Nat /\ p + 1 \in Nat /\ p + 1 - 1 = p
  BY <1>1, <1>4
<1>8. p \notin Solid(t, dialect, reg) /\ p \notin Cuts(t, reg)
  BY <1>4 DEF Solid, Cuts, IsSpace
<1>9. CASE pc = "between"
  <2>1. /\ p <= Len(t) /\ Settled(t, dialect, reg, p) /\ CommentsInv(t, dialect, reg, pending, p)
        /\ StatementsInv(t, dialect, reg, statements, p)
    BY <1>1, <1>2, <1>4, <1>9 DEF ScanInv
  <2>2. \A i \in p..p + 1 - 1 : i = p
    BY <1>7
  <2>3. /\ Settled(t, dialect, reg, p + 1)
        /\ \A f \in Firsts(t, dialect, reg) : f < p + 1 => f < p
        /\ CommentsBefore(t, dialect, reg, p + 1) =
              CommentsBefore(t, dialect, reg, p)
                     \cup {i \in InComment(t, dialect, reg) : i \in p..p + 1 - 1 /\ reg[i] = i}
    <3>1. \A i \in p..p + 1 - 1 : i \notin Solid(t, dialect, reg)
      BY <1>8, <2>2
    <3> QED
      BY <1>1, <1>4, <1>7, <2>1, <3>1, Passed
  <2>4. CommentsBefore(t, dialect, reg, p + 1) = CommentsBefore(t, dialect, reg, p)
    <3>1. p \notin InComment(t, dialect, reg)
      BY <1>6 DEF InComment, IsCommentRegion
    <3> QED
      BY <2>2, <2>3, <3>1
  <2>5. CommentsInv(t, dialect, reg, pending, p + 1)
    BY <2>1, <2>4 DEF CommentsInv
  <2>6. StatementsInv(t, dialect, reg, statements, p + 1)
    BY <1>7, <2>1, <2>3, StatementsMove
  <2> QED
    BY <1>3, <1>6, <1>9, <2>3, <2>5, <2>6 DEF ScanInv
<1>10. CASE pc = "body"
  <2>1. BodyInv(t, dialect, reg) /\ StatementsInv(t, dialect, reg, statements, start)
    BY <1>10 DEF ScanInv
  <2>2. start \in Nat /\ start <= p
    BY <1>1, <1>2, <2>1, FirstsAre DEF BodyInv
  <2>3. Tokenized(t, dialect, reg, tokens, start, p + 1)
    BY <1>2, <1>4, <1>7, <2>1, <2>2, TokenizedSpace DEF BodyInv
  <2>4. PICK q \in Nat : q = p + 1 /\ q = pos'
    BY <1>3, <1>7
  <2>5. BodyInv(t, dialect, reg)'
    <3>1. start <= q
      BY <1>7, <2>2, <2>4
    <3>2. \A i \in start..q - 1 : i \notin Cuts(t, reg)
      <4>1. \A i \in start..q - 1 : i = p \/ i \in start..p - 1
        BY <1>7, <2>2, <2>4
      <4> QED
        BY <1>2, <1>8, <2>1, <4>1 DEF BodyInv
    <3>3. Tokenized(t, dialect, reg, tokens, start, q)
      BY <2>3, <2>4
    <3> QED
      BY <1>3, <2>1, <2>4, <3>1, <3>2, <3>3 DEF BodyInv
  <2> QED
    BY <1>3, <1>6, <1>10, <2>1, <2>5 DEF ScanInv
<1> QED
  BY <1>3, <1>9, <1>10

LEMMA TakeCommentKeeps ==
    ASSUME NEW t, NEW dialect, NEW reg, Scanned(t, dialect, reg), t = text, dialect = src.dialect,
           ScanInv(t, dialect, reg), TakeComment
    PROVE  ScanInv(t, dialect, reg)'
<1>1. PICK N \in Nat : N = Len(t) /\ DOMAIN t = 1..N /\ t \in Seq(STRING)
  BY DEF Scanned
<1>2. PICK p, e : p = pos /\ e = CommentEnd(t, dialect, p)
  OBVIOUS
<1>3. PICK c : c = [text |-> SubSeq(t, p, e - 1), start |-> p]
  OBVIOUS
<1>4. /\ pc = "between" /\ e # 0 /\ pos' = e /\ pending' = Append(pending, c)
      /\ pc' = pc /\ start' = start /\ leading' = leading
      /\ tokens' = tokens /\ statements' = statements
  BY <1>2, <1>3 DEF TakeComment, CommentEndHere, body
<1>5. /\ Fresh(t, dialect, reg, p) /\ CommentsInv(t, dialect, reg, pending, p)
      /\ p <= Len(t) => Settled(t, dialect, reg, p)
      /\ StatementsInv(t, dialect, reg, statements, p)
  BY <1>2, <1>4 DEF ScanInv
<1>6. p \in 1..N
  <2>1. p \in Int
    BY <1>1, <1>5 DEF Fresh
  <2> QED
    BY <1>1, <1>2, <1>4, <2>1, CommentHere
<1>7. /\ e \in p + 1..Len(t) + 1 /\ RegionAt(t, dialect, p) \in {"line", "block"}
      /\ \A i \in p..e - 1 : reg[i] = p
      /\ Fresh(t, dialect, reg, e)
  BY <1>1, <1>2, <1>4, <1>5, <1>6, CommentIs
<1>8. \A i \in p..e - 1 : i \in InComment(t, dialect, reg) /\ i \notin Solid(t, dialect, reg)
  <2>1. \A i \in p..e - 1 : i \in 1..N
    BY <1>1, <1>6, <1>7
  <2>2. IsCommentRegion(t, dialect, p)
    BY <1>6, <1>7 DEF IsCommentRegion
  <2> QED
    BY <1>1, <1>7, <2>1, <2>2 DEF InComment, Solid
<1>9. /\ Settled(t, dialect, reg, e)
      /\ \A f \in Firsts(t, dialect, reg) : f < e => f < p
      /\ CommentsBefore(t, dialect, reg, e) =
                 CommentsBefore(t, dialect, reg, p)
                     \cup {i \in InComment(t, dialect, reg) : i \in p..e - 1 /\ reg[i] = i}
  <2>1. p <= Len(t)
    BY <1>1, <1>6
  <2> QED
    BY <1>1, <1>5, <1>6, <1>7, <1>8, <2>1, Passed
<1>10. {i \in InComment(t, dialect, reg) : i \in p..e - 1 /\ reg[i] = i} = {p}
  <2>1. p \in p..e - 1
    BY <1>1, <1>6, <1>7
  <2> QED
    BY <1>7, <1>8, <2>1
<1>11. c \in CommentRec /\ c.start = p
  <2>1. SubSeq(t, p, e - 1) \in Seq(STRING)
    BY <1>1, <1>6, <1>7
  <2> QED
    BY <1>3, <1>6, <2>1 DEF CommentRec
<1>12. CommentsInv(t, dialect, reg, Append(pending, c), e)
  BY <1>1, <1>5, <1>6, <1>9, <1>10, <1>11, CommentsNext
<1>13. StatementsInv(t, dialect, reg, statements, e)
  <2>1. p \in Nat /\ e \in Nat /\ p <= e
    BY <1>1, <1>6, <1>7
  <2> QED
    BY <1>5, <1>9, <2>1, StatementsMove
<1> QED
  BY <1>4, <1>7, <1>9, <1>12, <1>13 DEF ScanInv

LEMMA BeginBodyKeeps ==
    ASSUME NEW t, NEW dialect, NEW reg, Scanned(t, dialect, reg), t = text, dialect = src.dialect,
           ScanInv(t, dialect, reg), BeginBody
    PROVE  ScanInv(t, dialect, reg)'
<1>1. PICK N \in Nat : N = Len(t) /\ DOMAIN t = 1..N /\ t \in Seq(STRING)
  BY DEF Scanned
<1>2. PICK p : p = pos
  OBVIOUS
<1>3. /\ pc = "between" /\ ~(p > N) /\ ~IsSpace(At(t, p)) /\ CommentEnd(t, dialect, p) = 0
      /\ pc' = "body" /\ pos' = p /\ start' = p /\ leading' = pending
      /\ tokens' = << >> /\ statements' = statements
  BY <1>1, <1>2 DEF BeginBody, Ended, Here, CommentEndHere, body
<1>4. /\ Fresh(t, dialect, reg, p) /\ CommentsInv(t, dialect, reg, pending, p)
      /\ p <= Len(t) => Settled(t, dialect, reg, p)
      /\ StatementsInv(t, dialect, reg, statements, p)
  BY <1>2, <1>3 DEF ScanInv
<1>5. p \in 1..N /\ p <= Len(t)
  BY <1>1, <1>3, <1>4 DEF Fresh
<1>6. ~IsSpace(t[p])
  BY <1>1, <1>3, <1>5 DEF At
<1>7. p \in Solid(t, dialect, reg)
  <2>1. RegionAt(t, dialect, p) \notin {"line", "block"}
    BY <1>1, <1>3, <1>5, NoCommentHere
  <2>2. reg[p] \in {0, p}
    BY <1>1, <1>4, <1>5, FreshRegion
  <2>3. ~IsCommentRegion(t, dialect, reg[p])
    BY <2>1, <2>2 DEF IsCommentRegion
  <2> QED
    BY <1>1, <1>5, <1>6, <2>3 DEF Solid, InComment
<1>8. p..p - 1 = {}
  BY <1>5
<1>9. Tokenized(t, dialect, reg, << >>, p, p)
  BY <1>8 DEF Tokenized
<1>10. BodyInv(t, dialect, reg)'
  BY <1>3, <1>4, <1>5, <1>7, <1>8, <1>9 DEF BodyInv
<1> QED
  BY <1>3, <1>4, <1>10 DEF ScanInv

LEMMA EndOfTextKeeps ==
    ASSUME NEW t, NEW dialect, NEW reg, Scanned(t, dialect, reg), t = text, dialect = src.dialect,
           ScanInv(t, dialect, reg), EndOfText
    PROVE  ScanInv(t, dialect, reg)'
<1>1. PICK N \in Nat : N = Len(t)
  BY DEF Scanned
<1>2. pc = "between" /\ pos > N /\ pc' = "done" /\ pos' = pos /\ statements' = statements
  BY <1>1 DEF EndOfText, Ended
<1>3. Fresh(t, dialect, reg, pos) /\ StatementsInv(t, dialect, reg, statements, pos)
  BY <1>2 DEF ScanInv
<1>4. pos = Len(t) + 1
  BY <1>1, <1>2, <1>3 DEF Fresh
<1> QED
  BY <1>2, <1>3, <1>4 DEF ScanInv

-----------------------------------------------------------------------------
(* In a body *)

\* A token that fits, or a quote that nothing closes.
LEMMA TakeKeeps ==
    ASSUME NEW t, NEW dialect, NEW reg, Scanned(t, dialect, reg), t = text,
           ScanInv(t, dialect, reg), pc = "body", NEW kind \in TokenKinds, NEW e, Take(kind, e),
           pos \in DOMAIN t, e = 0 => LeftOpen(t, dialect, reg),
           e # 0 => /\ e \in pos + 1..Len(t) + 1 /\ Fresh(t, dialect, reg, e)
                    /\ TokenFits(t, dialect, reg, [kind |-> kind, start |-> pos, end |-> e])
                    /\ \A i \in pos..e - 1 : i \notin Cuts(t, reg)
    PROVE  ScanInv(t, dialect, reg)'
<1>1. PICK N \in Nat : N = Len(t) /\ DOMAIN t = 1..N
  BY DEF Scanned
<1>2. PICK p \in 1..N : p = pos
  BY <1>1
<1>3. CASE e = 0
  BY <1>3 DEF Take, ScanInv
<1>4. CASE e # 0
  <2>1. PICK tok : tok = [kind |-> kind, start |-> p, end |-> e]
    OBVIOUS
  <2>2. /\ pos' = e /\ tokens' = Append(tokens, tok) /\ pc' = pc /\ statements' = statements
        /\ start' = start /\ leading' = leading
    BY <1>2, <1>4, <2>1 DEF Take
  <2>3. /\ e \in p + 1..N + 1 /\ Fresh(t, dialect, reg, e) /\ TokenFits(t, dialect, reg, tok)
        /\ \A i \in p..e - 1 : i \notin Cuts(t, reg)
    BY <1>1, <1>2, <1>4, <2>1
  <2>4. BodyInv(t, dialect, reg) /\ StatementsInv(t, dialect, reg, statements, start)
    BY DEF ScanInv
  <2>5. start \in Nat /\ start <= p /\ Tokenized(t, dialect, reg, tokens, start, p)
    BY <1>1, <1>2, <2>4, FirstsAre DEF BodyInv
  <2>6. tok \in TokenRec /\ tok.start = p /\ tok.end = e
    BY <1>2, <2>1, <2>3 DEF TokenRec
  <2>7. Tokenized(t, dialect, reg, Append(tokens, tok), start, e)
    <3>1. p \in Nat
      BY <1>2
    <3>2. Tokenized(t, dialect, reg, Append(tokens, tok), start, tok.end)
      BY <2>3, <2>5, <2>6, <3>1, TokenizedNext
    <3> QED
      BY <2>6, <3>2
  <2>8. ASSUME NEW i \in start..e - 1 PROVE i \notin Cuts(t, reg)
    <3>1. i \in start..p - 1 \/ i \in p..e - 1
      BY <1>2, <2>3, <2>5
    <3> QED
      BY <1>2, <2>3, <2>4, <3>1 DEF BodyInv
  <2>9. start <= e
    BY <1>2, <2>3, <2>5
  <2>10. BodyInv(t, dialect, reg)'
    BY <2>2, <2>4, <2>7, <2>8, <2>9 DEF BodyInv
  <2> QED
    BY <2>2, <2>3, <2>4, <2>10 DEF ScanInv
<1> QED
  BY <1>3, <1>4

LEMMA AtTokenIs ==
    ASSUME NEW t, NEW dialect, NEW reg, Scanned(t, dialect, reg), t = text, dialect = src.dialect,
           ScanInv(t, dialect, reg), AtToken
    PROVE  /\ pc = "body" /\ pos \in DOMAIN t /\ Here = t[pos] /\ Fresh(t, dialect, reg, pos)
           /\ ~IsSpace(t[pos]) /\ CommentEnd(t, dialect, pos) = 0
<1>1. PICK N \in Nat : N = Len(t) /\ DOMAIN t = 1..N
  BY DEF Scanned
<1>2. /\ pc = "body" /\ ~(pos > N) /\ ~IsSpace(At(t, pos)) /\ CommentEnd(t, dialect, pos) = 0
  BY <1>1 DEF AtToken, Ended, Here, CommentEndHere
<1>3. Fresh(t, dialect, reg, pos)
  BY <1>2 DEF ScanInv
<1>4. pos \in 1..N
  BY <1>1, <1>2, <1>3 DEF Fresh
<1>5. Here = t[pos] /\ At(t, pos) = t[pos]
  BY <1>1, <1>4 DEF Here, At
<1> QED
  BY <1>1, <1>2, <1>3, <1>4, <1>5

LEMMA InnerCommentKeeps ==
    ASSUME NEW t, NEW dialect, NEW reg, Scanned(t, dialect, reg), t = text, dialect = src.dialect,
           ScanInv(t, dialect, reg), InnerComment
    PROVE  ScanInv(t, dialect, reg)'
<1>1. PICK e : e = CommentEnd(t, dialect, pos)
  OBVIOUS
<1>2. pc = "body" /\ e # 0 /\ Take("comment", e)
  BY <1>1 DEF InnerComment, CommentEndHere
<1>3. Fresh(t, dialect, reg, pos)
  BY <1>2 DEF ScanInv
<1>4. pos \in DOMAIN t
  <2>1. pos \in Int
    BY <1>3 DEF Fresh
  <2> QED
    BY <1>1, <1>2, <2>1, CommentHere
<1>5. /\ e \in pos + 1..Len(t) + 1 /\ RegionAt(t, dialect, pos) \in {"line", "block"}
      /\ \A i \in pos..e - 1 : reg[i] = pos
      /\ Fresh(t, dialect, reg, e)
  BY <1>1, <1>2, <1>3, <1>4, CommentIs
<1>6. pos # 0 /\ pos \in Nat /\ Len(t) \in Nat
  BY <1>4 DEF Scanned
<1>7. IsCommentRegion(t, dialect, pos)
  BY <1>5, <1>6 DEF IsCommentRegion
<1>8. TokenFits(t, dialect, reg, [kind |-> "comment", start |-> pos, end |-> e])
  <2>1. pos < e
    BY <1>5, <1>6
  <2>2. \A i \in pos..e - 1 : Fits(t, dialect, reg, "comment", i)
    BY <1>5, <1>7 DEF Fits
  <2> QED
    BY <2>1, <2>2 DEF TokenFits
<1>9. \A i \in pos..e - 1 : i \notin Cuts(t, reg)
  BY <1>5, <1>6 DEF Cuts
<1>10. "comment" \in TokenKinds
  BY DEF TokenKinds
<1> QED
  BY <1>2, <1>4, <1>5, <1>8, <1>9, <1>10, TakeKeeps

LEMMA QuotedKeeps ==
    ASSUME NEW t, NEW dialect, NEW reg, Scanned(t, dialect, reg), t = text, dialect = src.dialect,
           ScanInv(t, dialect, reg), Quoted
    PROVE  ScanInv(t, dialect, reg)'
<1>1. /\ pc = "body" /\ pos \in DOMAIN t /\ Here = t[pos] /\ Fresh(t, dialect, reg, pos)
  BY AtTokenIs DEF Quoted
<1>2. PICK mark \in QuoteMarks(dialect) :
         t[pos] = mark[1] /\ Take(mark[3], QuoteEnd(t, dialect, mark[2], pos))
  BY <1>1 DEF Quoted
<1>3. PICK e, kind : e = QuoteEnd(t, dialect, mark[2], pos) /\ kind = mark[3] /\ Take(kind, e)
  BY <1>2
<1>4. kind \in {"string", "quoted"} /\ ~IsSpace(mark[2])
  <2>1. mark \in QuoteMarks(dialect)
    OBVIOUS
  <2> QED
    BY <1>3, <2>1, MarksAre DEF IsSpace
<1>5. QuoteLeads(t, dialect, reg, mark[2], pos, e)
  BY <1>1, <1>2, <1>3, QuoteIs
<1>6. e = 0 => LeftOpen(t, dialect, reg)
  BY <1>5 DEF QuoteLeads
<1>7. ASSUME e # 0
      PROVE  /\ e \in pos + 1..Len(t) + 1 /\ Fresh(t, dialect, reg, e)
             /\ TokenFits(t, dialect, reg, [kind |-> kind, start |-> pos, end |-> e])
             /\ \A i \in pos..e - 1 : i \notin Cuts(t, reg)
  <2>1. /\ e \in pos + 1..Len(t) + 1 /\ t[e - 1] = mark[2] /\ Fresh(t, dialect, reg, e)
        /\ \A i \in pos..e - 1 : reg[i] # 0 /\ RegionAt(t, dialect, reg[i]) = "quote"
    BY <1>5, <1>7 DEF QuoteLeads
  <2>2. pos < e
    <3>1. pos \in Nat /\ Len(t) \in Nat
      BY <1>1 DEF Scanned
    <3> QED
      BY <2>1, <3>1
  <2>3. \A i \in pos..e - 1 : Fits(t, dialect, reg, kind, i)
    BY <1>4, <2>1 DEF Fits, IsCommentRegion
  <2>4. \A i \in pos..e - 1 : i \notin Cuts(t, reg)
    BY <2>1 DEF Cuts
  <2>5. TokenFits(t, dialect, reg, [kind |-> kind, start |-> pos, end |-> e])
    BY <1>4, <2>1, <2>2, <2>3 DEF TokenFits
  <2> QED
    BY <2>1, <2>4, <2>5
<1>8. kind \in TokenKinds
  BY <1>4 DEF TokenKinds
<1> QED
  BY <1>1, <1>3, <1>6, <1>7, <1>8, TakeKeeps

LEMMA DollarQuotedKeeps ==
    ASSUME NEW t, NEW dialect, NEW reg, Scanned(t, dialect, reg), t = text, dialect = src.dialect,
           ScanInv(t, dialect, reg), DollarQuoted
    PROVE  ScanInv(t, dialect, reg)'
<1>1. /\ pc = "body" /\ pos \in DOMAIN t /\ Fresh(t, dialect, reg, pos)
  BY AtTokenIs DEF DollarQuoted
<1>2. dialect = "postgres" /\ DollarTag(t, pos) # << >>
  BY DEF DollarQuoted, DollarTagHere
<1>3. PICK e : e = DollarEnd(t, DollarTag(t, pos), pos) /\ Take("string", e)
  BY <1>2 DEF DollarQuoted, DollarTagHere
<1>4. /\ RegionAt(t, dialect, pos) = "dollar"
      /\ e = 0 => LeftOpen(t, dialect, reg)
      /\ e # 0 => /\ e \in pos + 1..Len(t) + 1 /\ \A i \in pos..e - 1 : reg[i] = pos
                  /\ t[e - 1] = "$" /\ Fresh(t, dialect, reg, e)
  BY <1>1, <1>2, <1>3, DollarIs
<1>5. pos # 0 /\ pos \in Nat /\ Len(t) \in Nat
  BY <1>1 DEF Scanned
<1>6. ASSUME e # 0
      PROVE  /\ TokenFits(t, dialect, reg, [kind |-> "string", start |-> pos, end |-> e])
             /\ \A i \in pos..e - 1 : i \notin Cuts(t, reg)
  <2>1. pos < e
    BY <1>4, <1>5, <1>6
  <2>2. ~IsCommentRegion(t, dialect, pos)
    BY <1>4 DEF IsCommentRegion
  <2>3. \A i \in pos..e - 1 : Fits(t, dialect, reg, "string", i)
    BY <1>4, <1>5, <1>6, <2>2 DEF Fits
  <2>4. \A i \in pos..e - 1 : i \notin Cuts(t, reg)
    BY <1>4, <1>5, <1>6 DEF Cuts
  <2>5. ~IsSpace(t[e - 1])
    BY <1>4, <1>6 DEF IsSpace
  <2> QED
    BY <2>1, <2>3, <2>4, <2>5 DEF TokenFits
<1>7. "string" \in TokenKinds
  BY DEF TokenKinds
<1> QED
  BY <1>1, <1>3, <1>4, <1>6, <1>7, TakeKeeps

LEMMA WordKeeps ==
    ASSUME NEW t, NEW dialect, NEW reg, Scanned(t, dialect, reg), t = text, dialect = src.dialect,
           ScanInv(t, dialect, reg), Word
    PROVE  ScanInv(t, dialect, reg)'
<1>1. /\ pc = "body" /\ pos \in DOMAIN t /\ Fresh(t, dialect, reg, pos) /\ IsWordChar(t[pos])
  BY AtTokenIs DEF Word
<1>2. PICK e : e = WordEnd(t, pos) /\ Take("word", e)
  <2>1. Take("word", WordEnd(text, pos))
    BY DEF Word, WordEnd
  <2> QED
    BY <2>1
<1>3. /\ e \in pos + 1..Len(t) + 1 /\ Fresh(t, dialect, reg, e)
      /\ \A i \in pos..e - 1 : reg[i] = 0 /\ IsWordChar(t[i])
  BY <1>1, <1>2, WordIs
<1>4. pos \in Nat /\ Len(t) \in Nat
  BY <1>1 DEF Scanned
<1>5. e - 1 \in pos..e - 1 /\ pos < e /\ e # 0
  BY <1>3, <1>4
<1>6. \A i \in pos..e - 1 : i \notin Cuts(t, reg)
  BY <1>3 DEF Cuts, IsWordChar
<1>7. TokenFits(t, dialect, reg, [kind |-> "word", start |-> pos, end |-> e])
  <2>1. \A i \in pos..e - 1 : Fits(t, dialect, reg, "word", i)
    BY <1>3 DEF Fits
  <2>2. ~IsSpace(t[e - 1])
    BY <1>3, <1>5 DEF IsSpace, IsWordChar
  <2> QED
    BY <1>5, <2>1, <2>2 DEF TokenFits
<1>8. "word" \in TokenKinds
  BY DEF TokenKinds
<1> QED
  BY <1>1, <1>2, <1>3, <1>5, <1>6, <1>7, <1>8, TakeKeeps

LEMMA PunctuationKeeps ==
    ASSUME NEW t, NEW dialect, NEW reg, Scanned(t, dialect, reg), t = text, dialect = src.dialect,
           ScanInv(t, dialect, reg), Punctuation
    PROVE  ScanInv(t, dialect, reg)'
<1>1. /\ pc = "body" /\ pos \in DOMAIN t /\ Here = t[pos] /\ Fresh(t, dialect, reg, pos)
      /\ ~IsSpace(t[pos]) /\ CommentEnd(t, dialect, pos) = 0
  BY AtTokenIs DEF Punctuation
<1>2. PICK e : e = pos + 1 /\ Take("punct", e)
  BY DEF Punctuation
<1>3. /\ t[pos] # ";" /\ ~QuoteOpens(dialect, t[pos])
      /\ dialect = "postgres" => DollarTag(t, pos) = << >>
  <2>1. \A mark \in QuoteMarks(dialect) : t[pos] # mark[1]
    BY <1>1 DEF Punctuation
  <2>2. ~QuoteOpens(dialect, t[pos])
    BY <2>1, OpensIs
  <2> QED
    BY <1>1, <2>2 DEF Punctuation, DollarTagHere
<1>4. PICK N \in Nat : N = Len(t) /\ DOMAIN t = 1..N /\ t \in Seq(STRING)
  BY DEF Scanned
<1>5. RegionAt(t, dialect, pos) = "code"
  <2>1. RegionAt(t, dialect, pos) \notin {"line", "block"}
    BY <1>1, <1>4, NoCommentHere
  <2> QED
    BY <1>1, <1>3, <1>4, <2>1, CodeHere
<1>6. reg[pos] = 0 /\ Fresh(t, dialect, reg, e)
  BY <1>1, <1>2, <1>5, CodeIs
<1>7. e \in pos + 1..Len(t) + 1 /\ e # 0 /\ e - 1 = pos /\ pos < e /\ \A i \in pos..e - 1 : i = pos
  BY <1>1, <1>2, <1>4
<1>8. \A i \in pos..e - 1 : i \notin Cuts(t, reg)
  BY <1>3, <1>7 DEF Cuts
<1>9. TokenFits(t, dialect, reg, [kind |-> "punct", start |-> pos, end |-> e])
  <2>1. \A i \in pos..e - 1 : Fits(t, dialect, reg, "punct", i)
    BY <1>6, <1>7 DEF Fits
  <2> QED
    BY <1>1, <1>7, <2>1 DEF TokenFits
<1>10. "punct" \in TokenKinds
  BY DEF TokenKinds
<1> QED
  BY <1>1, <1>2, <1>6, <1>7, <1>8, <1>9, <1>10, TakeKeeps

-----------------------------------------------------------------------------
(* The end of a body *)

LEMMA StatementsNext ==
    ASSUME NEW t, NEW dialect, NEW reg, Scanned(t, dialect, reg), NEW ss, NEW a \in Nat, NEW q \in Nat, a < q,
           StatementsInv(t, dialect, reg, ss, a),
           NEW s \in StatementRec, StatementOK(t, dialect, reg, s), s.start = a,
           \A f \in Firsts(t, dialect, reg) : f < q => f <= a
    PROVE  StatementsInv(t, dialect, reg, Append(ss, s), q)
<1>1. PICK n \in Nat : n = Len(ss) /\ DOMAIN ss = 1..n /\ ss \in Seq(StatementRec)
  BY DEF StatementsInv
<1>2. PICK new : new = Append(ss, s)
  OBVIOUS
<1>3. /\ new \in Seq(StatementRec) /\ DOMAIN new = 1..n + 1 /\ new[n + 1] = s
      /\ \A k \in 1..n : new[k] = ss[k]
  BY <1>1, <1>2
<1>4. ASSUME NEW k \in 1..n
      PROVE  StatementOK(t, dialect, reg, ss[k]) /\ ss[k].start < a /\ ss[k].start \in Nat
  <2>1. ss[k] \in StatementRec
    BY <1>1
  <2> QED
    BY <1>1, <2>1 DEF StatementsInv, StatementRec
<1>5. ASSUME NEW k \in DOMAIN new
      PROVE  StatementOK(t, dialect, reg, new[k]) /\ new[k].start < q
  <2>1. CASE k = n + 1
    BY <1>3, <2>1
  <2>2. CASE k # n + 1
    <3>1. k \in 1..n /\ new[k] = ss[k]
      BY <1>3, <2>2
    <3> QED
      BY <1>4, <3>1
  <2> QED
    BY <2>1, <2>2
<1>6. ASSUME NEW k \in DOMAIN new, NEW l \in DOMAIN new, k < l PROVE new[k].start < new[l].start
  <2>1. k \in 1..n /\ new[k] = ss[k]
    BY <1>3, <1>6
  <2>2. CASE l = n + 1
    BY <1>3, <1>4, <2>1, <2>2
  <2>3. CASE l # n + 1
    <3>1. l \in 1..n /\ new[l] = ss[l]
      BY <1>3, <2>3
    <3> QED
      BY <1>1, <1>6, <2>1, <3>1 DEF StatementsInv
  <2> QED
    BY <2>2, <2>3
<1>7. ASSUME NEW f \in Firsts(t, dialect, reg), f < q PROVE \E k \in DOMAIN new : new[k].start = f
  <2>1. CASE f = a
    <3>1. n + 1 \in DOMAIN new
      BY <1>3
    <3> QED
      BY <1>3, <2>1, <3>1
  <2>2. CASE f # a
    <3>1. f \in Nat
      BY FirstsAre DEF Scanned
    <3>2. f < a
      BY <1>7, <2>2, <3>1
    <3>3. PICK k \in DOMAIN ss : ss[k].start = f
      BY <3>2 DEF StatementsInv
    <3>4. k \in DOMAIN new /\ new[k] = ss[k]
      BY <1>1, <1>3
    <3> QED
      BY <3>3, <3>4
  <2> QED
    BY <2>1, <2>2
<1> QED
  BY <1>2, <1>3, <1>5, <1>6, <1>7 DEF StatementsInv

LEMMA TrimEmpty ==
    ASSUME NEW s, s = << >>
    PROVE  Trim(s) = << >>
<1>1. {i \in DOMAIN s : ~IsSpace(s[i])} = {}
  OBVIOUS
<1> QED
  BY <1>1, Zenon DEF Trim

LEMMA EndBodyKeeps ==
    ASSUME NEW t, NEW dialect, NEW reg, Scanned(t, dialect, reg), t = text, dialect = src.dialect,
           ScanInv(t, dialect, reg), EndBody
    PROVE  ScanInv(t, dialect, reg)'
<1>1. PICK N \in Nat : N = Len(t) /\ DOMAIN t = 1..N /\ t \in Seq(STRING)
  BY DEF Scanned
<1>2. PICK p, a, q : p = pos /\ a = start /\ q = pos'
  OBVIOUS
<1>3. PICK u : u = Trim(SubSeq(t, a, p - 1))
  OBVIOUS
<1>a. Ended <=> p > N
  BY <1>1, <1>2 DEF Ended
<1>b. p > N \/ At(t, p) = ";"
  BY <1>2, <1>a DEF EndBody, Here
<1>c. (p > N => q = p) /\ (~(p > N) => q = p + 1)
  BY <1>2, <1>a, Zenon DEF EndBody
<1>4. /\ pc = "body" /\ pc' = "between"
      /\ IF u = << >> THEN pending' = leading /\ statements' = statements
         ELSE pending' = << >> /\ statements' = Append(statements, StatementOf(u))
  BY <1>2, <1>3 DEF EndBody
<1>5. BodyInv(t, dialect, reg) /\ StatementsInv(t, dialect, reg, statements, a) /\ Fresh(t, dialect, reg, p)
  BY <1>2, <1>4 DEF ScanInv
<1>6. /\ a \in Solid(t, dialect, reg) /\ a <= p /\ Settled(t, dialect, reg, a)
      /\ \A i \in a..p - 1 : i \notin Cuts(t, reg)
      /\ Tokenized(t, dialect, reg, tokens, a, p)
      /\ CommentsInv(t, dialect, reg, leading, a)
  BY <1>2, <1>5 DEF BodyInv
<1>7. a \in 1..N /\ ~IsSpace(t[a]) /\ a \notin InComment(t, dialect, reg)
  BY <1>1, <1>6 DEF Solid
<1>8. p \in a..N + 1 /\ p \in Nat /\ a \in Nat
  BY <1>1, <1>5, <1>6, <1>7 DEF Fresh
<1>d. p = N + 1 \/ p \in 1..N
  BY <1>7, <1>8
<1>9. p <= N => t[p] = ";" /\ p \in Cuts(t, reg) /\ Fresh(t, dialect, reg, p + 1)
  <2>0. SUFFICES ASSUME p <= N PROVE t[p] = ";" /\ p \in Cuts(t, reg) /\ Fresh(t, dialect, reg, p + 1)
    OBVIOUS
  <2>1. p \in 1..N
    BY <1>7, <1>8, <2>0
  <2>2. t[p] = ";"
    <3>1. ~(p > N)
      BY <2>1
    <3>2. At(t, p) = ";"
      BY <1>b, <3>1, Zenon
    <3> QED
      BY <3>2, AtIs
  <2>3. RegionAt(t, dialect, p) = "code"
    BY <1>1, <2>1, <2>2, PlainIsCode
  <2>4. reg[p] = 0 /\ Fresh(t, dialect, reg, p + 1)
    BY <1>1, <1>5, <2>1, <2>3, CodeIs
  <2> QED
    BY <1>1, <2>1, <2>2, <2>4 DEF Cuts
<1>10. Fresh(t, dialect, reg, q) /\ q \in Nat /\ q >= p /\ q <= p + 1 /\ (p <= N => q = p + 1) /\ (p > N => q = p)
  <2>1. CASE p > N
    BY <1>5, <1>8, <1>c, <2>1
  <2>2. CASE ~(p > N)
    <3>1. p <= N /\ q = p + 1
      BY <1>8, <1>c, <2>2
    <3>2. Fresh(t, dialect, reg, p + 1)
      BY <1>9, <3>1
    <3> QED
      BY <1>8, <3>1, <3>2
  <2> QED
    BY <2>1, <2>2
<1>11. ASSUME q <= Len(t) PROVE Settled(t, dialect, reg, q)
  <2>a. p <= N /\ q = p + 1
    BY <1>1, <1>8, <1>10, <1>11
  <2>b. p \in Cuts(t, reg)
    BY <1>9, <2>a, Zenon
  <2>1. p <= N /\ q = p + 1 /\ p \in Cuts(t, reg)
    BY <2>a, <2>b
  <2>2. \A j \in Solid(t, dialect, reg) : j < q => j <= p /\ p < q
    <3> SUFFICES ASSUME NEW j \in Solid(t, dialect, reg), j < q PROVE j <= p /\ p < q
      OBVIOUS
    <3>1. j \in 1..N
      BY <1>1, FirstsAre
    <3> QED
      BY <1>8, <2>1, <3>1
  <2> QED
    BY <2>1, <2>2 DEF Settled
<1>12. CASE p = a
  <2>a. p <= N /\ q = p + 1
    BY <1>7, <1>10, <1>12
  <2>b. p \in Cuts(t, reg)
    BY <1>9, <2>a, Zenon
  <2>1. p <= N /\ q = p + 1 /\ p \in Cuts(t, reg)
    BY <2>a, <2>b
  <2>2. u = << >>
    <3>1. SubSeq(t, a, p - 1) = << >>
      BY <1>1, <1>7, <1>12
    <3> QED
      BY <1>3, <3>1, TrimEmpty
  <2>3. ASSUME NEW f \in Firsts(t, dialect, reg) PROVE f < q <=> f < a
    <3>1. f \in 1..N /\ f # a
      BY <1>1, <1>12, <2>1, FirstsAre
    <3> QED
      BY <1>7, <1>12, <2>1, <3>1
  <2>4. StatementsInv(t, dialect, reg, statements, q)
    <3>1. a \in Nat /\ a <= q
      BY <1>7, <1>12, <2>1
    <3> QED
      BY <1>5, <1>10, <2>3, <3>1, StatementsMove
  <2>5. CommentsBefore(t, dialect, reg, q) = CommentsBefore(t, dialect, reg, a)
    <3>1. CutBefore(t, dialect, reg, q) = CutBefore(t, dialect, reg, a)
      BY <2>3, CutBeforeSame
    <3>2. PICK b \in Nat : b = CutBefore(t, dialect, reg, a)
      <4>1. a \in Nat
        BY <1>7
      <4> QED
        BY <1>1, <4>1, CutBeforeIs
    <3>3. ASSUME NEW c \in InComment(t, dialect, reg) PROVE c \in b + 1..q - 1 <=> c \in b + 1..a - 1
      <4>1. c \in 1..N /\ c # a
        BY <1>1, <1>7, FirstsAre
      <4> QED
        BY <1>7, <1>12, <2>1, <4>1
    <3> QED
      BY <3>1, <3>2, <3>3 DEF CommentsBefore
  <2>6. CommentsInv(t, dialect, reg, leading, q)
    BY <1>6, <2>5 DEF CommentsInv
  <2> QED
    BY <1>2, <1>4, <1>10, <1>11, <2>2, <2>4, <2>6 DEF ScanInv
<1>13. CASE p # a
  <2>1. p \in a + 1..Len(t) + 1 /\ a \in DOMAIN t /\ a < q
    BY <1>1, <1>7, <1>8, <1>10, <1>13
  <2>2. PICK last : /\ u \in Seq(STRING) /\ u # << >> /\ a + Len(u) = last + 1
                    /\ last = Max({j \in a..p - 1 : ~IsSpace(t[j])})
                    /\ last \in a..p - 1 /\ \A j \in a..p - 1 : ~IsSpace(t[j]) => j <= last
    BY <1>1, <1>3, <1>7, <2>1, TrimIs
  <2>3. PICK s : s = StatementOf(u)
    OBVIOUS
  <2>4. /\ s = [text |-> u, start |-> a, end |-> a + Len(u), comments |-> leading, tokens |-> Shifted(tokens, a)]
        /\ s.start = a /\ s.end = last + 1 /\ s.comments = leading /\ s.tokens = Shifted(tokens, a)
    BY <1>2, <2>2, <2>3 DEF StatementOf, Shifted
  <2>5. CutAfter(t, reg, a) = p
    <3>1. a \in 1..Len(t) + 1 /\ p \in a..Len(t) + 1
      BY <1>1, <1>7, <1>8
    <3>2. p = Len(t) + 1 \/ p \in Cuts(t, reg)
      <4>1. CASE p = N + 1
        BY <1>1, <4>1
      <4>2. CASE p \in 1..N
        <5>1. p <= N
          BY <4>2
        <5> QED
          BY <1>9, <5>1, Zenon
      <4> QED
        BY <1>d, <4>1, <4>2
    <3> QED
      BY <1>1, <1>6, <3>1, <3>2, CutAfterEq
  <2>6. a \in Firsts(t, dialect, reg)
    <3>1. a \notin Cuts(t, reg)
      <4>1. a \in a..p - 1
        BY <1>7, <1>8, <1>13
      <4> QED
        BY <1>6, <4>1
    <3> QED
      BY <1>6, <3>1 DEF Firsts, Settled
  <2>7. s.end = EndOf(t, reg, a)
    BY <2>2, <2>4, <2>5 DEF EndOf
  <2>8. Tiled(t, dialect, reg, s) /\ s.tokens \in Seq([kind : TokenKinds, start : Int, end : Int])
    <3>1. a \in Nat /\ p \in Nat
      BY <1>7, <1>8
    <3>2. last \in a..p - 1 /\ \A j \in a..p - 1 : ~IsSpace(t[j]) => j <= last
      BY <2>2
    <3>3. Tokenized(t, dialect, reg, tokens, a, p)
      BY <1>6
    <3>4. s.start = a /\ s.end = last + 1 /\ s.tokens = Shifted(tokens, a)
      BY <2>4
    <3> QED
      BY <3>1, <3>2, <3>3, <3>4, TiledIs
  <2>9. s \in StatementRec /\ StatementOK(t, dialect, reg, s)
    <3>1. a \in Nat /\ last + 1 \in Nat /\ leading \in Seq(CommentRec)
      BY <1>6, <1>7, <1>8, <2>2 DEF CommentsInv
    <3>2. s \in StatementRec
      BY <2>2, <2>4, <2>8, <3>1 DEF StatementRec
    <3> QED
      BY <1>6, <2>4, <2>6, <2>7, <2>8, <3>2 DEF StatementOK
  <2>10. ASSUME NEW f \in Firsts(t, dialect, reg), f < q PROVE f <= a
    <3> SUFFICES ASSUME ~(f <= a) PROVE FALSE
      OBVIOUS
    <3>1. f \in 1..N /\ a < f
      BY <1>1, <1>7, FirstsAre
    <3>2. PICK c \in Cuts(t, reg) : a <= c /\ c < f
      BY <1>6, <3>1 DEF Firsts
    <3>3. c \in 1..N
      BY <1>1, FirstsAre
    <3>4. c \in a..p - 1
      BY <1>7, <1>8, <1>10, <2>10, <3>1, <3>2, <3>3
    <3> QED
      BY <1>6, <3>2, <3>4
  <2>11. StatementsInv(t, dialect, reg, Append(statements, s), q)
    <3>1. a \in Nat
      BY <1>7
    <3> QED
      BY <1>5, <1>10, <2>1, <2>4, <2>9, <2>10, <3>1, StatementsNext
  <2>12. CommentsBefore(t, dialect, reg, q) = {}
    <3>1. PICK b \in Nat : b = CutBefore(t, dialect, reg, q) /\ p <= b
      BY <1>1, <1>10, <2>1, <2>5, <2>6, CutBeforeIs
    <3>2. b + 1..q - 1 = {}
      BY <1>8, <1>10, <3>1
    <3> QED
      BY <3>1, <3>2 DEF CommentsBefore
  <2>13. CommentsInv(t, dialect, reg, << >>, q)
    BY <2>12 DEF CommentsInv
  <2> QED
    BY <1>2, <1>4, <1>10, <1>11, <2>2, <2>3, <2>11, <2>13 DEF ScanInv
<1> QED
  BY <1>12, <1>13

-----------------------------------------------------------------------------
(* While a source is split, the invariant holds of its regions *)

SourceInv ==
    round = "source" =>
        /\ src \in Sources
        /\ \E t, dialect, reg :
              /\ t = text /\ dialect = src.dialect /\ reg = RegionOf(t, dialect)
              /\ ScanInv(t, dialect, reg)

LEMMA SourceScanned ==
    ASSUME src \in Sources, NEW t, t = text, NEW dialect, dialect = src.dialect,
           NEW reg, reg = RegionOf(t, dialect)
    PROVE  Scanned(t, dialect, reg)
<1>1. t \in Seq(STRING) /\ dialect \in Dialect
  BY SourcesAssumption, Zenon DEF text
<1> QED
  BY <1>1, RegionIs

LEMMA StartHolds == Init => SourceInv
<1> SUFFICES ASSUME Init PROVE SourceInv
  OBVIOUS
<1>1. /\ src \in Sources /\ pc = "between" /\ pos = 1 /\ pending = << >> /\ statements = << >>
  BY DEF Init
<1>2. PICK t, dialect, reg : t = text /\ dialect = src.dialect /\ reg = RegionOf(t, dialect)
  OBVIOUS
<1>3. Scanned(t, dialect, reg)
  BY <1>1, <1>2, SourceScanned
<1>4. PICK N \in Nat : N = Len(t) /\ DOMAIN t = 1..N /\ t \in Seq(STRING)
  BY <1>3 DEF Scanned
<1>5. /\ Firsts(t, dialect, reg) \subseteq 1..N /\ Solid(t, dialect, reg) \subseteq 1..N
      /\ InComment(t, dialect, reg) \subseteq 1..N
  BY <1>4, FirstsAre, Zenon
<1>6. Fresh(t, dialect, reg, pos)
  BY <1>1, <1>4 DEF Fresh
<1>7. Settled(t, dialect, reg, pos)
  BY <1>1, <1>5 DEF Settled
<1>8. StatementsInv(t, dialect, reg, statements, pos)
  BY <1>1, <1>5 DEF StatementsInv
<1>9. CommentsBefore(t, dialect, reg, pos) = {}
  <2>1. PICK b \in Nat : b = CutBefore(t, dialect, reg, pos)
    BY <1>1, <1>4, CutBeforeIs
  <2>2. b + 1..pos - 1 = {}
    BY <1>1, <2>1
  <2> QED
    BY <2>1, <2>2 DEF CommentsBefore
<1>10. CommentsInv(t, dialect, reg, pending, pos)
  BY <1>1, <1>9 DEF CommentsInv
<1>11. ScanInv(t, dialect, reg)
  BY <1>1, <1>6, <1>7, <1>8, <1>10 DEF ScanInv
<1> QED
  BY <1>1, <1>2, <1>11 DEF SourceInv

\* Each operation keeps it.
LEMMA SplitKeeps ==
    ASSUME NEW t, NEW dialect, NEW reg, Scanned(t, dialect, reg), t = text, dialect = src.dialect,
           ScanInv(t, dialect, reg), SplitStep
    PROVE  ScanInv(t, dialect, reg)'
<1>1. CASE SkipSpace
  BY <1>1, SkipSpaceKeeps, Zenon
<1>2. CASE TakeComment
  BY <1>2, TakeCommentKeeps, Zenon
<1>3. CASE BeginBody
  BY <1>3, BeginBodyKeeps, Zenon
<1>4. CASE EndOfText
  BY <1>4, EndOfTextKeeps, Zenon
<1>5. CASE InnerComment
  BY <1>5, InnerCommentKeeps, Zenon
<1>6. CASE Quoted
  BY <1>6, QuotedKeeps, Zenon
<1>7. CASE DollarQuoted
  BY <1>7, DollarQuotedKeeps, Zenon
<1>8. CASE Word
  BY <1>8, WordKeeps, Zenon
<1>9. CASE Punctuation
  BY <1>9, PunctuationKeeps, Zenon
<1>10. CASE EndBody
  BY <1>10, EndBodyKeeps, Zenon
<1> QED
  BY <1>1, <1>2, <1>3, <1>4, <1>5, <1>6, <1>7, <1>8, <1>9, <1>10, Zenon DEF SplitStep

LEMMA SplitStepSame == SplitStep => src' = src /\ round' = round
  BY DEF SplitStep, SkipSpace, TakeComment, BeginBody, EndOfText, InnerComment, Quoted, DollarQuoted,
         Word, Punctuation, EndBody, Take

LEMMA StepHolds == SourceInv /\ [Next]_vars => SourceInv'
<1> SUFFICES ASSUME SourceInv, [Next]_vars PROVE SourceInv'
  OBVIOUS
<1>1. CASE SplitStep
  <2>1. src' = src /\ round' = round /\ text' = text
    BY <1>1, SplitStepSame DEF text
  <2> SUFFICES ASSUME round = "source" PROVE SourceInv'
    BY <2>1 DEF SourceInv
  <2>2. PICK t, dialect, reg : /\ src \in Sources
                              /\ t = text /\ dialect = src.dialect /\ reg = RegionOf(t, dialect)
                              /\ ScanInv(t, dialect, reg)
    BY DEF SourceInv
  <2>3. Scanned(t, dialect, reg)
    BY <2>2, SourceScanned
  <2>4. ScanInv(t, dialect, reg)'
    BY <1>1, <2>2, <2>3, SplitKeeps
  <2> QED
    BY <2>1, <2>2, <2>4, Zenon DEF SourceInv
<1>2. CASE EmitBundle
  BY <1>2 DEF EmitBundle, SourceInv
<1>3. CASE UNCHANGED vars
  <2>1. /\ src' = src /\ round' = round /\ pc' = pc /\ pos' = pos /\ pending' = pending /\ start' = start
        /\ leading' = leading /\ tokens' = tokens /\ statements' = statements /\ text' = text
    BY <1>3 DEF vars, body, text
  <2> SUFFICES ASSUME round = "source" PROVE SourceInv'
    BY <2>1 DEF SourceInv
  <2>2. PICK t, dialect, reg : /\ src \in Sources
                              /\ t = text /\ dialect = src.dialect /\ reg = RegionOf(t, dialect)
                              /\ ScanInv(t, dialect, reg)
    BY DEF SourceInv
  <2>3. BodyInv(t, dialect, reg)' <=> BodyInv(t, dialect, reg)
    BY <2>1 DEF BodyInv
  <2>4. ScanInv(t, dialect, reg)'
    BY <2>1, <2>2, <2>3 DEF ScanInv
  <2> QED
    BY <2>1, <2>2, <2>4, Zenon DEF SourceInv
<1> QED
  BY <1>1, <1>2, <1>3 DEF Next

LEMMA SourceHolds == Spec => []SourceInv
  BY StartHolds, StepHolds, PTL DEF Spec

-----------------------------------------------------------------------------
(* The statements that StatementSpans counts *)

\* The k-th of a set of offsets.
Nth(F, k) == CHOOSE g \in F : Cardinality({h \in F : h <= g}) = k

\* The offsets of F, in rising order.
Lists(n, st, F) ==
    /\ n \in Nat /\ st \in [1..n -> Nat]
    /\ \A k, l \in 1..n : k < l => st[k] < st[l]
    /\ \A f : f \in F <=> \E k \in 1..n : st[k] = f

\* They are counted in that order.
LEMMA Counted ==
    ASSUME NEW n, NEW st, NEW F, Lists(n, st, F)
    PROVE  Cardinality(F) = n /\ \A k \in 1..n : Nth(F, k) = st[k]
<1> SUFFICES ASSUME n \in Nat, st \in [1..n -> Nat], \A k, l \in 1..n : k < l => st[k] < st[l],
                    \A f : f \in F <=> \E k \in 1..n : st[k] = f
             PROVE  Cardinality(F) = n /\ \A k \in 1..n : Nth(F, k) = st[k]
  BY Zenon DEF Lists
<1> DEFINE A(m) == {st[k] : k \in 1..m}
           Bad == {m \in 0..n : ~(IsFiniteSet(A(m)) /\ Cardinality(A(m)) = m)}
<1>1. A(0) = {}
  OBVIOUS
<1>2. ASSUME NEW m \in 1..n PROVE A(m) = A(m - 1) \cup {st[m]} /\ st[m] \notin A(m - 1)
  <2>1. ASSUME NEW x \in A(m) PROVE x \in A(m - 1) \cup {st[m]}
    <3>1. PICK k \in 1..m : x = st[k]
      OBVIOUS
    <3>2. k = m \/ k \in 1..(m - 1)
      OBVIOUS
    <3> QED
      BY <3>1, <3>2
  <2>2. ASSUME NEW x \in A(m - 1) PROVE x \in A(m) /\ x < st[m]
    <3>1. PICK k \in 1..(m - 1) : x = st[k]
      OBVIOUS
    <3>2. k \in 1..m /\ k \in 1..n /\ k < m
      OBVIOUS
    <3>3. st[k] < st[m]
      BY <3>2
    <3> QED
      BY <3>1, <3>2, <3>3
  <2>3. st[m] \in A(m) /\ st[m] \in Nat
    OBVIOUS
  <2>4. st[m] \notin A(m - 1)
    <3>1. ~(st[m] < st[m])
      BY <2>3
    <3> HIDE DEF A
    <3> QED
      BY <2>2, <3>1
  <2> HIDE DEF A
  <2> QED
    BY <2>1, <2>2, <2>3, <2>4
<1>3. Bad = {}
  <2> SUFFICES ASSUME Bad # {} PROVE FALSE
    OBVIOUS
  <2>1. Bad \subseteq Nat
    OBVIOUS
  <2>2. PICK m \in Bad : \A k \in Bad : m <= k
    BY <2>1, HasLeast
  <2>3. m \in 0..n /\ ~(IsFiniteSet(A(m)) /\ Cardinality(A(m)) = m)
    OBVIOUS
  <2>4. m # 0
    <3>1. IsFiniteSet({}) /\ Cardinality({}) = 0
      BY FS_EmptySet
    <3> HIDE DEF A
    <3> QED
      BY <1>1, <2>3, <3>1
  <2>5. m \in 1..n /\ m - 1 \in 0..n /\ ~(m <= m - 1)
    BY <2>3, <2>4
  <2>6. m - 1 \notin Bad
    <3> HIDE DEF Bad
    <3> QED
      BY <2>2, <2>5
  <2>7. IsFiniteSet(A(m - 1)) /\ Cardinality(A(m - 1)) = m - 1
    <3> HIDE DEF A
    <3> QED
      BY <2>5, <2>6
  <2>8. A(m) = A(m - 1) \cup {st[m]} /\ st[m] \notin A(m - 1)
    BY <1>2, <2>5
  <2>9. IsFiniteSet(A(m)) /\ Cardinality(A(m)) = m
    <3> HIDE DEF A
    <3>1. PICK old : old = A(m - 1)
      OBVIOUS
    <3>2. PICK x : x = st[m]
      OBVIOUS
    <3>3. IsFiniteSet(old) /\ Cardinality(old) = m - 1 /\ x \notin old /\ A(m) = old \cup {x}
      BY <2>7, <2>8, <3>1, <3>2, Zenon
    <3>4. IsFiniteSet(old \cup {x}) /\ Cardinality(old \cup {x}) = Cardinality(old) + 1
      BY <3>3, FS_AddElement, Zenon
    <3> QED
      BY <2>3, <3>3, <3>4
  <2> HIDE DEF A, Bad
  <2> QED
    BY <2>3, <2>5, <2>9
<1>4. \A m \in 0..n : Cardinality(A(m)) = m
  <2> HIDE DEF A
  <2> QED
    BY <1>3
<1>5. F = A(n)
  BY Zenon
<1>6. ASSUME NEW k \in 1..n PROVE {h \in F : h <= st[k]} = A(k)
  <2>1. ASSUME NEW h \in F, h <= st[k] PROVE h \in A(k)
    <3>1. PICK l \in 1..n : h = st[l]
      OBVIOUS
    <3>2. ~(k < l)
      <4> SUFFICES ASSUME k < l PROVE FALSE
        OBVIOUS
      <4>1. st[k] < st[l] /\ st[k] \in Nat /\ st[l] \in Nat
        OBVIOUS
      <4> QED
        BY <2>1, <3>1, <4>1
    <3>3. l \in 1..k
      BY <3>2
    <3> QED
      BY <3>1, <3>3
  <2>2. ASSUME NEW h \in A(k) PROVE h \in F /\ h <= st[k]
    <3>1. PICK l \in 1..k : h = st[l]
      OBVIOUS
    <3>2. l \in 1..n /\ (l = k \/ l < k)
      OBVIOUS
    <3>3. st[l] \in Nat /\ st[k] \in Nat /\ (l = k \/ st[l] < st[k])
      BY <3>2
    <3>4. h <= st[k]
      BY <3>1, <3>3
    <3> QED
      BY <3>1, <3>2, <3>4
  <2> HIDE DEF A
  <2> QED
    BY <2>1, <2>2
<1>7. ASSUME NEW k \in 1..n PROVE Cardinality({h \in F : h <= st[k]}) = k
  <2>1. k \in 0..n
    OBVIOUS
  <2> HIDE DEF A
  <2> QED
    BY <1>4, <1>6, <2>1
<1>8. ASSUME NEW k \in 1..n PROVE Nth(F, k) = st[k]
  <2>1. st[k] \in F /\ Cardinality({h \in F : h <= st[k]}) = k
    BY <1>7
  <2>2. PICK g : g = Nth(F, k)
    OBVIOUS
  <2>3. g \in F /\ Cardinality({h \in F : h <= g}) = k
    BY <2>1, <2>2, Zenon DEF Nth
  <2>4. PICK l \in 1..n : g = st[l]
    BY <2>3
  <2>5. Cardinality({h \in F : h <= g}) = l
    BY <1>7, <2>4
  <2> QED
    BY <2>2, <2>3, <2>4, <2>5, Zenon
<1>9. Cardinality(F) = n
  <2>1. n \in 0..n
    OBVIOUS
  <2> HIDE DEF A
  <2> QED
    BY <1>4, <1>5, <2>1
<1> QED
  BY <1>8, <1>9

SpansOf(t, dialect, reg) == SpansIn(t, reg, InComment(t, dialect, reg))

LEMMA SpansAre ==
    ASSUME NEW t, NEW dialect, NEW reg
    PROVE  SpansOf(t, dialect, reg) =
             [k \in 1..Cardinality(Firsts(t, dialect, reg)) |->
                [start |-> Nth(Firsts(t, dialect, reg), k),
                 end |-> EndOf(t, reg, Nth(Firsts(t, dialect, reg), k)),
                 comments |-> CommentsBefore(t, dialect, reg, Nth(Firsts(t, dialect, reg), k))]]
  BY Zenon DEF SpansOf, SpansIn, Nth, Firsts, Solid, Cuts, CutAfter, CutBefore, EndOf, CommentsBefore

\* When the text is read, the statements are the spans, with their comments.
LEMMA SpansFound ==
    ASSUME NEW t, NEW dialect, NEW reg, Scanned(t, dialect, reg),
           NEW ss, StatementsInv(t, dialect, reg, ss, Len(t) + 1)
    PROVE  LET spans == SpansOf(t, dialect, reg)
           IN  /\ DOMAIN spans = DOMAIN ss
               /\ \A k \in DOMAIN ss :
                     /\ spans[k].start = ss[k].start /\ spans[k].end = ss[k].end
                     /\ spans[k].comments = CommentsBefore(t, dialect, reg, ss[k].start)
<1>1. PICK N \in Nat : N = Len(t) /\ DOMAIN t = 1..N
  BY DEF Scanned
<1>2. PICK n \in Nat : n = Len(ss) /\ DOMAIN ss = 1..n /\ \A k \in 1..n : ss[k] \in StatementRec
  <2>1. PICK R : R = StatementRec /\ ss \in Seq(R)
    BY DEF StatementsInv
  <2>2. PICK n \in Nat : n = Len(ss) /\ DOMAIN ss = 1..n
    BY <2>1
  <2>3. \A k \in 1..n : ss[k] \in R
    BY <2>1, <2>2
  <2> QED
    BY <2>1, <2>2, <2>3
<1>3. PICK st : st = [k \in 1..n |-> ss[k].start]
  OBVIOUS
<1>4. PICK F : F = Firsts(t, dialect, reg)
  OBVIOUS
<1>5. st \in [1..n -> Nat]
  <2>1. ASSUME NEW k \in 1..n PROVE ss[k].start \in Nat
    BY <1>2 DEF StatementRec
  <2> QED
    BY <1>3, <2>1
<1>6. ASSUME NEW k \in 1..n, NEW l \in 1..n, k < l PROVE st[k] < st[l]
  BY <1>2, <1>3, <1>6 DEF StatementsInv
<1>7. ASSUME NEW f \in F PROVE \E k \in 1..n : st[k] = f
  <2>1. f \in 1..N
    BY <1>1, <1>4, FirstsAre
  <2>2. f < Len(t) + 1
    BY <1>1, <2>1
  <2> QED
    BY <1>2, <1>3, <1>4, <2>2 DEF StatementsInv
<1>8. ASSUME NEW k \in 1..n PROVE st[k] \in F /\ StatementOK(t, dialect, reg, ss[k]) /\ st[k] = ss[k].start
  BY <1>2, <1>3, <1>4 DEF StatementsInv, StatementOK
<1>9. \A f : f \in F <=> \E k \in 1..n : st[k] = f
  BY <1>7, <1>8
<1>10. Cardinality(F) = n /\ \A k \in 1..n : Nth(F, k) = st[k]
  <2>1. \A k, l \in 1..n : k < l => st[k] < st[l]
    BY <1>6
  <2>2. Lists(n, st, F)
    BY <1>5, <1>9, <2>1 DEF Lists
  <2> QED
    BY <2>2, Counted
<1>11. PICK spans : spans = SpansOf(t, dialect, reg)
  OBVIOUS
<1>12. spans = [k \in 1..n |-> [start |-> Nth(F, k), end |-> EndOf(t, reg, Nth(F, k)),
                                comments |-> CommentsBefore(t, dialect, reg, Nth(F, k))]]
  BY <1>4, <1>10, <1>11, SpansAre, Zenon
<1>13. ASSUME NEW k \in 1..n
       PROVE  /\ spans[k].start = ss[k].start /\ spans[k].end = ss[k].end
              /\ spans[k].comments = CommentsBefore(t, dialect, reg, ss[k].start)
  <2>1. Nth(F, k) = ss[k].start
    BY <1>8, <1>10
  <2>2. spans[k] = [start |-> ss[k].start, end |-> EndOf(t, reg, ss[k].start),
                    comments |-> CommentsBefore(t, dialect, reg, ss[k].start)]
    BY <1>12, <2>1
  <2>3. ss[k].end = EndOf(t, reg, ss[k].start)
    BY <1>8 DEF StatementOK
  <2> QED
    BY <2>2, <2>3
<1> QED
  BY <1>2, <1>11, <1>12, <1>13

-----------------------------------------------------------------------------
(* The theorems *)

LEMMA WhenDone ==
    ASSUME SourceInv, SourceSplit
    PROVE  \E t, dialect, reg :
              /\ t = text /\ dialect = src.dialect /\ reg = RegionOf(t, dialect)
              /\ Scanned(t, dialect, reg)
              /\ StatementsInv(t, dialect, reg, statements, Len(t) + 1)
              /\ StatementSpans(text, src.dialect) = SpansOf(t, dialect, reg)
<1>1. PICK t, dialect, reg : /\ src \in Sources
                            /\ t = text /\ dialect = src.dialect /\ reg = RegionOf(t, dialect)
                            /\ ScanInv(t, dialect, reg)
  BY DEF SourceInv, SourceSplit
<1>2. Scanned(t, dialect, reg)
  BY <1>1, SourceScanned
<1>3. StatementsInv(t, dialect, reg, statements, Len(t) + 1)
  BY <1>1 DEF SourceSplit, ScanInv
<1>4. StatementSpans(text, src.dialect) = SpansOf(t, dialect, reg)
  BY <1>1, Zenon DEF StatementSpans, SpansOf, InComment
<1> QED
  BY <1>1, <1>2, <1>3, <1>4, Zenon

\* Split fails exactly when a string or quoted identifier is left open.
LEMMA FailsRight ==
    ASSUME SourceInv, round = "source", pc \in {"done", "failed"}
    PROVE  (pc = "failed") = QuoteLeftOpen(text, src.dialect)
<1>1. PICK t, dialect, reg : /\ src \in Sources
                            /\ t = text /\ dialect = src.dialect /\ reg = RegionOf(t, dialect)
                            /\ ScanInv(t, dialect, reg)
  BY DEF SourceInv
<1>2. Scanned(t, dialect, reg)
  BY <1>1, SourceScanned
<1>3. PICK N \in Nat : N = Len(t) /\ DOMAIN t = 1..N /\ t \in Seq(STRING)
  BY <1>2 DEF Scanned
<1>4. QuoteLeftOpen(t, dialect) <=> LeftOpen(t, dialect, reg)
  <2>1. t # << >> <=> Len(t) > 0
    BY <1>3
  <2> QED
    BY <1>1, <2>1, Zenon DEF QuoteLeftOpen, LeftOpen
<1>5. ASSUME pc = "done" PROVE ~LeftOpen(t, dialect, reg)
  <2>1. PICK p : p = Len(t) + 1 /\ Fresh(t, dialect, reg, p)
    BY <1>1, <1>5 DEF ScanInv
  <2>2. SUFFICES ASSUME LeftOpen(t, dialect, reg) PROVE FALSE
    OBVIOUS
  <2>3. p > 1 /\ p # 1 /\ p - 1 = Len(t)
    BY <1>3, <2>1, <2>2 DEF LeftOpen
  <2>4. \/ reg[Len(t)] = 0
        \/ RegionEnds(t, dialect, reg[Len(t)], Len(t))
        \/ IsCommentRegion(t, dialect, reg[Len(t)])
    BY <2>1, <2>3 DEF Fresh
  <2>5. PICK at : at = RegionAt(t, dialect, reg[Len(t)])
    OBVIOUS
  <2>6. at \notin {"line", "block"}
    BY <2>2, <2>5 DEF LeftOpen
  <2> QED
    BY <2>2, <2>4, <2>5, <2>6, Zenon DEF LeftOpen, IsCommentRegion
<1>6. pc = "failed" => LeftOpen(t, dialect, reg)
  BY <1>1 DEF ScanInv
<1>7. pc = "failed" <=> QuoteLeftOpen(t, dialect)
  BY <1>4, <1>5, <1>6
<1>8. (pc = "failed") \in BOOLEAN /\ QuoteLeftOpen(t, dialect) \in BOOLEAN
  BY Zenon DEF QuoteLeftOpen
<1> QED
  BY <1>1, <1>7, <1>8, Zenon

\* For every source text Split ends its statements exactly at the semicolons
\* that are code, not in a comment, a string or a quoted identifier, and gives
\* up exactly on a string or quoted identifier that is never closed.
THEOREM SplitsWhereTheCodeSays == Spec => []SplitsAtCode
<1>1. SourceInv => SplitsAtCode
  <2> SUFFICES ASSUME SourceInv PROVE SplitsAtCode
    OBVIOUS
  <2>1. ASSUME SourceSplit
        PROVE  LET spans == StatementSpans(text, src.dialect)
               IN  [k \in DOMAIN statements |-> <<statements[k].start, statements[k].end>>]
                       = [k \in DOMAIN spans |-> <<spans[k].start, spans[k].end>>]
    <3>1. PICK t, dialect, reg : /\ Scanned(t, dialect, reg)
                                /\ StatementsInv(t, dialect, reg, statements, Len(t) + 1)
                                /\ StatementSpans(text, src.dialect) = SpansOf(t, dialect, reg)
      BY <2>1, WhenDone
    <3>2. PICK spans : spans = StatementSpans(text, src.dialect)
      OBVIOUS
    <3>3. /\ DOMAIN spans = DOMAIN statements
          /\ \A k \in DOMAIN statements :
                spans[k].start = statements[k].start /\ spans[k].end = statements[k].end
      BY <3>1, <3>2, SpansFound
    <3> QED
      BY <3>2, <3>3
  <2> QED
    BY <2>1, FailsRight, Zenon DEF SplitsAtCode
<1> QED
  BY <1>1, SourceHolds, PTL

\* For every source text each statement carries the comments that begin
\* between the statement before it and itself, all of them and in order, the
\* ones in front of a stray semicolon (split.go:127-142) included.
THEOREM CommentsReachTheirStatement == Spec => []CommentsAttached
<1>1. SourceInv => CommentsAttached
  <2> SUFFICES ASSUME SourceInv, SourceSplit
               PROVE  LET spans == StatementSpans(text, src.dialect)
                      IN  \A k \in DOMAIN statements :
                             LET cs == statements[k].comments
                             IN  /\ {cs[n].start : n \in DOMAIN cs} = spans[k].comments
                                 /\ \A m, n \in DOMAIN cs : m < n => cs[m].start < cs[n].start
    BY DEF CommentsAttached
  <2>1. PICK t, dialect, reg : /\ Scanned(t, dialect, reg)
                              /\ StatementsInv(t, dialect, reg, statements, Len(t) + 1)
                              /\ StatementSpans(text, src.dialect) = SpansOf(t, dialect, reg)
    BY WhenDone
  <2>2. PICK spans : spans = StatementSpans(text, src.dialect)
    OBVIOUS
  <2>3. ASSUME NEW k \in DOMAIN statements
        PROVE  LET cs == statements[k].comments
               IN  /\ {cs[n].start : n \in DOMAIN cs} = spans[k].comments
                   /\ \A m, n \in DOMAIN cs : m < n => cs[m].start < cs[n].start
    <3>1. spans[k].comments = CommentsBefore(t, dialect, reg, statements[k].start)
      BY <2>1, <2>2, SpansFound
    <3>2. CommentsInv(t, dialect, reg, statements[k].comments, statements[k].start)
      BY <2>1 DEF StatementsInv, StatementOK
    <3> QED
      BY <3>1, <3>2 DEF CommentsInv
  <2> QED
    BY <2>2, <2>3
<1> QED
  BY <1>1, SourceHolds, PTL

\* For every source text the tokens of each statement are in order and leave
\* out only blanks, words and punctuation are code, and strings, quoted
\* identifiers and comments lie in regions of their own kind.
THEOREM TokensTileTheStatement == Spec => []TokensTile
<1>1. SourceInv => TokensTile
  <2> SUFFICES ASSUME SourceInv, SourceSplit PROVE TokensTile
    BY DEF TokensTile
  <2>1. PICK t, dialect, reg : /\ t = text /\ dialect = src.dialect /\ reg = RegionOf(t, dialect)
                              /\ StatementsInv(t, dialect, reg, statements, Len(t) + 1)
    BY WhenDone
  <2>2. \A n \in DOMAIN statements : Tiled(t, dialect, reg, statements[n])
    BY <2>1 DEF StatementsInv, StatementOK
  <2> QED
    BY <2>1, <2>2, ZenonT(30) DEF TokensTile, Tiled, Fits
<1> QED
  BY <1>1, SourceHolds, PTL

=============================================================================
