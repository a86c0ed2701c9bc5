----------------------------- MODULE JsonProofs -----------------------------
(* Which JSON texts, of any length and depth, JsonParser accepts, and what *)
(* it accepts besides.                                                     *)
EXTENDS JsonParser, WellFoundedInduction, TLAPS

\* Induction, with a set in the place of the predicate.
LEMMA Induction ==
  ASSUME NEW S, 0 \in S, \A n \in Nat : n \in S => n + 1 \in S
  PROVE  \A n \in Nat : n \in S
<1> DEFINE T == Nat \ S
<1> SUFFICES ASSUME T # {} PROVE FALSE
  OBVIOUS
<1>1. PICK x \in T : \A y \in T : ~ (<<y, x>> \in OpToRel(<, Nat))
  BY NatLessThanWellFounded, WFMin
<1>2. \A y \in T : ~ (y < x)
  BY <1>1, Zenon DEF OpToRel
<1>3. x \in Nat /\ x \notin S
  BY <1>1
<1>4. x # 0
  BY <1>3
<1>5. PICK n \in Nat : x = n + 1
  <2>1. x - 1 \in Nat /\ x = (x - 1) + 1
    BY <1>3, <1>4
  <2> QED
    BY <2>1
<1>6. n \in S
  BY <1>2, <1>5
<1> QED
  BY <1>3, <1>5, <1>6

-----------------------------------------------------------------------------
(* Positions: what peek sees, and where Skip stops.                        *)
LEMMA PeekSees ==
  ASSUME NEW s \in Seq(Symbols), NEW p \in Nat \ {0}
  PROVE  /\ p <= Len(s) => peek(s, p) = s[p] /\ s[p] \in Symbols /\ s[p] # "end"
         /\ p > Len(s) => peek(s, p) = "end"
BY JsonAssumption DEF peek

Stops(s, p, S, q) ==
  q \in p .. Len(s) + 1 /\ peek(s, q) \notin S /\ \A r \in p .. q - 1 : s[r] \in S

LEMMA StopExists ==
  ASSUME NEW s \in Seq(Symbols), NEW S, "end" \notin S, NEW p \in 1 .. Len(s) + 1
  PROVE  \E q : Stops(s, p, S, q)
<1>1. PICK L \in Nat : L = Len(s)
  OBVIOUS
<1> DEFINE T == {m \in Nat : \A a \in 1 .. L + 1 : L + 1 - a < m => \E q : Stops(s, a, S, q)}
<1>2. 0 \in T
  BY <1>1
<1>3. ASSUME NEW m \in Nat, m \in T PROVE m + 1 \in T
  <2> SUFFICES ASSUME NEW a \in 1 .. L + 1, L + 1 - a < m + 1 PROVE \E q : Stops(s, a, S, q)
    OBVIOUS
  <2>1. CASE peek(s, a) \notin S
    <3>1. Stops(s, a, S, a)
      BY <1>1, <2>1 DEF Stops
    <3> QED
      BY <3>1
  <2>2. CASE peek(s, a) \in S
    <3>1. a <= L /\ s[a] \in S
      BY <1>1, <2>2, PeekSees
    <3>2. PICK c \in 1 .. L + 1 : c = a + 1 /\ L + 1 - c < m
      BY <3>1
    <3>3. PICK q : Stops(s, c, S, q)
      BY <1>3, <3>2
    <3>4. Stops(s, a, S, q)
      BY <1>1, <3>1, <3>2, <3>3 DEF Stops
    <3> QED
      BY <3>4
  <2> QED
    BY <2>1, <2>2
<1> HIDE DEF T
<1>4. L + 2 \in T
  BY <1>2, <1>3, Induction
<1> QED
  BY <1>1, <1>4 DEF T

LEMMA SkipStops ==
  ASSUME NEW s \in Seq(Symbols), NEW S, "end" \notin S, NEW p \in 1 .. Len(s) + 1
  PROVE  Stops(s, p, S, Skip(s, p, S))
BY StopExists, Zenon DEF Stops, Skip

LEMMA SkipIs ==
  ASSUME NEW s \in Seq(Symbols), NEW S, "end" \notin S, NEW p \in 1 .. Len(s) + 1,
         NEW q, Stops(s, p, S, q)
  PROVE  Skip(s, p, S) = q
<1>1. PICK c : c = Skip(s, p, S) /\ Stops(s, p, S, c)
  BY SkipStops
<1>2. p \in Nat /\ p > 0 /\ c \in Nat /\ q \in Nat /\ p <= c /\ p <= q /\ Len(s) \in Nat
  BY <1>1 DEF Stops
<1>3. ~ (c < q)
  BY <1>1, <1>2, PeekSees DEF Stops
<1>4. ~ (q < c)
  BY <1>1, <1>2, PeekSees DEF Stops
<1> QED
  BY <1>1, <1>2, <1>3, <1>4

\* skip_whitespace stops at the first symbol that is no blank.
LEMMA Whitespace ==
  ASSUME NEW s \in Seq(Symbols), NEW p \in 1 .. Len(s) + 1
  PROVE  \E q \in Nat : /\ q = skip_whitespace(s, p) /\ p <= q /\ q <= Len(s) + 1
                       /\ peek(s, q) \notin Space /\ Blank(s, p, q - 1, FALSE)
<1>1. Stops(s, p, Space, skip_whitespace(s, p))
  BY SkipStops, Zenon DEF skip_whitespace, Space
<1>2. PICK q : q = skip_whitespace(s, p)
  OBVIOUS
<1>3. q \in p .. Len(s) + 1 /\ peek(s, q) \notin Space /\ Blank(s, p, q - 1, FALSE)
  BY <1>1, <1>2 DEF Stops, Blank
<1>4. q \in Nat /\ p <= q /\ q <= Len(s) + 1
  BY <1>3
<1> QED
  BY <1>2, <1>3, <1>4, Zenon

LEMMA WhitespaceIs ==
  ASSUME NEW s \in Seq(Symbols), NEW p \in 1 .. Len(s) + 1,
         NEW q \in Nat, p <= q, q <= Len(s) + 1, peek(s, q) \notin Space, Blank(s, p, q - 1, FALSE)
  PROVE  skip_whitespace(s, p) = q
<1>1. Stops(s, p, Space, q)
  BY DEF Stops, Blank
<1> QED
  BY <1>1, SkipIs, Zenon DEF skip_whitespace, Space

LEMMA SkipsOnce ==
  ASSUME NEW s \in Seq(Symbols), NEW p \in 1 .. Len(s) + 1
  PROVE  skip_whitespace(s, skip_whitespace(s, p)) = skip_whitespace(s, p)
<1>1. PICK q \in Nat : /\ q = skip_whitespace(s, p) /\ p <= q /\ q <= Len(s) + 1
                      /\ peek(s, q) \notin Space
  BY Whitespace, Zenon
<1>2. q \in 1 .. Len(s) + 1 /\ q <= q /\ Blank(s, q, q - 1, FALSE)
  BY <1>1 DEF Blank
<1>3. skip_whitespace(s, q) = q
  BY <1>1, <1>2, WhitespaceIs, Zenon
<1> QED
  BY <1>1, <1>3

-----------------------------------------------------------------------------
(* Strings.                                                                *)
LEMMA PrependPos == ASSUME NEW x, NEW r PROVE Prepend(x, r).pos = r.pos
BY DEF Prepend, Threw

LEMMA TaggedPos == ASSUME NEW x, NEW r PROVE Tagged(x, r).pos = r.pos
BY DEF Tagged, Threw

LEMMA EscapeDomain == DOMAIN Escape = Escapes /\ "end" \notin Escapes
BY DEF Escape, Escapes, Quote, Backslash, Literals

\* One round of the loop of parse_string, where f is what the later rounds give.
StringStep(f, s, p) ==
  CASE peek(s, p) = "end" -> Threw
    [] peek(s, p) = Quote -> [pos |-> p + 1, val |-> <<>>]
    [] peek(s, p) = Backslash ->
         IF peek(s, p + 1) \in DOMAIN Escape
         THEN Prepend(Escape[peek(s, p + 1)], f[p + 2]) ELSE Threw
    [] OTHER -> Prepend(peek(s, p), f[p + 1])

IsStringLoop(f, s) == f = [p \in 1 .. Len(s) + 1 |-> StringStep(f, s, p)]

\* The round at p looks at later positions of the text only.
LEMMA StringStepAgrees ==
  ASSUME NEW s \in Seq(Symbols), NEW p \in 1 .. Len(s) + 1, NEW f, NEW g,
         \A q \in 1 .. Len(s) + 1 : p < q => f[q] = g[q]
  PROVE  StringStep(f, s, p) = StringStep(g, s, p)
<1>1. PICK L \in Nat : L = Len(s)
  OBVIOUS
<1>2. CASE p = L + 1
  <2>1. peek(s, p) = "end"
    BY <1>1, <1>2, PeekSees
  <2> QED
    BY <2>1 DEF StringStep, Quote, Backslash
<1>3. CASE p <= L
  <2>1. p + 1 \in 1 .. Len(s) + 1 /\ f[p + 1] = g[p + 1]
    BY <1>1, <1>3
  <2>2. p + 2 \in 1 .. Len(s) + 1 => f[p + 2] = g[p + 2]
    BY <1>1
  <2>3. peek(s, p + 1) \in DOMAIN Escape => p + 2 \in 1 .. Len(s) + 1
    <3>1. CASE p + 1 > L
      BY <1>1, <3>1, PeekSees, EscapeDomain
    <3>2. CASE p + 1 <= L
      BY <1>1, <3>2
    <3> QED
      BY <3>1, <3>2
  <2>4. CASE peek(s, p + 1) \in DOMAIN Escape
    <3>1. f[p + 1] = g[p + 1] /\ f[p + 2] = g[p + 2]
      BY <2>1, <2>2, <2>3, <2>4
    <3> QED
      BY <2>4, <3>1 DEF StringStep
  <2>5. CASE peek(s, p + 1) \notin DOMAIN Escape
    BY <2>1, <2>5 DEF StringStep
  <2> QED
    BY <2>4, <2>5
<1> QED
  BY <1>1, <1>2, <1>3

LEMMA StringLoopExists ==
  ASSUME NEW s \in Seq(Symbols)
  PROVE  \E f : IsStringLoop(f, s)
<1>1. PICK L \in Nat : L = Len(s)
  OBVIOUS
<1> DEFINE From(f, m) == \A p \in 1 .. L + 1 : L + 1 - p < m => f[p] = StringStep(f, s, p)
           S == {m \in Nat : \E f : From(f, m)}
<1>2. 0 \in S
  OBVIOUS
<1>3. ASSUME NEW m \in Nat, m \in S PROVE m + 1 \in S
  <2>1. PICK f : From(f, m)
    BY <1>3
  <2> DEFINE g == [p \in 1 .. L + 1 |->
                    IF L + 1 - p < m THEN f[p] ELSE StringStep(f, s, p)]
  <2>2. ASSUME NEW p \in 1 .. L + 1, L + 1 - p < m + 1 PROVE g[p] = StringStep(g, s, p)
    <3>1. \A q \in 1 .. L + 1 : p < q => f[q] = g[q]
      BY <2>2
    <3>2. StringStep(f, s, p) = StringStep(g, s, p)
      <4> HIDE DEF g
      <4> QED
        BY <1>1, <3>1, StringStepAgrees, Zenon
    <3>3. g[p] = StringStep(f, s, p)
      BY <2>1
    <3> QED
      BY <3>2, <3>3
  <2>3. From(g, m + 1)
    BY <2>2
  <2> HIDE DEF g
  <2>4. \E f1 : From(f1, m + 1)
    BY <2>3
  <2> QED
    BY <2>4
<1> HIDE DEF S
<1>4. L + 1 \in S
  BY <1>2, <1>3, Induction
<1>5. PICK f : From(f, L + 1)
  BY <1>4 DEF S
<1> DEFINE g == [p \in 1 .. L + 1 |-> f[p]]
<1>6. ASSUME NEW p \in 1 .. L + 1 PROVE g[p] = StringStep(g, s, p)
  <2>1. \A q \in 1 .. L + 1 : p < q => f[q] = g[q]
    OBVIOUS
  <2>2. StringStep(f, s, p) = StringStep(g, s, p)
    <3> HIDE DEF g
    <3> QED
      BY <1>1, <2>1, StringStepAgrees
  <2>3. g[p] = StringStep(f, s, p)
    BY <1>5
  <2> QED
    BY <2>2, <2>3
<1>7. g = [p \in 1 .. L + 1 |-> StringStep(g, s, p)]
  BY <1>6
<1> HIDE DEF g
<1> QED
  BY <1>1, <1>7 DEF IsStringLoop

LEMMA StringLoopIs ==
  ASSUME NEW s \in Seq(Symbols), NEW p \in 1 .. Len(s) + 1
  PROVE  StringLoop(s)[p] = StringStep(StringLoop(s), s, p)
<1>1. StringLoop(s) = CHOOSE f : IsStringLoop(f, s)
  BY DEF StringLoop, IsStringLoop, StringStep
<1>2. IsStringLoop(StringLoop(s), s)
  BY <1>1, StringLoopExists
<1> QED
  BY <1>2 DEF IsStringLoop

\* The symbols a .. b are what a string may have between its quotes.
Inside(s, a, b) ==
  \E escapes \in SUBSET (a .. b - 1) :
    /\ \A k \in escapes : s[k] = Backslash /\ s[k + 1] \in Escapes
                        /\ k + 1 \notin escapes
    /\ \A k \in a .. b : s[k] \in {Quote, Backslash} => k \in escapes \/ k - 1 \in escapes

LEMMA StringIsInside ==
  ASSUME NEW s, NEW a \in Int, NEW b \in Int
  PROVE  IsString(s, a, b, FALSE) <=> a < b /\ s[a] = Quote /\ s[b] = Quote /\ Inside(s, a + 1, b - 1)
<1>1. (b - 1) - 1 = b - 2
  OBVIOUS
<1> QED
  BY <1>1 DEF IsString, Inside

\* What the loop reads up to a quote is a string.
LEMMA StringLoopSound ==
  ASSUME NEW s \in Seq(Symbols), NEW p \in 1 .. Len(s) + 1, StringLoop(s)[p].pos # 0
  PROVE  /\ StringLoop(s)[p].pos \in p + 1 .. Len(s) + 1
         /\ s[StringLoop(s)[p].pos - 1] = Quote
         /\ Inside(s, p, StringLoop(s)[p].pos - 2)
<1>1. PICK L \in Nat : L = Len(s)
  OBVIOUS
<1> DEFINE Reads(a, r) == r # 0 => r \in a + 1 .. L + 1 /\ s[r - 1] = Quote /\ Inside(s, a, r - 2)
           f == StringLoop(s)
           S == {m \in Nat : \A a \in 1 .. L + 1 : L + 1 - a < m => Reads(a, f[a].pos)}
<1> HIDE DEF f
<1>2. 0 \in S
  OBVIOUS
<1>3. ASSUME NEW m \in Nat, m \in S PROVE m + 1 \in S
  <2> SUFFICES ASSUME NEW a \in 1 .. L + 1, L + 1 - a < m + 1 PROVE Reads(a, f[a].pos)
    OBVIOUS
  <2>1. f[a] = StringStep(f, s, a)
    BY <1>1, StringLoopIs DEF f
  <2>2. CASE a = L + 1
    <3>1. peek(s, a) = "end"
      BY <1>1, <2>2, PeekSees
    <3> QED
      BY <2>1, <3>1 DEF StringStep, Quote, Backslash, Threw
  <2>3. CASE a <= L
    <3>1. peek(s, a) = s[a] /\ s[a] # "end"
      BY <1>1, <2>3, PeekSees
    <3>2. CASE s[a] = Quote
      <4>1. f[a].pos = a + 1
        BY <2>1, <3>1, <3>2 DEF StringStep, Quote, Backslash
      <4>2. Inside(s, a, a - 1)
        <5>1. {} \in SUBSET (a .. (a - 1) - 1) /\ \A k \in a .. a - 1 : FALSE
          OBVIOUS
        <5> QED
          BY <5>1, Zenon DEF Inside
      <4>3. a + 1 \in a + 1 .. L + 1 /\ (a + 1) - 1 = a /\ (a + 1) - 2 = a - 1
        BY <2>3
      <4> QED
        BY <3>2, <4>1, <4>2, <4>3, Zenon
    <3>3. CASE s[a] = Backslash
      <4>1. CASE a + 1 <= L /\ s[a + 1] \in Escapes
        <5>1. PICK c \in 1 .. L + 1 : c = a + 2 /\ L + 1 - c < m
          <6>1. a + 1 <= L
            BY <4>1
          <6> QED
            BY <6>1
        <5>2. PICK r : r = f[c].pos /\ Reads(c, r)
          BY <1>3, <5>1
        <5>3. f[a].pos = r
          <6>1. peek(s, a + 1) = s[a + 1]
            BY <1>1, <4>1, PeekSees
          <6>2. peek(s, a + 1) \in DOMAIN Escape
            BY <4>1, <6>1, EscapeDomain
          <6>3. f[a] = Prepend(Escape[peek(s, a + 1)], f[a + 2])
            BY <2>1, <3>1, <3>3, <6>2 DEF StringStep, Quote, Backslash
          <6>4. f[a].pos = f[a + 2].pos
            BY <6>3, PrependPos
          <6> QED
            BY <5>1, <5>2, <6>4
        <5>4. ASSUME r # 0 PROVE Inside(s, a, r - 2)
          <6>1. r \in c + 1 .. L + 1 /\ Inside(s, c, r - 2)
            BY <5>2, <5>4
          <6>2. PICK escapes \in SUBSET (c .. (r - 2) - 1) :
                  /\ \A k \in escapes : s[k] = Backslash /\ s[k + 1] \in Escapes
                                      /\ k + 1 \notin escapes
                  /\ \A k \in c .. r - 2 :
                       s[k] \in {Quote, Backslash} => k \in escapes \/ k - 1 \in escapes
            BY <6>1, Zenon DEF Inside
          <6> DEFINE more == escapes \cup {a}
          <6>3. more \in SUBSET (a .. (r - 2) - 1)
            BY <5>1, <6>1, <6>2
          <6>4. \A k \in more : s[k] = Backslash /\ s[k + 1] \in Escapes
                               /\ k + 1 \notin more
            BY <3>3, <4>1, <5>1, <6>2
          <6>5. \A k \in a .. r - 2 : s[k] \in {Quote, Backslash} => k \in more \/ k - 1 \in more
            BY <5>1, <6>1, <6>2
          <6> HIDE DEF more
          <6> QED
            BY <6>3, <6>4, <6>5, Zenon DEF Inside
        <5>5. r # 0 => r \in a + 1 .. L + 1 /\ s[r - 1] = Quote
          BY <5>1, <5>2
        <5> QED
          BY <5>3, <5>4, <5>5
      <4>2. CASE ~ (a + 1 <= L /\ s[a + 1] \in Escapes)
        <5>1. peek(s, a + 1) \notin DOMAIN Escape
          BY <1>1, <4>2, PeekSees, EscapeDomain
        <5> QED
          BY <2>1, <3>1, <3>3, <5>1 DEF StringStep, Quote, Backslash, Threw
      <4> QED
        BY <4>1, <4>2
    <3>4. CASE s[a] \notin {Quote, Backslash}
      <4>1. PICK c \in 1 .. L + 1 : c = a + 1 /\ L + 1 - c < m
        BY <2>3
      <4>2. PICK r : r = f[c].pos /\ Reads(c, r)
        BY <1>3, <4>1
      <4>3. f[a].pos = r
        <5>1. f[a] = Prepend(s[a], f[a + 1])
          BY <2>1, <3>1, <3>4 DEF StringStep
        <5>2. f[a].pos = f[a + 1].pos
          BY <5>1, PrependPos
        <5> QED
          BY <4>1, <4>2, <5>2
      <4>4. ASSUME r # 0 PROVE Inside(s, a, r - 2)
        <5>1. r \in c + 1 .. L + 1 /\ Inside(s, c, r - 2)
          BY <4>2, <4>4
        <5>2. PICK escapes \in SUBSET (c .. (r - 2) - 1) :
                /\ \A k \in escapes : s[k] = Backslash /\ s[k + 1] \in Escapes
                                    /\ k + 1 \notin escapes
                /\ \A k \in c .. r - 2 :
                     s[k] \in {Quote, Backslash} => k \in escapes \/ k - 1 \in escapes
          BY <5>1, Zenon DEF Inside
        <5>3. escapes \in SUBSET (a .. (r - 2) - 1)
          BY <4>1, <5>1, <5>2
        <5>4. \A k \in a .. r - 2 :
                s[k] \in {Quote, Backslash} => k \in escapes \/ k - 1 \in escapes
          BY <3>4, <4>1, <5>1, <5>2
        <5> QED
          BY <5>2, <5>3, <5>4 DEF Inside
      <4>5. r # 0 => r \in a + 1 .. L + 1 /\ s[r - 1] = Quote
        BY <4>1, <4>2
      <4> QED
        BY <4>3, <4>4, <4>5
    <3> QED
      BY <3>2, <3>3, <3>4
  <2> QED
    BY <2>2, <2>3
<1> HIDE DEF S
<1>4. L + 2 \in S
  BY <1>2, <1>3, Induction
<1>5. Reads(p, f[p].pos)
  BY <1>1, <1>4 DEF S
<1> QED
  BY <1>1, <1>5 DEF f

\* The loop reads every string up to its closing quote.
LEMMA StringLoopComplete ==
  ASSUME NEW s \in Seq(Symbols), NEW a \in 1 .. Len(s), NEW b \in Nat, a <= b + 1,
         b + 1 <= Len(s), s[b + 1] = Quote, Inside(s, a, b)
  PROVE  StringLoop(s)[a].pos = b + 2
<1>1. PICK L \in Nat : L = Len(s)
  OBVIOUS
<1> DEFINE f == StringLoop(s)
           S == {m \in Nat : \A c \in 1 .. L : c <= b + 1 /\ b + 1 - c < m /\ Inside(s, c, b)
                                             => f[c].pos = b + 2}
<1> HIDE DEF f
<1>2. 0 \in S
  OBVIOUS
<1>3. ASSUME NEW m \in Nat, m \in S PROVE m + 1 \in S
  <2> SUFFICES ASSUME NEW c \in 1 .. L, c <= b + 1, b + 1 - c < m + 1, Inside(s, c, b)
               PROVE  f[c].pos = b + 2
    OBVIOUS
  <2>1. f[c] = StringStep(f, s, c)
    BY <1>1, StringLoopIs DEF f
  <2>2. peek(s, c) = s[c] /\ s[c] # "end"
    BY <1>1, PeekSees
  <2>3. CASE c = b + 1
    <3>1. s[c] = Quote
      BY <2>3
    <3>2. f[c].pos = c + 1
      BY <2>1, <2>2, <3>1 DEF StringStep, Quote, Backslash
    <3> QED
      BY <2>3, <3>2
  <2>4. CASE c <= b
    <3>1. PICK escapes \in SUBSET (c .. b - 1) :
            /\ \A k \in escapes : s[k] = Backslash /\ s[k + 1] \in Escapes
                                /\ k + 1 \notin escapes
            /\ \A k \in c .. b : s[k] \in {Quote, Backslash} => k \in escapes \/ k - 1 \in escapes
      BY Zenon DEF Inside
    <3>2. c - 1 \notin escapes
      BY <3>1
    <3>3. CASE c \in escapes
      <4>1. s[c] = Backslash /\ s[c + 1] \in Escapes /\ c + 1 \notin escapes
        BY <3>1, <3>3
      <4>2. c <= b - 1
        BY <3>1, <3>3
      <4>3. PICK d \in 1 .. L : d = c + 2 /\ d <= b + 1 /\ b + 1 - d < m
        BY <1>1, <4>2
      <4>4. Inside(s, d, b)
        <5> DEFINE fewer == escapes \ {c}
        <5>1. fewer \in SUBSET (d .. b - 1)
          BY <3>1, <4>1, <4>3
        <5>2. \A k \in fewer : s[k] = Backslash /\ s[k + 1] \in Escapes
                              /\ k + 1 \notin fewer
          BY <3>1
        <5>3. \A k \in d .. b : s[k] \in {Quote, Backslash} => k \in fewer \/ k - 1 \in fewer
          BY <3>1, <4>3
        <5> HIDE DEF fewer
        <5> QED
          BY <5>1, <5>2, <5>3 DEF Inside
      <4>5. f[d].pos = b + 2
        BY <1>3, <4>3, <4>4
      <4>6. peek(s, c + 1) \in DOMAIN Escape
        BY <1>1, <4>1, <4>2, PeekSees, EscapeDomain
      <4>7. f[c] = Prepend(Escape[peek(s, c + 1)], f[c + 2])
        BY <2>1, <2>2, <4>1, <4>6 DEF StringStep, Quote, Backslash
      <4>8. f[c].pos = f[c + 2].pos
        BY <4>7, PrependPos
      <4> QED
        BY <4>3, <4>5, <4>8
    <3>4. CASE c \notin escapes
      <4>1. s[c] \notin {Quote, Backslash}
        BY <2>4, <3>1, <3>2, <3>4
      <4>2. PICK d \in 1 .. L : d = c + 1 /\ d <= b + 1 /\ b + 1 - d < m
        BY <1>1, <2>4
      <4>3. Inside(s, d, b)
        <5>1. escapes \in SUBSET (d .. b - 1)
          BY <3>1, <3>4, <4>2
        <5>2. \A k \in d .. b : s[k] \in {Quote, Backslash} => k \in escapes \/ k - 1 \in escapes
          BY <3>1, <4>2
        <5> QED
          BY <3>1, <5>1, <5>2 DEF Inside
      <4>4. f[d].pos = b + 2
        BY <1>3, <4>2, <4>3
      <4>5. f[c] = Prepend(s[c], f[c + 1])
        BY <2>1, <2>2, <4>1 DEF StringStep
      <4>6. f[c].pos = f[c + 1].pos
        BY <4>5, PrependPos
      <4> QED
        BY <4>2, <4>4, <4>6
    <3> QED
      BY <3>3, <3>4
  <2> QED
    BY <2>3, <2>4
<1> HIDE DEF S
<1>4. b + 2 \in S
  BY <1>2, <1>3, Induction
<1> QED
  BY <1>1, <1>4 DEF S, f

\* parse_string takes the strings, with blanks before them, and nothing else.
LEMMA ParseStringSound ==
  ASSUME NEW s \in Seq(Symbols), NEW p \in 1 .. Len(s) + 1, parse_string(s, p).pos # 0
  PROVE  \E q \in Nat, r \in Nat :
           /\ r = parse_string(s, p).pos /\ p <= q /\ q + 1 < r /\ r <= Len(s) + 1
           /\ Blank(s, p, q - 1, FALSE) /\ IsString(s, q, r - 1, FALSE)
<1>1. PICK L \in Nat : L = Len(s)
  OBVIOUS
<1>2. PICK q \in Nat : /\ q = skip_whitespace(s, p) /\ p <= q /\ q <= L + 1
                      /\ Blank(s, p, q - 1, FALSE)
  BY <1>1, Whitespace, Zenon
<1>3. peek(s, q) = Quote /\ expect(s, p, Quote) = q + 1
  BY <1>2 DEF parse_string, expect, Threw
<1>4. q <= L /\ s[q] = Quote
  BY <1>1, <1>2, <1>3, PeekSees DEF Quote
<1>5. PICK c \in 1 .. L + 1 : c = q + 1
  BY <1>2, <1>4
<1>6. parse_string(s, p).pos = StringLoop(s)[c].pos
  BY <1>3, <1>5, TaggedPos DEF parse_string
<1>7. PICK r : r = StringLoop(s)[c].pos
  OBVIOUS
<1>8. r \in c + 1 .. L + 1 /\ s[r - 1] = Quote /\ Inside(s, c, r - 2)
  BY <1>1, <1>6, <1>7, StringLoopSound
<1>9. r \in Nat /\ q + 1 < r /\ r <= L + 1 /\ r - 1 \in Int /\ (r - 1) - 1 = r - 2 /\ q < r - 1
  BY <1>5, <1>8
<1>10. IsString(s, q, r - 1, FALSE)
  <2>1. PICK e \in Int : e = r - 1 /\ e - 1 = r - 2 /\ q < e
    BY <1>9
  <2>2. s[q] = Quote /\ s[e] = Quote /\ Inside(s, q + 1, e - 1)
    BY <1>4, <1>5, <1>8, <2>1
  <2>3. q \in Int
    OBVIOUS
  <2>4. IsString(s, q, e, FALSE)
    BY <2>1, <2>2, <2>3, StringIsInside, Zenon
  <2> QED
    BY <2>1, <2>4, Zenon
<1> QED
  BY <1>1, <1>2, <1>6, <1>7, <1>9, <1>10, Zenon

LEMMA ParseStringComplete ==
  ASSUME NEW s \in Seq(Symbols), NEW p \in 1 .. Len(s), NEW a \in p .. Len(s), NEW b \in a .. Len(s),
         Blank(s, p, a - 1, FALSE), IsString(s, a, b, FALSE)
  PROVE  parse_string(s, p).pos = b + 1
<1>1. PICK L \in Nat : L = Len(s)
  OBVIOUS
<1>2. a \in Nat /\ p <= a /\ a <= L + 1 /\ a \in 1 .. L /\ p \in 1 .. L + 1
  BY <1>1
<1>3. a < b /\ s[a] = Quote /\ s[b] = Quote /\ Inside(s, a + 1, b - 1)
  <2>1. a \in Int /\ b \in Int
    BY <1>1
  <2> QED
    BY <2>1, StringIsInside, Zenon
<1>4. peek(s, a) = Quote
  BY <1>1, <1>2, <1>3, PeekSees
<1>5. skip_whitespace(s, p) = a
  BY <1>1, <1>2, <1>4, WhitespaceIs, Zenon DEF Quote, Space
<1>6. expect(s, p, Quote) = a + 1 /\ a + 1 # 0
  BY <1>2, <1>4, <1>5 DEF expect
<1>7. parse_string(s, p).pos = StringLoop(s)[a + 1].pos
  BY <1>6, TaggedPos DEF parse_string
<1>8. PICK c \in 1 .. L, d \in Nat : c = a + 1 /\ d = b - 1 /\ d + 1 = b /\ c <= d + 1 /\ d + 2 = b + 1
  BY <1>1, <1>2, <1>3
<1>9. StringLoop(s)[c].pos = d + 2
  BY <1>1, <1>3, <1>8, StringLoopComplete
<1> QED
  BY <1>7, <1>8, <1>9

-----------------------------------------------------------------------------
(* Numbers: where parse_number is after the sign, the integer, the         *)
(* fraction, the sign of the exponent and the exponent.                    *)
AfterMinus(s, p) == IF peek(s, p) = "-" THEN p + 1 ELSE p
AfterInt(s, p) == Skip(s, AfterMinus(s, p), Digit)
AfterFrac(s, i) == IF peek(s, i) = "." THEN Skip(s, i + 1, Digit) ELSE i
AfterSign(s, x) == IF peek(s, x + 1) \in {"+", "-"} THEN x + 2 ELSE x + 1
AfterExp(s, x) == IF peek(s, x) = "e" THEN Skip(s, AfterSign(s, x), Digit) ELSE x

NumberThrows(s, p, int, frac, end) ==
  \/ peek(s, int) = "end" \/ peek(s, frac) = "end"
  \/ peek(s, frac) = "e" /\ peek(s, frac + 1) = "end"
  \/ \A q \in p .. frac - 1 : s[q] \notin Digit
  \/ SubSeq(s, p, end - 1) \in OutOfRange

LEMMA NumberPos ==
  ASSUME NEW s, NEW p, NEW int, NEW frac, NEW end,
         int = AfterInt(s, p), frac = AfterFrac(s, int), end = AfterExp(s, frac)
  PROVE  parse_number(s, p).pos = IF NumberThrows(s, p, int, frac, end) THEN 0 ELSE end
<1>1. ASSUME NumberThrows(s, p, int, frac, end) PROVE parse_number(s, p) = Threw
  BY <1>1 DEF parse_number, NumberThrows, AfterMinus, AfterInt, AfterFrac, AfterSign, AfterExp
<1>2. ASSUME ~ NumberThrows(s, p, int, frac, end) PROVE parse_number(s, p).pos = end
  BY <1>2 DEF parse_number, NumberThrows, AfterMinus, AfterInt, AfterFrac, AfterSign, AfterExp
<1> QED
  BY <1>1, <1>2 DEF Threw

\* What parse_number reads is a number, in the looser form.
LEMMA NumberSound ==
  ASSUME NEW s \in Seq(Symbols), NEW p \in 1 .. Len(s), s[p] \in Digit \cup {"-"},
         parse_number(s, p).pos # 0
  PROVE  \E r \in Nat : /\ r = parse_number(s, p).pos /\ p < r /\ r <= Len(s) + 1
                       /\ IsNumber(s, p, r - 1, FALSE)
<1>1. PICK L \in Nat : L = Len(s)
  OBVIOUS
<1>2. "end" \notin Digit /\ peek(s, p) = s[p]
  BY <1>1, PeekSees DEF Digit
<1>3. PICK first \in 1 .. L + 1 : first = AfterMinus(s, p) /\ first = IF s[p] = "-" THEN p + 1 ELSE p
  BY <1>1, <1>2 DEF AfterMinus
<1>4. PICK int \in Nat : int = AfterInt(s, p) /\ Stops(s, first, Digit, int)
  <2>1. Stops(s, first, Digit, Skip(s, first, Digit))
    BY <1>1, <1>2, <1>3, SkipStops
  <2>2. Skip(s, first, Digit) \in Nat
    BY <1>1, <2>1 DEF Stops
  <2> QED
    BY <1>3, <2>1, <2>2 DEF AfterInt
<1>5. first <= int /\ int <= L + 1 /\ AllDigits(s, first, int - 1)
  BY <1>1, <1>4 DEF Stops, AllDigits
<1>6. PICK frac : frac = AfterFrac(s, int)
  OBVIOUS
<1>7. PICK end : end = AfterExp(s, frac)
  OBVIOUS
<1>8. ~ NumberThrows(s, p, int, frac, end) /\ parse_number(s, p).pos = end
  BY <1>4, <1>6, <1>7, NumberPos
<1>9. int <= L /\ peek(s, int) = s[int]
  <2>1. peek(s, int) # "end"
    BY <1>8 DEF NumberThrows
  <2> QED
    BY <1>1, <1>3, <1>5, <2>1, PeekSees
<1>10. /\ frac \in Nat /\ int <= frac /\ frac <= L + 1
       /\ int < frac => s[int] = "." /\ AllDigits(s, int + 1, frac - 1)
  <2>1. CASE peek(s, int) = "."
    <3>1. PICK c \in 1 .. L + 1 : c = int + 1
      BY <1>9
    <3>2. Stops(s, c, Digit, frac)
      BY <1>1, <1>2, <1>6, <2>1, <3>1, SkipStops DEF AfterFrac
    <3>3. frac \in Nat /\ c <= frac /\ frac <= L + 1 /\ AllDigits(s, c, frac - 1)
      BY <1>1, <3>1, <3>2 DEF Stops, AllDigits
    <3> QED
      BY <1>9, <2>1, <3>1, <3>3
  <2>2. CASE peek(s, int) # "."
    BY <1>5, <1>6, <2>2 DEF AfterFrac
  <2> QED
    BY <2>1, <2>2
<1>11. frac <= L /\ peek(s, frac) = s[frac]
  <2>1. peek(s, frac) # "end"
    BY <1>8 DEF NumberThrows
  <2> QED
    BY <1>1, <1>3, <1>5, <1>10, <2>1, PeekSees
<1> DEFINE exp == IF frac + 1 <= end - 1 /\ s[frac + 1] \in {"+", "-"} THEN frac + 2 ELSE frac + 1
<1>12. /\ end \in Nat /\ frac <= end /\ end <= L + 1
       /\ frac < end => s[frac] = "e" /\ AllDigits(s, exp, end - 1)
  <2>1. CASE peek(s, frac) = "e"
    <3>1. peek(s, frac + 1) # "end"
      BY <1>8, <2>1 DEF NumberThrows
    <3>2. frac + 1 <= L /\ peek(s, frac + 1) = s[frac + 1]
      BY <1>1, <1>3, <1>5, <1>10, <3>1, PeekSees
    <3>3. PICK c \in 1 .. L + 1 :
            c = AfterSign(s, frac) /\ c = IF s[frac + 1] \in {"+", "-"} THEN frac + 2 ELSE frac + 1
      BY <1>10, <3>2 DEF AfterSign
    <3>4. Stops(s, c, Digit, end)
      BY <1>1, <1>2, <1>7, <2>1, <3>3, SkipStops DEF AfterExp
    <3>5. end \in Nat /\ c <= end /\ end <= L + 1 /\ AllDigits(s, c, end - 1)
      BY <1>1, <3>3, <3>4 DEF Stops, AllDigits
    <3>6. c = exp
      BY <1>10, <3>3, <3>5
    <3> QED
      BY <1>10, <1>11, <2>1, <3>3, <3>5, <3>6
  <2>2. CASE peek(s, frac) # "e"
    BY <1>7, <1>10, <2>2 DEF AfterExp
  <2> QED
    BY <2>1, <2>2
<1>13. PICK k \in p .. frac - 1 : s[k] \in Digit
  BY <1>8 DEF NumberThrows
<1>14. SubSeq(s, p, end - 1) \notin OutOfRange
  BY <1>8 DEF NumberThrows
<1>15. IsNumber(s, p, end - 1, FALSE)
  <2>1. PICK m \in first - 1 .. end - 1 : m = int - 1 /\ m + 1 = int /\ m + 2 = int + 1
    BY <1>5, <1>10, <1>12
  <2>2. PICK x \in m .. end - 1 : x = frac - 1 /\ x + 1 = frac /\ x + 2 = frac + 1 /\ x + 3 = frac + 2
    BY <1>10, <1>12, <2>1
  <2>3. p <= end - 1 /\ (m < x => int < frac) /\ (x < end - 1 => frac < end)
    BY <1>10, <1>12, <1>13, <2>1, <2>2
  <2>4. \E j \in p .. x : s[j] \in Digit
    BY <1>13, <2>2
  <2>5. AllDigits(s, first, m)
    BY <1>5, <2>1
  <2>6. m < x => s[m + 1] = "." /\ AllDigits(s, m + 2, x)
    BY <1>10, <2>1, <2>2, <2>3
  <2>7. x < end - 1 => s[x + 1] = "e" /\ AllDigits(s, exp, end - 1)
    BY <1>12, <2>2, <2>3
  <2>8. exp = IF x + 2 <= end - 1 /\ s[x + 2] \in {"+", "-"} THEN x + 3 ELSE x + 2
    BY <2>2
  <2> HIDE DEF exp
  <2> QED
    BY <1>3, <1>14, <2>3, <2>4, <2>5, <2>6, <2>7, <2>8 DEF IsNumber
<1>16. end \in Nat /\ p < end /\ end <= Len(s) + 1
  BY <1>1, <1>10, <1>12, <1>13
<1> QED
  BY <1>8, <1>15, <1>16, Zenon

\* What follows a value that something follows.
Ends == Space \cup {"comma", "]", "rbrace"}

\* parse_number reads every number of JSON that is followed by a symbol which ends
\* a value, or by nothing if it has an exponent.
LEMMA NumberComplete ==
  ASSUME NEW s \in Seq(Symbols), NEW a \in 1 .. Len(s), NEW b \in a .. Len(s),
         IsNumber(s, a, b, TRUE),
         \/ peek(s, b + 1) \in Ends
         \/ peek(s, b + 1) = "end" /\ \E k \in a .. b : s[k] = "e"
  PROVE  parse_number(s, a).pos = b + 1
<1>1. PICK L \in Nat : L = Len(s)
  OBVIOUS
<1>2. "end" \notin Digit /\ peek(s, a) = s[a]
  BY <1>1, PeekSees DEF Digit
<1>3. PICK first \in 1 .. L + 1 : first = AfterMinus(s, a) /\ first = IF s[a] = "-" THEN a + 1 ELSE a
  BY <1>1, <1>2 DEF AfterMinus
<1> DEFINE Exp(x) == IF x + 2 <= b /\ s[x + 2] \in {"+", "-"} THEN x + 3 ELSE x + 2
<1>4. PICK m \in first - 1 .. b : \E x \in m .. b :
        /\ AllDigits(s, first, m)
        /\ first <= m
        /\ m < x => s[m + 1] = "." /\ AllDigits(s, m + 2, x)
        /\ x < b => s[x + 1] = "e" /\ AllDigits(s, Exp(x), b) /\ Exp(x) <= b
        /\ \E k \in a .. x : s[k] \in Digit
  BY <1>3, ZenonT(30) DEF IsNumber
<1>5. PICK x \in m .. b :
        /\ AllDigits(s, first, m)
        /\ first <= m
        /\ m < x => s[m + 1] = "." /\ AllDigits(s, m + 2, x)
        /\ x < b => s[x + 1] = "e" /\ AllDigits(s, Exp(x), b) /\ Exp(x) <= b
        /\ \E k \in a .. x : s[k] \in Digit
  BY <1>4
<1>6. SubSeq(s, a, b) \notin OutOfRange
  BY DEF IsNumber
<1>7. a \in Nat /\ m \in Nat /\ x \in Nat /\ b \in Nat /\ a <= first /\ first <= m /\ m <= x /\ x <= b /\ b <= L
  BY <1>1, <1>3, <1>5
<1>8. peek(s, b + 1) \notin Digit \cup {".", "e", "-", "+"}
  BY DEF Digit, Ends, Space
<1>9. x < b => peek(s, x + 1) = "e" /\ x + 2 <= b /\ peek(s, x + 2) = s[x + 2]
  <2>1. x < b => x + 2 <= b
    BY <1>5, <1>7
  <2>2. x < b => s[x + 1] = "e"
    BY <1>5
  <2>3. x < b => peek(s, x + 1) = s[x + 1]
    BY <1>1, <1>7, PeekSees
  <2>4. x < b => peek(s, x + 2) = s[x + 2]
    BY <1>1, <1>7, <2>1, PeekSees
  <2> QED
    BY <2>1, <2>2, <2>3, <2>4
<1>10. m < x => peek(s, m + 1) = "."
  BY <1>1, <1>5, <1>7, PeekSees
<1>11. peek(s, x + 1) \notin Digit \cup {"."}
  <2>1. CASE x < b
    BY <1>9, <2>1 DEF Digit
  <2>2. CASE x = b
    BY <1>8, <2>2
  <2> QED
    BY <1>7, <2>1, <2>2
<1>12. AfterInt(s, a) = m + 1
  <2>1. peek(s, m + 1) \notin Digit
    <3>1. CASE m < x
      BY <1>10, <3>1 DEF Digit
    <3>2. CASE m = x
      BY <1>11, <3>2
    <3> QED
      BY <1>7, <3>1, <3>2
  <2>2. PICK c \in Nat : c = m + 1 /\ c - 1 = m /\ c \in first .. L + 1
    BY <1>7
  <2>3. Stops(s, first, Digit, c)
    BY <1>1, <1>5, <2>1, <2>2 DEF Stops, AllDigits
  <2> QED
    BY <1>1, <1>2, <1>3, <2>2, <2>3, SkipIs DEF AfterInt
<1>13. AfterFrac(s, m + 1) = x + 1
  <2>1. CASE m < x
    <3>1. PICK c \in 1 .. L + 1 : c = m + 2 /\ c = (m + 1) + 1
      BY <1>7, <2>1
    <3>2. PICK d \in Nat : d = x + 1 /\ d - 1 = x /\ d \in c .. L + 1
      BY <1>7, <2>1, <3>1
    <3>3. Stops(s, c, Digit, d)
      BY <1>1, <1>5, <1>11, <2>1, <3>1, <3>2 DEF Stops, AllDigits
    <3>4. Skip(s, c, Digit) = d
      BY <1>1, <1>2, <3>1, <3>3, SkipIs
    <3> QED
      BY <1>10, <2>1, <3>1, <3>2, <3>4 DEF AfterFrac
  <2>2. CASE m = x
    BY <1>11, <2>2 DEF AfterFrac
  <2> QED
    BY <1>7, <2>1, <2>2
<1>14. AfterExp(s, x + 1) = b + 1
  <2>1. CASE x < b
    <3>1. Exp(x) \in 1 .. L + 1 /\ Exp(x) <= b /\ AllDigits(s, Exp(x), b)
      BY <1>5, <1>7, <2>1
    <3>2. AfterSign(s, x + 1) = Exp(x)
      BY <1>7, <1>9, <2>1 DEF AfterSign
    <3>3. PICK c \in 1 .. L + 1 : c = Exp(x)
      BY <3>1
    <3>4. PICK d \in Nat : d = b + 1 /\ d - 1 = b /\ d \in c .. L + 1
      BY <1>7, <3>1, <3>3
    <3>5. Stops(s, c, Digit, d)
      <4>1. peek(s, d) \notin Digit
        BY <1>8, <3>4
      <4> HIDE DEF Exp
      <4> QED
        BY <1>1, <3>1, <3>3, <3>4, <4>1 DEF Stops, AllDigits
    <3>6. Skip(s, c, Digit) = d
      BY <1>1, <1>2, <3>3, <3>5, SkipIs
    <3> HIDE DEF Exp
    <3> QED
      BY <1>9, <2>1, <3>2, <3>3, <3>4, <3>6 DEF AfterExp
  <2>2. CASE x = b
    <3>1. peek(s, x + 1) # "e"
      BY <1>8, <2>2
    <3> QED
      BY <2>2, <3>1 DEF AfterExp
  <2> QED
    BY <1>7, <2>1, <2>2
<1>15. x = b => b + 1 <= L
  <2> SUFFICES ASSUME x = b PROVE peek(s, b + 1) # "end"
    BY <1>1, <1>7, PeekSees
  <2>1. ASSUME NEW k \in a .. b PROVE s[k] # "e"
    <3>1. CASE k <= m
      <4>1. k < first => s[k] = "-"
        BY <1>3
      <4>2. first <= k => s[k] \in Digit
        BY <1>5, <1>7, <3>1 DEF AllDigits
      <4> QED
        BY <1>7, <4>1, <4>2 DEF Digit
    <3>2. CASE m < k
      <4>1. k = m + 1 => s[k] = "."
        BY <1>5, <1>7, <3>2
      <4>2. m + 1 < k => s[k] \in Digit
        BY <1>5, <1>7, <3>2 DEF AllDigits
      <4> QED
        BY <1>7, <3>2, <4>1, <4>2 DEF Digit
    <3> QED
      BY <1>7, <3>1, <3>2
  <2> QED
    BY <2>1 DEF Ends, Space
<1>16. ~ NumberThrows(s, a, m + 1, x + 1, b + 1)
  <2>1. x + 1 <= L /\ m + 1 <= L
    BY <1>7, <1>15
  <2>2. peek(s, m + 1) # "end" /\ peek(s, x + 1) # "end"
    BY <1>1, <1>7, <2>1, PeekSees
  <2>3. peek(s, x + 1) = "e" => peek(s, (x + 1) + 1) # "end"
    <3>1. peek(s, x + 1) = "e" => x < b
      BY <1>7, <1>8
    <3>2. x < b => x + 2 <= L /\ (x + 1) + 1 = x + 2
      BY <1>7, <1>9
    <3>3. x + 2 <= L => peek(s, x + 2) # "end"
      BY <1>1, <1>7, PeekSees
    <3> QED
      BY <3>1, <3>2, <3>3
  <2>4. \E q \in a .. (x + 1) - 1 : s[q] \in Digit
    BY <1>5, <1>7
  <2>5. (b + 1) - 1 = b
    BY <1>7
  <2> QED
    BY <1>6, <2>2, <2>3, <2>4, <2>5 DEF NumberThrows
<1> QED
  BY <1>12, <1>13, <1>14, <1>16, NumberPos

-----------------------------------------------------------------------------
(* The parse functions call each other for later positions only, so what   *)
(* Parser says they call each other for exists.                            *)
Ahead(s, r, p) == r = 0 \/ (r \in Nat /\ p < r /\ r <= Len(s) + 1)

LEMMA StringAhead ==
  ASSUME NEW s \in Seq(Symbols), NEW p \in 1 .. Len(s) + 1
  PROVE  Ahead(s, parse_string(s, p).pos, p)
<1> SUFFICES ASSUME parse_string(s, p).pos # 0 PROVE Ahead(s, parse_string(s, p).pos, p)
  BY DEF Ahead
<1>1. PICK q \in Nat, r \in Nat :
        r = parse_string(s, p).pos /\ p <= q /\ q + 1 < r /\ r <= Len(s) + 1
  BY ParseStringSound, Zenon
<1>2. p \in Int
  OBVIOUS
<1> QED
  BY <1>1, <1>2 DEF Ahead

\* P and Q are the same behind p, and go forward there.
SameBehind(P, Q, s, p) ==
  \A kind \in Kinds, q \in 1 .. Len(s) + 1 :
    p < q => P[<<kind, q>>] = Q[<<kind, q>>] /\ Ahead(s, P[<<kind, q>>].pos, q)

LEMMA BracketedAgrees ==
  ASSUME NEW s \in Seq(Symbols), NEW kind \in Kinds, NEW p \in 1 .. Len(s), NEW P, NEW Q,
         SameBehind(P, Q, s, p)
  PROVE  /\ Bracketed(P, s, kind, p) = Bracketed(Q, s, kind, p)
         /\ Ahead(s, Bracketed(P, s, kind, p).pos, p)
<1>1. PICK L \in Nat : L = Len(s)
  OBVIOUS
<1>2. PICK c \in 1 .. L + 1 : c = p + 1
  BY <1>1
<1>3. PICK q \in Nat : q = skip_whitespace(s, c) /\ c <= q /\ q <= L + 1
  BY <1>1, Whitespace, Zenon
<1>4. q \in 1 .. L + 1 /\ p < q
  BY <1>2, <1>3
<1>5. P[<<kind, q>>] = Q[<<kind, q>>] /\ Ahead(s, P[<<kind, q>>].pos, q)
  BY <1>1, <1>4 DEF SameBehind
<1>6. CASE peek(s, q) = "end"
  <2>1. Close[kind] # "end"
    BY DEF Close, Kinds
  <2> QED
    BY <1>2, <1>3, <1>6, <2>1 DEF Bracketed, Threw, Ahead
<1>7. CASE peek(s, q) # "end" /\ peek(s, q) = Close[kind]
  <2>1. q <= L
    BY <1>1, <1>4, <1>7, PeekSees
  <2>2. q + 1 \in Nat /\ p < q + 1 /\ q + 1 <= Len(s) + 1
    BY <1>1, <1>4, <2>1
  <2>3. /\ Bracketed(P, s, kind, p) = [pos |-> q + 1, val |-> <<>>]
        /\ Bracketed(Q, s, kind, p) = [pos |-> q + 1, val |-> <<>>]
    BY <1>2, <1>3, <1>7 DEF Bracketed
  <2> QED
    BY <2>2, <2>3 DEF Ahead
<1>8. CASE peek(s, q) # "end" /\ peek(s, q) # Close[kind]
  <2>1. Bracketed(P, s, kind, p) = P[<<kind, q>>] /\ Bracketed(Q, s, kind, p) = Q[<<kind, q>>]
    BY <1>2, <1>3, <1>8 DEF Bracketed
  <2>2. Ahead(s, P[<<kind, q>>].pos, p)
    BY <1>4, <1>5 DEF Ahead
  <2> QED
    BY <1>5, <2>1, <2>2
<1> QED
  BY <1>6, <1>7, <1>8

LEMMA ValueAgrees ==
  ASSUME NEW s \in Seq(Symbols), NEW p \in 1 .. Len(s) + 1, NEW P, NEW Q, SameBehind(P, Q, s, p)
  PROVE  /\ parse_value(P, s, p) = parse_value(Q, s, p)
         /\ Ahead(s, parse_value(P, s, p).pos, p)
<1>1. PICK L \in Nat : L = Len(s)
  OBVIOUS
<1>2. PICK q \in Nat : q = skip_whitespace(s, p) /\ p <= q /\ q <= L + 1
  BY <1>1, Whitespace, ZenonT(30)
<1>3. ASSUME NEW r, Ahead(s, r, q) PROVE Ahead(s, r, p)
  BY <1>2, <1>3 DEF Ahead
<1>4. CASE q = L + 1
  <2>1. peek(s, q) = "end"
    BY <1>1, <1>4, PeekSees
  <2>2. parse_value(P, s, p) = Threw /\ parse_value(Q, s, p) = Threw
    BY <1>2, <2>1 DEF parse_value, Quote, Digit, Literals
  <2> QED
    BY <2>2 DEF Threw, Ahead
<1>5. CASE q <= L
  <2>1. q \in 1 .. Len(s) /\ peek(s, q) = s[q]
    BY <1>1, <1>2, <1>5, PeekSees
  <2>2. SameBehind(P, Q, s, q)
    BY <1>1, <1>2 DEF SameBehind
  <2>3. CASE s[q] = Quote
    <3>1. parse_value(P, s, p) = parse_string(s, q) /\ parse_value(Q, s, p) = parse_string(s, q)
      BY <1>2, <2>1, <2>3 DEF parse_value, Quote, Digit, Literals
    <3>2. Ahead(s, parse_string(s, q).pos, q)
      <4>1. q \in 1 .. Len(s) + 1
        BY <1>1, <1>2
      <4> QED
        BY <4>1, StringAhead
    <3> QED
      BY <1>3, <3>1, <3>2
  <2>4. CASE s[q] \in Digit \cup {"-"}
    <3>1. parse_value(P, s, p) = parse_number(s, q) /\ parse_value(Q, s, p) = parse_number(s, q)
      BY <1>2, <2>1, <2>4 DEF parse_value, Quote, Digit, Literals
    <3>2. Ahead(s, parse_number(s, q).pos, q)
      <4> SUFFICES ASSUME parse_number(s, q).pos # 0 PROVE Ahead(s, parse_number(s, q).pos, q)
        BY DEF Ahead
      <4>1. PICK r \in Nat : r = parse_number(s, q).pos /\ q < r /\ r <= Len(s) + 1
        BY <2>1, <2>4, NumberSound, Zenon
      <4> QED
        BY <4>1 DEF Ahead
    <3> QED
      BY <1>3, <3>1, <3>2
  <2>5. CASE s[q] = "["
    <3>1. parse_value(P, s, p) = parse_array(P, s, q) /\ parse_value(Q, s, p) = parse_array(Q, s, q)
      BY <1>2, <2>1, <2>5 DEF parse_value, Quote, Digit, Literals
    <3>2. /\ Bracketed(P, s, "array", q) = Bracketed(Q, s, "array", q)
          /\ Ahead(s, Bracketed(P, s, "array", q).pos, q)
      BY <2>1, <2>2, BracketedAgrees DEF Kinds
    <3>3. parse_array(P, s, q) = parse_array(Q, s, q)
      BY <3>2 DEF parse_array
    <3>4. parse_array(P, s, q).pos = Bracketed(P, s, "array", q).pos
      BY TaggedPos DEF parse_array
    <3> QED
      BY <1>3, <3>1, <3>2, <3>3, <3>4
  <2>6. CASE s[q] = "lbrace"
    <3>1. parse_value(P, s, p) = parse_object(P, s, q) /\ parse_value(Q, s, p) = parse_object(Q, s, q)
      BY <1>2, <2>1, <2>6 DEF parse_value, Quote, Digit, Literals
    <3>2. /\ Bracketed(P, s, "object", q) = Bracketed(Q, s, "object", q)
          /\ Ahead(s, Bracketed(P, s, "object", q).pos, q)
      BY <2>1, <2>2, BracketedAgrees DEF Kinds
    <3>3. parse_object(P, s, q) = parse_object(Q, s, q)
      BY <3>2 DEF parse_object
    <3>4. parse_object(P, s, q).pos = Bracketed(P, s, "object", q).pos
      BY DEF parse_object, Threw
    <3> QED
      BY <1>3, <3>1, <3>2, <3>3, <3>4
  <2>7. CASE s[q] \in Literals
    <3>1. /\ parse_value(P, s, p) = [pos |-> q + 1, val |-> <<"literal", s[q]>>]
          /\ parse_value(Q, s, p) = [pos |-> q + 1, val |-> <<"literal", s[q]>>]
      BY <1>2, <2>1, <2>7 DEF parse_value, Quote, Digit, Literals
    <3>2. q + 1 \in Nat /\ p < q + 1 /\ q + 1 <= Len(s) + 1
      BY <1>1, <1>2, <1>5
    <3> QED
      BY <3>1, <3>2 DEF Ahead
  <2>8. CASE s[q] \notin Digit \cup Literals \cup {Quote, "-", "[", "lbrace"}
    <3>1. parse_value(P, s, p) = Threw /\ parse_value(Q, s, p) = Threw
      BY <1>2, <2>1, <2>8 DEF parse_value
    <3> QED
      BY <3>1 DEF Threw, Ahead
  <2> QED
    BY <2>3, <2>4, <2>5, <2>6, <2>7, <2>8
<1> QED
  BY <1>2, <1>4, <1>5

LEMMA ItemAgrees ==
  ASSUME NEW s \in Seq(Symbols), NEW kind \in Kinds, NEW p \in 1 .. Len(s) + 1, NEW P, NEW Q,
         SameBehind(P, Q, s, p)
  PROVE  /\ Item(P, s, kind, p) = Item(Q, s, kind, p)
         /\ Ahead(s, Item(P, s, kind, p).pos, p)
<1>1. PICK L \in Nat : L = Len(s)
  OBVIOUS
<1>2. CASE kind = "array"
  BY <1>2, ValueAgrees DEF Item
<1>3. CASE kind # "array"
  <2> SUFFICES Member(P, s, p) = Member(Q, s, p) /\ Ahead(s, Member(P, s, p).pos, p)
    BY <1>3 DEF Item
  <2>1. CASE parse_string(s, p).pos = 0
    <3>1. Member(P, s, p) = Threw /\ Member(Q, s, p) = Threw
      BY <2>1 DEF Member, Threw
    <3> QED
      BY <3>1 DEF Threw, Ahead
  <2>2. CASE parse_string(s, p).pos # 0
    <3>1. PICK r \in 1 .. L + 1 : r = parse_string(s, p).pos /\ p < r
      BY <1>1, <2>2, StringAhead DEF Ahead
    <3>2. PICK q \in Nat : q = skip_whitespace(s, r) /\ r <= q /\ q <= L + 1
      BY <1>1, <3>1, Whitespace, ZenonT(30)
    <3>3. CASE peek(s, q) # ":"
      <4>1. expect(s, r, ":") = 0
        BY <3>2, <3>3 DEF expect
      <4>2. Member(P, s, p) = Threw /\ Member(Q, s, p) = Threw
        BY <3>1, <4>1 DEF Member, Threw
      <4> QED
        BY <4>2 DEF Threw, Ahead
    <3>4. CASE peek(s, q) = ":"
      <4>1. q <= L
        BY <1>1, <3>1, <3>2, <3>4, PeekSees
      <4>2. PICK c \in 1 .. L + 1 : c = q + 1 /\ p < c
        BY <3>1, <3>2, <4>1
      <4>3. expect(s, r, ":") = c /\ c # 0
        BY <3>2, <3>4, <4>2 DEF expect
      <4>4. SameBehind(P, Q, s, c)
        BY <1>1, <4>2 DEF SameBehind
      <4>5. parse_value(P, s, c) = parse_value(Q, s, c) /\ Ahead(s, parse_value(P, s, c).pos, c)
        BY <1>1, <4>4, ValueAgrees
      <4>6. Member(P, s, p) = Member(Q, s, p)
        BY <3>1, <4>3, <4>5 DEF Member
      <4>7. Member(P, s, p).pos = parse_value(P, s, c).pos
        BY <3>1, <4>3 DEF Member, Threw
      <4>8. Ahead(s, parse_value(P, s, c).pos, p)
        BY <4>2, <4>5 DEF Ahead
      <4> QED
        BY <4>6, <4>7, <4>8
    <3> QED
      BY <3>3, <3>4
  <2> QED
    BY <2>1, <2>2
<1> QED
  BY <1>2, <1>3

LEMMA ItemsAgree ==
  ASSUME NEW s \in Seq(Symbols), NEW kind \in Kinds, NEW p \in 1 .. Len(s) + 1, NEW P, NEW Q,
         SameBehind(P, Q, s, p)
  PROVE  /\ Items(P, s, kind, p) = Items(Q, s, kind, p)
         /\ Ahead(s, Items(P, s, kind, p).pos, p)
<1>1. PICK L \in Nat : L = Len(s)
  OBVIOUS
<1>2. PICK v : v = Item(P, s, kind, p) /\ v = Item(Q, s, kind, p) /\ Ahead(s, v.pos, p)
  BY ItemAgrees
<1>3. Close[kind] # "comma" /\ Close[kind] # "end"
  BY DEF Close, Kinds
<1>4. CASE v.pos = 0
  <2>1. Items(P, s, kind, p) = Threw /\ Items(Q, s, kind, p) = Threw
    BY <1>2, <1>4 DEF Items, ItemsFrom
  <2> QED
    BY <2>1 DEF Threw, Ahead
<1>5. CASE v.pos # 0
  <2>1. PICK r \in 1 .. L + 1 : r = v.pos /\ p < r
    BY <1>1, <1>2, <1>5 DEF Ahead
  <2>2. PICK q \in Nat : q = skip_whitespace(s, r) /\ r <= q /\ q <= L + 1
    BY <1>1, <2>1, Whitespace, Zenon
  <2>3. peek(s, q) # "end" => q <= L
    BY <1>1, <2>1, <2>2, PeekSees
  <2>4. q <= L => q + 1 \in 1 .. L + 1 /\ p < q + 1
    BY <2>1, <2>2
  <2>5. CASE peek(s, q) = "comma"
    <3>1. PICK c \in 1 .. L + 1 : c = q + 1 /\ p < c
      BY <2>3, <2>4, <2>5
    <3>2. P[<<kind, c>>] = Q[<<kind, c>>] /\ Ahead(s, P[<<kind, c>>].pos, c)
      BY <1>1, <3>1 DEF SameBehind
    <3>3. /\ Items(P, s, kind, p) = Prepend(v.val, P[<<kind, c>>])
          /\ Items(Q, s, kind, p) = Prepend(v.val, Q[<<kind, c>>])
      BY <1>2, <1>3, <1>5, <2>1, <2>2, <2>5, <3>1 DEF Items, ItemsFrom
    <3>4. Items(P, s, kind, p).pos = P[<<kind, c>>].pos
      BY <3>3, PrependPos
    <3>5. Ahead(s, P[<<kind, c>>].pos, p)
      BY <3>1, <3>2 DEF Ahead
    <3> QED
      BY <3>2, <3>3, <3>4, <3>5
  <2>6. CASE peek(s, q) = Close[kind]
    <3>1. /\ Items(P, s, kind, p) = [pos |-> q + 1, val |-> <<v.val>>]
          /\ Items(Q, s, kind, p) = [pos |-> q + 1, val |-> <<v.val>>]
      BY <1>2, <1>3, <1>5, <2>1, <2>2, <2>6 DEF Items, ItemsFrom
    <3>2. q + 1 \in Nat /\ p < q + 1 /\ q + 1 <= Len(s) + 1
      BY <1>1, <1>3, <2>2, <2>3, <2>4, <2>6
    <3> QED
      BY <3>1, <3>2 DEF Ahead
  <2>7. CASE peek(s, q) # "comma" /\ peek(s, q) # Close[kind]
    <3>1. Items(P, s, kind, p) = Threw /\ Items(Q, s, kind, p) = Threw
      BY <1>2, <1>5, <2>1, <2>2, <2>7 DEF Items, ItemsFrom
    <3> QED
      BY <3>1 DEF Threw, Ahead
  <2> QED
    BY <2>5, <2>6, <2>7
<1> QED
  BY <1>4, <1>5

IsParser(P, s) == P = [x \in Kinds \X (1 .. Len(s) + 1) |-> Items(P, s, x[1], x[2])]

LEMMA ParserExists ==
  ASSUME NEW s \in Seq(Symbols)
  PROVE  \E P : IsParser(P, s)
<1>1. PICK L \in Nat : L = Len(s)
  OBVIOUS
<1> DEFINE From(P, m) ==
             \A kind \in Kinds, p \in 1 .. L + 1 : L + 1 - p < m =>
               P[<<kind, p>>] = Items(P, s, kind, p) /\ Ahead(s, P[<<kind, p>>].pos, p)
           S == {m \in Nat : \E P : From(P, m)}
<1>2. 0 \in S
  OBVIOUS
<1>3. ASSUME NEW m \in Nat, m \in S PROVE m + 1 \in S
  <2>1. PICK P : From(P, m)
    BY <1>3
  <2> DEFINE Q == [x \in Kinds \X (1 .. L + 1) |->
                    IF L + 1 - x[2] < m THEN P[x] ELSE Items(P, s, x[1], x[2])]
  <2>2. \A kind \in Kinds, p \in 1 .. L + 1 :
          Q[<<kind, p>>] = IF L + 1 - p < m THEN P[<<kind, p>>] ELSE Items(P, s, kind, p)
    OBVIOUS
  <2> HIDE DEF Q
  <2>3. ASSUME NEW kind \in Kinds, NEW p \in 1 .. L + 1, L + 1 - p < m + 1
        PROVE  Q[<<kind, p>>] = Items(Q, s, kind, p) /\ Ahead(s, Q[<<kind, p>>].pos, p)
    <3>1. ASSUME NEW k \in Kinds, NEW q \in 1 .. L + 1, p < q
          PROVE  P[<<k, q>>] = Q[<<k, q>>] /\ Ahead(s, P[<<k, q>>].pos, q)
      <4>1. L + 1 - q < m
        BY <2>3, <3>1
      <4> QED
        BY <2>1, <2>2, <4>1
    <3>2. SameBehind(P, Q, s, p)
      BY <1>1, <3>1 DEF SameBehind
    <3>3. Items(P, s, kind, p) = Items(Q, s, kind, p) /\ Ahead(s, Items(P, s, kind, p).pos, p)
      BY <1>1, <3>2, ItemsAgree
    <3>4. Q[<<kind, p>>] = Items(P, s, kind, p)
      BY <2>1, <2>2
    <3> QED
      BY <3>3, <3>4
  <2>4. From(Q, m + 1)
    BY <2>3
  <2>5. \E f : From(f, m + 1)
    BY <2>4
  <2> QED
    BY <2>5
<1> HIDE DEF S
<1>4. L + 1 \in S
  BY <1>2, <1>3, Induction
<1>5. PICK P : From(P, L + 1)
  BY <1>4 DEF S
<1> DEFINE Q == [x \in Kinds \X (1 .. L + 1) |-> P[x]]
<1>6. \A kind \in Kinds, p \in 1 .. L + 1 : Q[<<kind, p>>] = P[<<kind, p>>]
  OBVIOUS
<1>7. ASSUME NEW kind \in Kinds, NEW p \in 1 .. L + 1
      PROVE  P[<<kind, p>>] = Items(Q, s, kind, p)
  <2> HIDE DEF Q
  <2>1. P[<<kind, p>>] = Items(P, s, kind, p)
    BY <1>5
  <2>2. SameBehind(P, Q, s, p)
    BY <1>1, <1>5, <1>6 DEF SameBehind
  <2> QED
    BY <1>1, <2>1, <2>2, ItemsAgree
<1>8. ASSUME NEW x \in Kinds \X (1 .. L + 1) PROVE P[x] = Items(Q, s, x[1], x[2])
  <2> HIDE DEF Q
  <2>1. x = <<x[1], x[2]>> /\ x[1] \in Kinds /\ x[2] \in 1 .. L + 1
    OBVIOUS
  <2> QED
    BY <1>7, <2>1
<1>9. Q = [x \in Kinds \X (1 .. L + 1) |-> Items(Q, s, x[1], x[2])]
  BY <1>8, Zenon
<1> HIDE DEF Q
<1> QED
  BY <1>1, <1>9 DEF IsParser

\* What the parse functions read at each position is what Parser says.
LEMMA ParserIs ==
  ASSUME NEW s \in Seq(Symbols), NEW kind \in Kinds, NEW p \in 1 .. Len(s) + 1
  PROVE  Parser(s)[<<kind, p>>] = Items(Parser(s), s, kind, p)
<1>1. Parser(s) = CHOOSE P : IsParser(P, s)
  BY DEF Parser, IsParser
<1>2. IsParser(Parser(s), s)
  BY <1>1, ParserExists
<1> QED
  BY <1>2 DEF IsParser

\* Blanks before the items make no difference.
LEMMA ItemsSkip ==
  ASSUME NEW s \in Seq(Symbols), NEW kind \in Kinds, NEW p \in 1 .. Len(s) + 1, NEW P
  PROVE  Items(P, s, kind, p) = Items(P, s, kind, skip_whitespace(s, p))
<1>1. PICK q : q = skip_whitespace(s, p) /\ skip_whitespace(s, q) = q
  BY SkipsOnce
<1>2. parse_value(P, s, p) = parse_value(P, s, q)
  BY <1>1 DEF parse_value
<1>3. parse_string(s, p) = parse_string(s, q)
  BY <1>1 DEF parse_string, expect
<1>4. Item(P, s, kind, p) = Item(P, s, kind, q)
  BY <1>2, <1>3 DEF Item, Member
<1> QED
  BY <1>1, <1>4 DEF Items, ItemsFrom

-----------------------------------------------------------------------------
(* A part of a text consists of shorter parts, so what Grammar says exists. *)
SameWithin(G, H, s, a, b) ==
  \A kind \in Kinds, c \in 1 .. Len(s) + 1, d \in 0 .. Len(s) :
    a <= c /\ d <= b /\ d - c < b - a => G[<<kind, c, d>>] = H[<<kind, c, d>>]

LEMMA ElementAgrees ==
  ASSUME NEW s \in Seq(Symbols), NEW a \in 1 .. Len(s) + 1, NEW b \in 0 .. Len(s), NEW strict,
         NEW G, NEW H, SameWithin(G, H, s, a, b),
         NEW c \in a .. Len(s) + 1, NEW d \in 0 .. b
  PROVE  IsElement(G, s, c, d, strict) <=> IsElement(H, s, c, d, strict)
<1>1. PICK L \in Nat : L = Len(s)
  OBVIOUS
<1>2. ASSUME NEW i \in c .. d, NEW j \in i .. d
      PROVE  IsValue(G, s, i, j, strict) <=> IsValue(H, s, i, j, strict)
  <2>1. ASSUME NEW kind \in Kinds, i < j PROVE G[<<kind, i + 1, j - 1>>] = H[<<kind, i + 1, j - 1>>]
    <3>1. PICK e \in 1 .. L + 1 : e = i + 1
      BY <1>1
    <3>2. PICK g \in 0 .. L : g = j - 1
      BY <1>1, <2>1
    <3>3. a <= e /\ g <= b /\ g - e < b - a
      BY <1>1, <2>1, <3>1, <3>2
    <3> QED
      BY <1>1, <3>1, <3>2, <3>3, Zenon DEF SameWithin
  <2> QED
    BY <2>1, Zenon DEF IsValue
<1> QED
  BY <1>2 DEF IsElement

LEMMA ItemsWithin ==
  ASSUME NEW s \in Seq(Symbols), NEW kind \in Kinds,
         NEW a \in 1 .. Len(s) + 1, NEW b \in 0 .. Len(s), NEW strict,
         NEW G, NEW H, SameWithin(G, H, s, a, b)
  PROVE  IsItems(G, s, kind, a, b, strict) = IsItems(H, s, kind, a, b, strict)
<1>1. PICK L \in Nat : L = Len(s)
  OBVIOUS
<1>2. ASSUME NEW d \in 0 .. b
      PROVE  IsItem(G, s, kind, a, d, strict) <=> IsItem(H, s, kind, a, d, strict)
  <2>1. IsElement(G, s, a, d, strict) <=> IsElement(H, s, a, d, strict)
    <3>1. a \in a .. Len(s) + 1
      BY <1>1
    <3> QED
      BY <3>1, ElementAgrees
  <2>2. ASSUME NEW c \in a .. d
        PROVE  IsElement(G, s, c + 1, d, strict) <=> IsElement(H, s, c + 1, d, strict)
    <3>1. PICK e \in a .. Len(s) + 1 : e = c + 1
      BY <1>1
    <3> QED
      BY <3>1, ElementAgrees
  <2> QED
    BY <2>1, <2>2 DEF IsItem
<1>3. IsItem(G, s, kind, a, b, strict) <=> IsItem(H, s, kind, a, b, strict)
  <2>1. b \in 0 .. b
    BY <1>1
  <2> QED
    BY <1>2, <2>1
<1>4. ASSUME NEW c \in a .. b
      PROVE  /\ IsItem(G, s, kind, a, c - 1, strict) <=> IsItem(H, s, kind, a, c - 1, strict)
             /\ G[<<kind, c + 1, b>>] = H[<<kind, c + 1, b>>]
  <2>1. PICK d \in 0 .. b : d = c - 1
    BY <1>1
  <2>2. PICK e \in 1 .. L + 1 : e = c + 1
    BY <1>1
  <2>3. a <= e /\ b <= b /\ b - e < b - a
    BY <1>1, <2>2
  <2>4. G[<<kind, e, b>>] = H[<<kind, e, b>>]
    BY <1>1, <2>3 DEF SameWithin
  <2> QED
    BY <1>2, <2>1, <2>2, <2>4
<1>5. IsItems(G, s, kind, a, b, strict) <=> IsItems(H, s, kind, a, b, strict)
  BY <1>3, <1>4, Zenon DEF IsItems
<1> QED
  BY <1>5, Zenon DEF IsItems

IsGrammar(G, s, strict) ==
  G = [x \in Kinds \X (1 .. Len(s) + 1) \X (0 .. Len(s)) |->
         IsItems(G, s, x[1], x[2], x[3], strict)]

LEMMA GrammarExists ==
  ASSUME NEW s \in Seq(Symbols), NEW strict
  PROVE  \E G : IsGrammar(G, s, strict)
<1>1. PICK L \in Nat : L = Len(s)
  OBVIOUS
<1> DEFINE D == Kinds \X (1 .. L + 1) \X (0 .. L)
           From(G, m) ==
             \A kind \in Kinds, a \in 1 .. L + 1, b \in 0 .. L : L + 1 + b - a < m =>
               G[<<kind, a, b>>] = IsItems(G, s, kind, a, b, strict)
           S == {m \in Nat : \E G : From(G, m)}
<1>2. 0 \in S
  <2>1. From(<<>>, 0)
    OBVIOUS
  <2> QED
    BY <2>1
<1>3. ASSUME NEW m \in Nat, m \in S PROVE m + 1 \in S
  <2>1. PICK G : From(G, m)
    BY <1>3, Zenon
  <2> DEFINE H == [x \in D |-> IF L + 1 + x[3] - x[2] < m THEN G[x]
                               ELSE IsItems(G, s, x[1], x[2], x[3], strict)]
  <2>2. \A kind \in Kinds, a \in 1 .. L + 1, b \in 0 .. L :
          H[<<kind, a, b>>] = IF L + 1 + b - a < m THEN G[<<kind, a, b>>]
                              ELSE IsItems(G, s, kind, a, b, strict)
    OBVIOUS
  <2> HIDE DEF H
  <2>3. ASSUME NEW kind \in Kinds, NEW a \in 1 .. L + 1, NEW b \in 0 .. L, L + 1 + b - a < m + 1
        PROVE  H[<<kind, a, b>>] = IsItems(H, s, kind, a, b, strict)
    <3>1. ASSUME NEW k \in Kinds, NEW c \in 1 .. L + 1, NEW d \in 0 .. L, d - c < b - a
          PROVE  G[<<k, c, d>>] = H[<<k, c, d>>]
      <4>1. L + 1 + d - c < m
        BY <2>3, <3>1
      <4> QED
        BY <2>2, <4>1
    <3>2. SameWithin(G, H, s, a, b)
      BY <1>1, <3>1 DEF SameWithin
    <3>3. IsItems(G, s, kind, a, b, strict) = IsItems(H, s, kind, a, b, strict)
      BY <1>1, <3>2, ItemsWithin
    <3>4. H[<<kind, a, b>>] = IsItems(G, s, kind, a, b, strict)
      BY <2>1, <2>2
    <3> QED
      BY <3>3, <3>4
  <2>4. From(H, m + 1)
    BY <2>3
  <2> HIDE DEF From
  <2>5. \E f : From(f, m + 1)
    BY <2>4
  <2> QED
    BY <2>5
<1> HIDE DEF S
<1>4. 2 * L + 2 \in S
  BY <1>2, <1>3, Induction
<1>5. PICK G : From(G, 2 * L + 2)
  BY <1>4, Zenon DEF S
<1>6. \A kind \in Kinds, a \in 1 .. L + 1, b \in 0 .. L :
        G[<<kind, a, b>>] = IsItems(G, s, kind, a, b, strict)
  <2>1. \A a \in 1 .. L + 1, b \in 0 .. L : L + 1 + b - a < 2 * L + 2
    OBVIOUS
  <2> QED
    BY <1>5, <2>1
<1> DEFINE H == [x \in D |-> G[x]]
<1>7. \A kind \in Kinds, a \in 1 .. L + 1, b \in 0 .. L : G[<<kind, a, b>>] = H[<<kind, a, b>>]
  OBVIOUS
<1>8. ASSUME NEW x \in D PROVE G[x] = IsItems(H, s, x[1], x[2], x[3], strict)
  <2> HIDE DEF H
  <2>1. x = <<x[1], x[2], x[3]>> /\ x[1] \in Kinds /\ x[2] \in 1 .. L + 1 /\ x[3] \in 0 .. L
    OBVIOUS
  <2>2. SameWithin(G, H, s, x[2], x[3])
    BY <1>1, <1>7 DEF SameWithin
  <2>3. IsItems(G, s, x[1], x[2], x[3], strict) = IsItems(H, s, x[1], x[2], x[3], strict)
    BY <1>1, <2>1, <2>2, ItemsWithin
  <2> QED
    BY <1>6, <2>1, <2>3
<1>9. H = [x \in D |-> IsItems(H, s, x[1], x[2], x[3], strict)]
  BY <1>8, Zenon
<1> HIDE DEF H
<1> QED
  BY <1>1, <1>9 DEF IsGrammar

LEMMA GrammarIs ==
  ASSUME NEW s \in Seq(Symbols), NEW strict, NEW kind \in Kinds,
         NEW a \in 1 .. Len(s) + 1, NEW b \in 0 .. Len(s)
  PROVE  Grammar(s, strict)[<<kind, a, b>>] = IsItems(Grammar(s, strict), s, kind, a, b, strict)
<1>1. Grammar(s, strict) = CHOOSE G : IsGrammar(G, s, strict)
  BY DEF Grammar, IsGrammar
<1>2. IsGrammar(Grammar(s, strict), s, strict)
  BY <1>1, GrammarExists
<1> QED
  BY <1>2 DEF IsGrammar

-----------------------------------------------------------------------------
(* What the parser reads is JSON, but for the shape of numbers.            *)
LEMMA BracketedPos ==
  ASSUME NEW s \in Seq(Symbols), NEW kind \in Kinds, NEW p \in 1 .. Len(s), NEW q,
         q = skip_whitespace(s, p + 1)
  PROVE  Bracketed(Parser(s), s, kind, p).pos =
           IF peek(s, q) = "end" THEN 0
           ELSE IF peek(s, q) = Close[kind] THEN q + 1
           ELSE Parser(s)[<<kind, p + 1>>].pos
<1>1. PICK L \in Nat : L = Len(s)
  OBVIOUS
<1>2. Close[kind] # "end"
  BY DEF Close, Kinds
<1>3. PICK c \in 1 .. Len(s) + 1 : c = p + 1
  BY <1>1
<1>4. q \in 1 .. Len(s) + 1
  <2>1. PICK e \in Nat : e = skip_whitespace(s, c) /\ c <= e /\ e <= Len(s) + 1
    BY Whitespace, Zenon
  <2>2. e \in 1 .. Len(s) + 1
    BY <1>1, <2>1
  <2> QED
    BY <1>3, <2>1, <2>2
<1>5. Parser(s)[<<kind, q>>] = Parser(s)[<<kind, c>>]
  BY <1>3, <1>4, ItemsSkip, ParserIs
<1> QED
  BY <1>2, <1>3, <1>5 DEF Bracketed, Threw

ItemsSound(s, kind, p) ==
  Parser(s)[<<kind, p>>].pos # 0 =>
    \E r \in Nat : /\ r = Parser(s)[<<kind, p>>].pos /\ p < r /\ r <= Len(s) + 1
                  /\ s[r - 1] = Close[kind] /\ Grammar(s, FALSE)[<<kind, p, r - 2>>]

LEMMA BracketedSound ==
  ASSUME NEW s \in Seq(Symbols), NEW kind \in Kinds, NEW p \in 1 .. Len(s), s[p] = Open[kind],
         ItemsSound(s, kind, p + 1), Bracketed(Parser(s), s, kind, p).pos # 0
  PROVE  \E r \in Nat : /\ r = Bracketed(Parser(s), s, kind, p).pos /\ p < r /\ r <= Len(s) + 1
                       /\ IsValue(Grammar(s, FALSE), s, p, r - 1, FALSE)
<1>1. PICK L \in Nat : L = Len(s)
  OBVIOUS
<1>2. PICK c \in 1 .. L + 1 : c = p + 1
  BY <1>1
<1>3. PICK q \in Nat : q = skip_whitespace(s, c) /\ c <= q /\ q <= L + 1 /\ Blank(s, c, q - 1, FALSE)
  BY <1>1, Whitespace, Zenon
<1> DEFINE G == Grammar(s, FALSE)
           r0 == Bracketed(Parser(s), s, kind, p).pos
<1> HIDE DEF G
<1>4. r0 = IF peek(s, q) = "end" THEN 0
           ELSE IF peek(s, q) = Close[kind] THEN q + 1
           ELSE Parser(s)[<<kind, c>>].pos
  BY <1>2, <1>3, BracketedPos
<1>5. CASE peek(s, q) = Close[kind]
  <2>1. r0 = q + 1 /\ peek(s, q) # "end"
    BY <1>4, <1>5
  <2>2. q <= L /\ s[q] = Close[kind]
    BY <1>1, <1>2, <1>3, <1>5, <2>1, PeekSees
  <2>3. (q + 1) - 1 = q /\ p < q /\ q + 1 \in Nat /\ p < q + 1 /\ q + 1 <= L + 1
    <3>1. c <= q /\ q <= L
      BY <1>3, <2>2
    <3> QED
      BY <1>2, <3>1
  <2>4. IsValue(G, s, p, q, FALSE)
    BY <1>2, <1>3, <2>2, <2>3, Zenon DEF IsValue
  <2> QED
    BY <1>1, <2>1, <2>3, <2>4, Zenon DEF G
<1>6. CASE peek(s, q) # Close[kind]
  <2>1. r0 = Parser(s)[<<kind, c>>].pos
    BY <1>4, <1>6
  <2>2. PICK r \in Nat : /\ r = r0 /\ c < r /\ r <= L + 1
                        /\ s[r - 1] = Close[kind] /\ G[<<kind, c, r - 2>>]
    BY <1>1, <1>2, <2>1, Zenon DEF ItemsSound, G
  <2>3. (r - 1) - 1 = r - 2 /\ p < r - 1 /\ p < r
    <3>1. c < r /\ c = p + 1
      BY <1>2, <2>2
    <3> QED
      BY <3>1
  <2>4. IsValue(G, s, p, r - 1, FALSE)
    BY <1>2, <2>2, <2>3, Zenon DEF IsValue
  <2> QED
    BY <1>1, <2>2, <2>3, <2>4, ZenonT(30) DEF G
<1> QED
  BY <1>5, <1>6, Zenon

\* Past blanks, parse_value reads a value.
LEMMA ValueSound ==
  ASSUME NEW s \in Seq(Symbols), NEW p \in 1 .. Len(s) + 1,
         \A kind \in Kinds, q \in 1 .. Len(s) + 1 : p < q => ItemsSound(s, kind, q),
         parse_value(Parser(s), s, p).pos # 0
  PROVE  \E i \in Nat, r \in Nat :
           /\ r = parse_value(Parser(s), s, p).pos /\ p <= i /\ i < r /\ r <= Len(s) + 1
           /\ Blank(s, p, i - 1, FALSE) /\ IsValue(Grammar(s, FALSE), s, i, r - 1, FALSE)
<1>1. PICK L \in Nat : L = Len(s)
  OBVIOUS
<1>2. PICK q \in Nat : q = skip_whitespace(s, p) /\ p <= q /\ q <= L + 1 /\ Blank(s, p, q - 1, FALSE)
  BY <1>1, Whitespace, Zenon
<1> DEFINE G == Grammar(s, FALSE)
           P == Parser(s)
           v == parse_value(P, s, p).pos
<1> HIDE DEF G, P
<1>3. q <= L /\ q \in 1 .. Len(s) /\ peek(s, q) = s[q] /\ v # 0
  <2>1. ASSUME peek(s, q) = "end" PROVE FALSE
    BY <1>2, <2>1 DEF parse_value, Quote, Digit, Literals, Threw, P
  <2> QED
    BY <1>1, <1>2, <2>1, PeekSees DEF P
<1>4. PICK c \in 1 .. L + 1 : c = q + 1 /\ p < c
  BY <1>2, <1>3
<1>5. ASSUME NEW r \in Nat, r = v, q < r, r <= L + 1, IsValue(G, s, q, r - 1, FALSE)
      PROVE  \E i \in Nat, r1 \in Nat :
               /\ r1 = v /\ p <= i /\ i < r1 /\ r1 <= L + 1
               /\ Blank(s, p, i - 1, FALSE) /\ IsValue(G, s, i, r1 - 1, FALSE)
  BY <1>2, <1>5, Zenon
<1>6. \E r \in Nat : r = v /\ q < r /\ r <= L + 1 /\ IsValue(G, s, q, r - 1, FALSE)
  <2>1. CASE s[q] = Quote
    <3>1. v = parse_string(s, q).pos
      BY <1>2, <1>3, <2>1 DEF parse_value, Quote, Digit, Literals
    <3>2. q \in 1 .. Len(s) + 1
      BY <1>1, <1>3
    <3>3. PICK i \in Nat, r \in Nat :
            /\ r = v /\ q <= i /\ i + 1 < r /\ r <= L + 1
            /\ Blank(s, q, i - 1, FALSE) /\ IsString(s, i, r - 1, FALSE)
      BY <1>1, <1>3, <3>1, <3>2, ParseStringSound, Zenon
    <3>4. i = q
      <4>1. ASSUME q < i PROVE FALSE
        <5>1. q \in q .. i - 1
          BY <4>1
        <5> QED
          BY <2>1, <3>3, <5>1 DEF Blank, Quote, Space
      <4> QED
        BY <3>3, <4>1
    <3>5. IsValue(G, s, q, r - 1, FALSE)
      BY <3>3, <3>4, Zenon DEF IsValue
    <3>6. q < r
      BY <3>3, <3>4
    <3> QED
      BY <3>3, <3>5, <3>6, Zenon
  <2>2. CASE s[q] \in Digit \cup {"-"}
    <3>1. v = parse_number(s, q).pos
      BY <1>2, <1>3, <2>2 DEF parse_value, Quote, Digit, Literals
    <3>2. PICK r \in Nat : r = v /\ q < r /\ r <= L + 1 /\ IsNumber(s, q, r - 1, FALSE)
      BY <1>1, <1>3, <2>2, <3>1, NumberSound, Zenon
    <3> QED
      BY <3>2, Zenon DEF IsValue
  <2>3. CASE s[q] = "["
    <3>1. v = parse_array(P, s, q).pos
      BY <1>2, <1>3, <2>3 DEF parse_value, Quote, Digit, Literals
    <3>2. v = Bracketed(P, s, "array", q).pos
      BY <3>1, TaggedPos DEF parse_array
    <3>3. ItemsSound(s, "array", q + 1) /\ "array" \in Kinds /\ s[q] = Open["array"]
      BY <1>1, <1>4, <2>3, Zenon DEF Kinds, Open
    <3> QED
      BY <1>1, <1>3, <3>2, <3>3, BracketedSound, ZenonT(30) DEF G, P
  <2>4. CASE s[q] = "lbrace"
    <3>1. v = parse_object(P, s, q).pos
      BY <1>2, <1>3, <2>4 DEF parse_value, Quote, Digit, Literals
    <3>2. v = Bracketed(P, s, "object", q).pos
      BY <3>1 DEF parse_object, Threw
    <3>3. ItemsSound(s, "object", q + 1) /\ "object" \in Kinds /\ s[q] = Open["object"]
      BY <1>1, <1>4, <2>4 DEF Kinds, Open
    <3> QED
      BY <1>1, <1>3, <3>2, <3>3, BracketedSound, ZenonT(30) DEF G, P
  <2>5. CASE s[q] \in Literals
    <3>1. v = q + 1
      BY <1>2, <1>3, <2>5 DEF parse_value, Quote, Digit, Literals
    <3>2. q + 1 \in Nat /\ q < q + 1 /\ q + 1 <= L + 1 /\ (q + 1) - 1 = q
      BY <1>3
    <3>3. IsValue(G, s, q, q, FALSE)
      BY <2>5, Zenon DEF IsValue
    <3> QED
      BY <3>1, <3>2, <3>3, Zenon
  <2>6. CASE s[q] \notin Digit \cup Literals \cup {Quote, "-", "[", "lbrace"}
    BY <1>2, <1>3, <2>6 DEF parse_value, Threw
  <2> QED
    BY <2>1, <2>2, <2>3, <2>4, <2>5, <2>6, Zenon
<1> QED
  BY <1>1, <1>5, <1>6, Zenon DEF G, P

LEMMA ItemSound ==
  ASSUME NEW s \in Seq(Symbols), NEW kind \in Kinds, NEW p \in 1 .. Len(s) + 1,
         \A k \in Kinds, q \in 1 .. Len(s) + 1 : p < q => ItemsSound(s, k, q),
         Item(Parser(s), s, kind, p).pos # 0
  PROVE  \E r \in Nat :
           /\ r = Item(Parser(s), s, kind, p).pos /\ p < r /\ r <= Len(s) + 1
           /\ \A b \in Nat : r - 1 <= b /\ b <= Len(s) /\ Blank(s, r, b, FALSE)
                              => IsItem(Grammar(s, FALSE), s, kind, p, b, FALSE)
<1>1. PICK L \in Nat : L = Len(s)
  OBVIOUS
<1> DEFINE G == Grammar(s, FALSE)
           P == Parser(s)
           v == Item(P, s, kind, p).pos
<1> HIDE DEF G, P
<1>2. ASSUME NEW c \in 1 .. L + 1, p <= c, parse_value(P, s, c).pos # 0
      PROVE  \E r \in Nat :
               /\ r = parse_value(P, s, c).pos /\ c < r /\ r <= L + 1
               /\ \A b \in Nat : r - 1 <= b /\ b <= L /\ Blank(s, r, b, FALSE)
                                  => IsElement(G, s, c, b, FALSE)
  <2>1. \A k \in Kinds, q \in 1 .. Len(s) + 1 : c < q => ItemsSound(s, k, q)
    BY <1>1, <1>2
  <2>2. PICK i \in Nat, r \in Nat :
          /\ r = parse_value(P, s, c).pos /\ c <= i /\ i < r /\ r <= L + 1
          /\ Blank(s, c, i - 1, FALSE) /\ IsValue(G, s, i, r - 1, FALSE)
    BY <1>1, <1>2, <2>1, ValueSound, Zenon DEF G, P
  <2>3. ASSUME NEW b \in Nat, r - 1 <= b, b <= L, Blank(s, r, b, FALSE)
        PROVE  IsElement(G, s, c, b, FALSE)
    <3>1. PICK j \in i .. b : j = r - 1 /\ j + 1 = r
      BY <2>2, <2>3
    <3>2. i \in c .. b
      BY <2>2, <2>3
    <3> QED
      BY <2>2, <2>3, <3>1, <3>2, Zenon DEF IsElement
  <2>4. c < r
    BY <2>2
  <2> QED
    BY <2>2, <2>3, <2>4, Zenon
<1>3. CASE kind = "array"
  <2>1. v = parse_value(P, s, p).pos /\ p <= p
    BY <1>1, <1>3 DEF Item
  <2>2. PICK r \in Nat :
          /\ r = v /\ p < r /\ r <= L + 1
          /\ \A b \in Nat : r - 1 <= b /\ b <= L /\ Blank(s, r, b, FALSE) => IsElement(G, s, p, b, FALSE)
    BY <1>1, <1>2, <2>1, Zenon DEF P
  <2>3. \A b : IsItem(G, s, kind, p, b, FALSE) <=> IsElement(G, s, p, b, FALSE)
    BY <1>3 DEF IsItem
  <2> QED
    BY <1>1, <2>2, <2>3, Zenon DEF G, P
<1>4. CASE kind # "array"
  <2>1. v = Member(P, s, p).pos /\ v # 0
    BY <1>4 DEF Item, P
  <2>2. parse_string(s, p).pos # 0
    BY <2>1 DEF Member, Threw
  <2>3. PICK i \in Nat, k \in Nat :
          /\ k = parse_string(s, p).pos /\ p <= i /\ i + 1 < k /\ k <= L + 1
          /\ Blank(s, p, i - 1, FALSE) /\ IsString(s, i, k - 1, FALSE)
    BY <1>1, <2>2, ParseStringSound, Zenon
  <2>4. k \in 1 .. L + 1
    BY <2>3
  <2>5. PICK q \in Nat : q = skip_whitespace(s, k) /\ k <= q /\ q <= L + 1 /\ Blank(s, k, q - 1, FALSE)
    BY <1>1, <2>4, Whitespace, Zenon
  <2>6. peek(s, q) = ":"
    <3>1. expect(s, k, ":") # 0
      BY <2>1, <2>3, Zenon DEF Member, Threw
    <3> QED
      BY <2>5, <3>1 DEF expect
  <2>7. q <= L /\ s[q] = ":"
    BY <1>1, <2>4, <2>5, <2>6, PeekSees
  <2>8. PICK c \in 1 .. L + 1 : c = q + 1 /\ p <= c /\ p < c
    <3>1. p <= i /\ i + 1 < k /\ k <= q /\ q <= L
      BY <2>3, <2>5, <2>7
    <3>2. q + 1 \in 1 .. L + 1 /\ p < q + 1
      BY <3>1
    <3> QED
      BY <3>2
  <2>9. expect(s, k, ":") = c /\ c # 0
    BY <2>5, <2>6, <2>8 DEF expect
  <2>10. v = parse_value(P, s, c).pos
    BY <2>1, <2>2, <2>3, <2>9, Zenon DEF Member, Threw
  <2>11. PICK r \in Nat :
           /\ r = v /\ c < r /\ r <= L + 1
           /\ \A b \in Nat : r - 1 <= b /\ b <= L /\ Blank(s, r, b, FALSE) => IsElement(G, s, c, b, FALSE)
    BY <1>2, <2>1, <2>8, <2>10, Zenon
  <2>12. IsKey(s, p, q - 1, FALSE)
    <3>1. PICK j \in i .. q - 1 : j = k - 1 /\ j + 1 = k
      BY <2>3, <2>5
    <3>2. i \in p .. q - 1
      BY <2>3, <2>5
    <3> QED
      BY <2>3, <2>5, <3>1, <3>2, Zenon DEF IsKey
  <2>13. ASSUME NEW b \in Nat, r - 1 <= b, b <= L, Blank(s, r, b, FALSE)
         PROVE  IsItem(G, s, kind, p, b, FALSE)
    <3>1. q \in p .. b
      <4>1. c < r
        BY <2>11
      <4>2. p <= q
        BY <2>3, <2>5
      <4> QED
        BY <2>8, <2>13, <4>1, <4>2
    <3>2. IsElement(G, s, q + 1, b, FALSE)
      BY <2>8, <2>11, <2>13, Zenon
    <3> QED
      BY <1>4, <2>7, <2>12, <3>1, <3>2, Zenon DEF IsItem
  <2>14. p < r
    BY <2>8, <2>11
  <2> QED
    BY <1>1, <2>11, <2>13, <2>14, Zenon DEF G, P
<1> QED
  BY <1>3, <1>4, Zenon

LEMMA AllItemsSound ==
  ASSUME NEW s \in Seq(Symbols)
  PROVE  \A kind \in Kinds, q \in 1 .. Len(s) + 1 : ItemsSound(s, kind, q)
<1>1. PICK L \in Nat : L = Len(s)
  OBVIOUS
<1> DEFINE S == {m \in Nat : \A kind \in Kinds, q \in 1 .. L + 1 :
                               L + 1 - q < m => ItemsSound(s, kind, q)}
<1>2. 0 \in S
  OBVIOUS
<1>3. ASSUME NEW m \in Nat, m \in S PROVE m + 1 \in S
  <2> SUFFICES ASSUME NEW kind \in Kinds, NEW p \in 1 .. L + 1, L + 1 - p < m + 1
               PROVE  ItemsSound(s, kind, p)
    OBVIOUS
  <2> SUFFICES ASSUME Parser(s)[<<kind, p>>].pos # 0 PROVE ItemsSound(s, kind, p)
    BY Zenon DEF ItemsSound
  <2> DEFINE P == Parser(s)
             G == Grammar(s, FALSE)
             r0 == P[<<kind, p>>].pos
  <2> HIDE DEF P, G
  <2>1. r0 = Items(P, s, kind, p).pos /\ r0 # 0
    BY <1>1, ParserIs DEF P
  <2>2. Item(P, s, kind, p).pos # 0
    BY <2>1 DEF Items, ItemsFrom, Threw
  <2>3. \A k \in Kinds, q \in 1 .. Len(s) + 1 : p < q => ItemsSound(s, k, q)
    BY <1>1, <1>3
  <2>4. PICK v \in Nat :
          /\ v = Item(P, s, kind, p).pos /\ p < v /\ v <= L + 1
          /\ \A b \in Nat : v - 1 <= b /\ b <= L /\ Blank(s, v, b, FALSE) => IsItem(G, s, kind, p, b, FALSE)
    BY <1>1, <2>2, <2>3, ItemSound, Zenon DEF P, G
  <2>5. v \in 1 .. L + 1
    <3>1. p < v /\ v <= L + 1
      BY <2>4
    <3> QED
      BY <3>1
  <2>6. PICK q \in Nat : q = skip_whitespace(s, v) /\ v <= q /\ q <= L + 1 /\ Blank(s, v, q - 1, FALSE)
    BY <1>1, <2>5, Whitespace, Zenon
  <2>7. IsItem(G, s, kind, p, q - 1, FALSE)
    <3>1. q - 1 \in Nat /\ v - 1 <= q - 1 /\ q - 1 <= L
      BY <2>4, <2>5, <2>6
    <3> QED
      BY <2>4, <2>6, <3>1, Zenon
  <2>8. Close[kind] # "comma" /\ Close[kind] # "end"
    BY DEF Close, Kinds
  <2>9. SUFFICES \E r \in Nat : /\ r = r0 /\ p < r /\ r <= L + 1 /\ s[r - 1] = Close[kind]
                                /\ IsItems(G, s, kind, p, r - 2, FALSE)
    <3>1. PICK r \in Nat : /\ r = r0 /\ p < r /\ r <= L + 1 /\ s[r - 1] = Close[kind]
                          /\ IsItems(G, s, kind, p, r - 2, FALSE)
      BY <2>9, Zenon
    <3>2. PICK b \in 0 .. L : b = r - 2
      <4>1. 1 <= p /\ p < r /\ r <= L + 1
        BY <3>1
      <4>2. r - 2 \in 0 .. L
        BY <4>1
      <4> QED
        BY <4>2
    <3>3. G[<<kind, p, b>>]
      BY <1>1, <3>1, <3>2, GrammarIs, Zenon DEF G
    <3> QED
      BY <1>1, <3>1, <3>2, <3>3, Zenon DEF ItemsSound, P, G
  <2>10. CASE peek(s, q) = "comma"
    <3>1. q <= L /\ s[q] = "comma"
      BY <1>1, <2>5, <2>6, <2>10, PeekSees
    <3>2. PICK c \in 1 .. L + 1 : c = q + 1 /\ p < c
      BY <2>4, <2>6, <3>1
    <3>3. Items(P, s, kind, p) = Prepend(Item(P, s, kind, p).val, P[<<kind, c>>])
      BY <2>2, <2>4, <2>6, <2>8, <2>10, <3>2 DEF Items, ItemsFrom
    <3>4. r0 = P[<<kind, c>>].pos
      BY <2>1, <3>3, PrependPos
    <3>5. PICK r \in Nat : r = r0 /\ c < r /\ r <= L + 1 /\ s[r - 1] = Close[kind] /\ G[<<kind, c, r - 2>>]
      BY <1>1, <2>1, <2>3, <3>2, <3>4, ZenonT(30) DEF ItemsSound, P, G
    <3>6. q \in p .. r - 2 /\ p < r
      <4>1. p <= q
        BY <2>4, <2>6
      <4>2. c < r
        BY <3>5
      <4> QED
        BY <3>2, <4>1, <4>2
    <3>7. IsItems(G, s, kind, p, r - 2, FALSE)
      BY <2>7, <3>1, <3>2, <3>5, <3>6, Zenon DEF IsItems
    <3> QED
      BY <3>5, <3>6, <3>7, Zenon
  <2>11. CASE peek(s, q) = Close[kind]
    <3>1. q <= L /\ s[q] = Close[kind]
      BY <1>1, <2>5, <2>6, <2>8, <2>11, PeekSees
    <3>2. r0 = q + 1
      BY <2>1, <2>2, <2>4, <2>6, <2>8, <2>11 DEF Items, ItemsFrom
    <3>3. q + 1 \in Nat /\ p < q + 1 /\ q + 1 <= L + 1 /\ (q + 1) - 1 = q /\ (q + 1) - 2 = q - 1
      BY <2>4, <2>6, <3>1
    <3>4. IsItems(G, s, kind, p, q - 1, FALSE)
      BY <2>7, Zenon DEF IsItems
    <3> QED
      BY <3>1, <3>2, <3>3, <3>4, Zenon
  <2>12. CASE peek(s, q) # "comma" /\ peek(s, q) # Close[kind]
    BY <2>1, <2>2, <2>4, <2>6, <2>12 DEF Items, ItemsFrom, Threw
  <2> QED
    BY <2>10, <2>11, <2>12, Zenon
<1> HIDE DEF S
<1>4. L + 1 \in S
  BY <1>2, <1>3, Induction
<1>5. \A q \in 1 .. L + 1 : L + 1 - q < L + 1
  OBVIOUS
<1> QED
  BY <1>1, <1>4, <1>5 DEF S

\* A text that parse accepts is JSON, but for the shape of its numbers.
LEMMA AcceptedIsJson ==
  ASSUME NEW s \in Seq(Symbols), Accepted(s)
  PROVE  IsJson(s, FALSE)
<1>1. PICK L \in Nat : L = Len(s)
  OBVIOUS
<1>2. /\ parse_value(Parser(s), s, 1).pos # 0
      /\ skip_whitespace(s, parse_value(Parser(s), s, 1).pos) = Len(s) + 1
  BY DEF Accepted, parse, AtEnd, Threw
<1>3. 1 \in 1 .. Len(s) + 1 /\ "array" \in Kinds
  BY <1>1 DEF Kinds
<1>4. Item(Parser(s), s, "array", 1) = parse_value(Parser(s), s, 1)
  BY DEF Item
<1>5. PICK r \in Nat :
        /\ r = parse_value(Parser(s), s, 1).pos /\ 1 < r /\ r <= L + 1
        /\ \A b \in Nat : r - 1 <= b /\ b <= L /\ Blank(s, r, b, FALSE)
                           => IsItem(Grammar(s, FALSE), s, "array", 1, b, FALSE)
  BY <1>1, <1>2, <1>3, <1>4, AllItemsSound, ItemSound, Zenon
<1>6. r \in 1 .. Len(s) + 1
  BY <1>1, <1>5
<1>7. PICK q \in Nat : q = skip_whitespace(s, r) /\ Blank(s, r, q - 1, FALSE)
  BY <1>6, Whitespace, Zenon
<1>8. q = L + 1 /\ q - 1 = L /\ r - 1 <= L
  BY <1>1, <1>2, <1>5, <1>7
<1>9. Blank(s, r, L, FALSE)
  BY <1>7, <1>8, Zenon
<1>10. IsItem(Grammar(s, FALSE), s, "array", 1, L, FALSE)
  <2>1. L <= L
    OBVIOUS
  <2> QED
    BY <1>5, <1>8, <1>9, <2>1, Zenon
<1> QED
  BY <1>1, <1>10, Zenon DEF IsItem, IsJson

-----------------------------------------------------------------------------
(* The parser reads every JSON text that has no \uXXXX.                    *)
ItemsComplete(s, kind, a, b) ==
  Grammar(s, TRUE)[<<kind, a, b>>] /\ b < Len(s) /\ s[b + 1] = Close[kind] =>
    Parser(s)[<<kind, a>>].pos = b + 2

CompleteWithin(s, a, b) ==
  \A kind \in Kinds, c \in 1 .. Len(s) + 1, d \in 0 .. Len(s) :
    a < c /\ d < b => ItemsComplete(s, kind, c, d)

Starts == Literals \cup Digit \cup {Quote, "-", "[", "lbrace"}

LEMMA BlankTaken ==
  ASSUME NEW s, NEW a, NEW b, Blank(s, a, b, TRUE)
  PROVE  Blank(s, a, b, FALSE)
BY DEF Blank

LEMMA StringTaken ==
  ASSUME NEW s \in Seq(Symbols), NEW a \in 1 .. Len(s), NEW b \in a .. Len(s),
         IsString(s, a, b, TRUE), ~ UsesUnicode(s)
  PROVE  IsString(s, a, b, FALSE)
BY Zenon DEF UsesUnicode

LEMMA ValueStarts ==
  ASSUME NEW G, NEW s, NEW a, NEW b, NEW strict, IsValue(G, s, a, b, strict)
  PROVE  s[a] \in Starts
<1>1. CASE s[a] \in Literals
  BY <1>1 DEF Starts
<1>2. CASE IsString(s, a, b, strict)
  BY <1>2 DEF IsString, Starts
<1>3. CASE IsNumber(s, a, b, strict)
  BY <1>3 DEF IsNumber, Starts
<1>4. CASE \E kind \in Kinds : s[a] = Open[kind]
  BY <1>4 DEF Kinds, Open, Starts
<1> QED
  BY <1>1, <1>2, <1>3, <1>4, Zenon DEF IsValue

\* The first symbol of the items that is no blank is not the closing bracket.
LEMMA ItemsStart ==
  ASSUME NEW s \in Seq(Symbols), NEW kind \in Kinds, NEW a \in 1 .. Len(s) + 1, NEW b \in 0 .. Len(s),
         Grammar(s, TRUE)[<<kind, a, b>>]
  PROVE  \E i \in Nat : a <= i /\ i <= b /\ Blank(s, a, i - 1, FALSE) /\ s[i] \in Starts
<1>1. PICK L \in Nat : L = Len(s)
  OBVIOUS
<1> DEFINE G == Grammar(s, TRUE)
<1> HIDE DEF G
<1>2. IsItems(G, s, kind, a, b, TRUE)
  BY GrammarIs, Zenon DEF G
<1>3. PICK d \in 0 .. b : IsItem(G, s, kind, a, d, TRUE)
  <2>1. CASE IsItem(G, s, kind, a, b, TRUE)
    <3>1. b \in 0 .. b
      BY <1>1
    <3> QED
      BY <2>1, <3>1, Zenon
  <2>2. CASE \E c \in a .. b : IsItem(G, s, kind, a, c - 1, TRUE)
    <3>1. PICK c \in a .. b : IsItem(G, s, kind, a, c - 1, TRUE)
      BY <2>2, Zenon
    <3>2. c - 1 \in 0 .. b
      BY <1>1
    <3> QED
      BY <3>1, <3>2, Zenon
  <2> QED
    BY <1>2, <2>1, <2>2, Zenon DEF IsItems
<1>4. \E i \in a .. d : Blank(s, a, i - 1, FALSE) /\ s[i] \in Starts
  <2>1. CASE kind = "array"
    BY <1>3, <2>1, ValueStarts, BlankTaken, Zenon DEF IsItem, IsElement
  <2>2. CASE kind # "array"
    <3>1. PICK c \in a .. d : IsKey(s, a, c - 1, TRUE)
      BY <1>3, <2>2, Zenon DEF IsItem
    <3>2. PICK i \in a .. c - 1 : Blank(s, a, i - 1, FALSE) /\ s[i] = Quote
      BY <3>1, BlankTaken, Zenon DEF IsKey, IsString
    <3>3. i \in a .. d
      BY <1>1
    <3> QED
      BY <3>2, <3>3, Zenon DEF Starts
  <2> QED
    BY <2>1, <2>2, Zenon
<1>5. PICK i \in a .. d : Blank(s, a, i - 1, FALSE) /\ s[i] \in Starts
  BY <1>4, Zenon
<1>6. i \in Nat /\ a <= i /\ i <= b
  BY <1>1
<1> QED
  BY <1>5, <1>6, Zenon

LEMMA BracketedComplete ==
  ASSUME NEW s \in Seq(Symbols), NEW kind \in Kinds, NEW a \in 1 .. Len(s), NEW b \in 1 .. Len(s),
         a < b, s[b] = Close[kind], CompleteWithin(s, a, b),
         Blank(s, a + 1, b - 1, TRUE) \/ Grammar(s, TRUE)[<<kind, a + 1, b - 1>>]
  PROVE  Bracketed(Parser(s), s, kind, a).pos = b + 1
<1>1. PICK L \in Nat : L = Len(s)
  OBVIOUS
<1>2. PICK c \in 1 .. L + 1 : c = a + 1
  BY <1>1
<1>3. /\ Close[kind] \notin Starts \cup Space \cup {"end"} /\ "end" \notin Starts
      /\ \A x \in Starts : x \notin Space
  BY DEF Close, Kinds, Starts, Literals, Digit, Quote, Space
<1>4. peek(s, b) = Close[kind]
  BY <1>1, PeekSees
<1>5. CASE Blank(s, a + 1, b - 1, TRUE)
  <2>1. skip_whitespace(s, c) = b
    <3>1. Blank(s, c, b - 1, FALSE)
      BY <1>2, <1>5, BlankTaken, Zenon
    <3>2. b \in Nat /\ c <= b /\ b <= L + 1
      BY <1>1, <1>2
    <3> QED
      BY <1>1, <1>3, <1>4, <3>1, <3>2, WhitespaceIs, Zenon
  <2> QED
    BY <1>2, <1>3, <1>4, <2>1, BracketedPos, Zenon
<1>6. CASE Grammar(s, TRUE)[<<kind, a + 1, b - 1>>]
  <2>1. PICK d \in 0 .. L : d = b - 1 /\ d + 1 = b /\ d + 2 = b + 1 /\ d < L
    BY <1>1
  <2>2. Grammar(s, TRUE)[<<kind, c, d>>]
    BY <1>2, <1>6, <2>1, Zenon
  <2>3. PICK i \in Nat : c <= i /\ i <= d /\ Blank(s, c, i - 1, FALSE) /\ s[i] \in Starts
    BY <1>1, <2>2, ItemsStart, Zenon
  <2>4. i \in Nat /\ i > 0 /\ i <= L
    BY <2>1, <2>3
  <2>5. peek(s, i) = s[i]
    BY <1>1, <2>4, PeekSees
  <2>6. skip_whitespace(s, c) = i
    <3>1. peek(s, i) \notin Space /\ i <= L + 1
      <4>1. i <= L + 1
        BY <2>4
      <4>2. peek(s, i) \notin Space
        BY <1>3, <2>3, <2>5
      <4> QED
        BY <4>1, <4>2
    <3> QED
      BY <1>1, <2>3, <3>1, WhitespaceIs, ZenonT(30)
  <2>7. peek(s, i) # "end" /\ peek(s, i) # Close[kind]
    BY <1>3, <2>3, <2>5
  <2>8. Bracketed(Parser(s), s, kind, a).pos = Parser(s)[<<kind, c>>].pos
    BY <1>2, <2>6, <2>7, BracketedPos
  <2>9. ItemsComplete(s, kind, c, d)
    <3>1. a < c /\ d < b
      BY <1>2, <2>1
    <3> QED
      BY <1>1, <3>1 DEF CompleteWithin
  <2>10. Parser(s)[<<kind, c>>].pos = d + 2
    BY <1>1, <2>1, <2>2, <2>9, Zenon DEF ItemsComplete
  <2> QED
    BY <2>1, <2>8, <2>10
<1> QED
  BY <1>5, <1>6, Zenon

\* parse_value reads a value past blanks; a number must be followed by a symbol
\* that ends it, or have an exponent.
LEMMA ValueComplete ==
  ASSUME NEW s \in Seq(Symbols), NEW p \in 1 .. Len(s), NEW a \in p .. Len(s), NEW b \in a .. Len(s),
         Blank(s, p, a - 1, FALSE), IsValue(Grammar(s, TRUE), s, a, b, TRUE),
         ~ UsesUnicode(s), CompleteWithin(s, a, b),
         \/ peek(s, b + 1) \in Ends
         \/ IsNumber(s, a, b, TRUE) => peek(s, b + 1) = "end" /\ \E k \in a .. b : s[k] = "e"
  PROVE  parse_value(Parser(s), s, p).pos = b + 1
<1>1. PICK L \in Nat : L = Len(s)
  OBVIOUS
<1> DEFINE G == Grammar(s, TRUE)
           P == Parser(s)
<1> HIDE DEF G, P
<1>2. s[a] \in Starts
  BY ValueStarts, Zenon
<1>3. a \in 1 .. Len(s) /\ b \in 1 .. Len(s) /\ a \in Nat /\ p <= a /\ a <= Len(s) + 1 /\ p \in 1 .. Len(s) + 1
  BY <1>1
<1>4. peek(s, a) = s[a]
  BY <1>1, <1>3, PeekSees
<1>5. skip_whitespace(s, p) = a
  <2>1. peek(s, a) \notin Space
    BY <1>2, <1>4 DEF Starts, Literals, Digit, Quote, Space
  <2> QED
    BY <1>3, <2>1, WhitespaceIs, Zenon
<1>6. CASE a = b /\ s[a] \in Literals
  BY <1>4, <1>5, <1>6 DEF parse_value, Quote, Digit, Literals
<1>7. CASE IsString(s, a, b, TRUE)
  <2>1. s[a] = Quote
    BY <1>7 DEF IsString
  <2>2. parse_value(P, s, p) = parse_string(s, a)
    BY <1>4, <1>5, <2>1 DEF parse_value, Quote, Digit, Literals
  <2>3. a \in a .. Len(s) /\ Blank(s, a, a - 1, FALSE)
    BY <1>1, <1>3 DEF Blank
  <2>4. IsString(s, a, b, FALSE)
    BY <1>3, <1>7, StringTaken, Zenon
  <2> QED
    BY <1>3, <2>2, <2>3, <2>4, ParseStringComplete, Zenon DEF P
<1>8. CASE IsNumber(s, a, b, TRUE)
  <2>1. s[a] \in Digit \cup {"-"}
    BY <1>8 DEF IsNumber
  <2>2. parse_value(P, s, p) = parse_number(s, a)
    BY <1>4, <1>5, <2>1 DEF parse_value, Quote, Digit, Literals
  <2>3. parse_number(s, a).pos = b + 1
    BY <1>3, <1>8, NumberComplete, Zenon
  <2> QED
    BY <2>2, <2>3 DEF P
<1>9. ASSUME NEW kind \in Kinds, a < b, s[a] = Open[kind], s[b] = Close[kind],
             Blank(s, a + 1, b - 1, TRUE) \/ G[<<kind, a + 1, b - 1>>]
      PROVE  parse_value(P, s, p).pos = b + 1
  <2>1. Bracketed(P, s, kind, a).pos = b + 1
    BY <1>3, <1>9, BracketedComplete, Zenon DEF G, P
  <2>2. CASE kind = "array"
    <3>1. parse_value(P, s, p) = parse_array(P, s, a)
      BY <1>4, <1>5, <1>9, <2>2 DEF parse_value, Quote, Digit, Literals, Open
    <3> QED
      BY <2>1, <2>2, <3>1, TaggedPos DEF parse_array
  <2>3. CASE kind = "object"
    <3>1. parse_value(P, s, p) = parse_object(P, s, a)
      BY <1>4, <1>5, <1>9, <2>3 DEF parse_value, Quote, Digit, Literals, Open
    <3>2. parse_object(P, s, a).pos = Bracketed(P, s, "object", a).pos
      BY Zenon DEF parse_object, Threw
    <3> QED
      BY <2>1, <2>3, <3>1, <3>2
  <2> QED
    BY <2>2, <2>3 DEF Kinds
<1>10. IsValue(G, s, a, b, TRUE)
  BY Zenon DEF G
<1> QED
  BY <1>6, <1>7, <1>8, <1>9, <1>10, Zenon DEF IsValue, P

LEMMA ElementComplete ==
  ASSUME NEW s \in Seq(Symbols), NEW a \in 1 .. Len(s), NEW b \in a .. Len(s), b < Len(s),
         s[b + 1] \in {"comma", "]", "rbrace"}, ~ UsesUnicode(s), CompleteWithin(s, a, b),
         IsElement(Grammar(s, TRUE), s, a, b, TRUE)
  PROVE  \E r \in Nat : /\ r = parse_value(Parser(s), s, a).pos /\ a < r /\ r <= b + 1
                       /\ Blank(s, r, b, FALSE)
<1>1. PICK L \in Nat : L = Len(s)
  OBVIOUS
<1>2. PICK i \in a .. b, j \in a .. b :
        /\ i <= j /\ Blank(s, a, i - 1, FALSE) /\ Blank(s, j + 1, b, FALSE)
        /\ IsValue(Grammar(s, TRUE), s, i, j, TRUE)
  <2>1. PICK i \in a .. b : \E j \in i .. b :
          Blank(s, a, i - 1, TRUE) /\ Blank(s, j + 1, b, TRUE) /\ IsValue(Grammar(s, TRUE), s, i, j, TRUE)
    BY Zenon DEF IsElement
  <2>2. PICK j \in i .. b :
          Blank(s, a, i - 1, TRUE) /\ Blank(s, j + 1, b, TRUE) /\ IsValue(Grammar(s, TRUE), s, i, j, TRUE)
    BY <2>1, Zenon
  <2>3. j \in a .. b /\ i <= j
    BY <1>1
  <2> QED
    BY <2>2, <2>3, BlankTaken, Zenon
<1>3. i \in a .. Len(s) /\ j \in i .. Len(s)
  BY <1>1, <1>2
<1>4. peek(s, j + 1) = s[j + 1]
  BY <1>1, PeekSees
<1>5. peek(s, j + 1) \in Ends
  <2>1. CASE j = b
    BY <1>4, <2>1 DEF Ends
  <2>2. CASE j < b
    <3>1. j + 1 \in j + 1 .. b
      BY <1>1, <2>2
    <3> QED
      BY <1>2, <1>4, <3>1 DEF Blank, Ends
  <2> QED
    BY <1>1, <2>1, <2>2
<1>6. CompleteWithin(s, i, j)
  <2>1. \A c \in 1 .. L + 1, d \in 0 .. L : i < c /\ d < j => a < c /\ d < b
    BY <1>1
  <2> QED
    BY <1>1, <2>1 DEF CompleteWithin
<1>7. parse_value(Parser(s), s, a).pos = j + 1
  BY <1>2, <1>3, <1>5, <1>6, ValueComplete, Zenon
<1>8. j + 1 \in Nat /\ a < j + 1 /\ j + 1 <= b + 1
  BY <1>1
<1> QED
  BY <1>2, <1>7, <1>8, Zenon

LEMMA ItemComplete ==
  ASSUME NEW s \in Seq(Symbols), NEW kind \in Kinds, NEW a \in 1 .. Len(s), NEW b \in 0 .. Len(s),
         b < Len(s), s[b + 1] \in {"comma", "]", "rbrace"}, ~ UsesUnicode(s), CompleteWithin(s, a, b),
         IsItem(Grammar(s, TRUE), s, kind, a, b, TRUE)
  PROVE  /\ Item(Parser(s), s, kind, a).pos # 0
         /\ skip_whitespace(s, Item(Parser(s), s, kind, a).pos) = b + 1
<1>1. PICK L \in Nat : L = Len(s)
  OBVIOUS
<1> DEFINE G == Grammar(s, TRUE)
           P == Parser(s)
<1> HIDE DEF G, P
<1>2. ASSUME NEW r \in Nat, r = Item(P, s, kind, a).pos, a < r, r <= b + 1, Blank(s, r, b, FALSE)
      PROVE  Item(P, s, kind, a).pos # 0 /\ skip_whitespace(s, Item(P, s, kind, a).pos) = b + 1
  <2>1. r \in 1 .. Len(s) + 1 /\ r # 0
    BY <1>1, <1>2
  <2>2. PICK q \in Nat : q = b + 1 /\ r <= q /\ q <= Len(s) + 1 /\ q - 1 = b /\ q > 0 /\ q <= Len(s)
    BY <1>1, <1>2
  <2>3. peek(s, q) \notin Space
    BY <2>2, PeekSees DEF Space
  <2> QED
    BY <1>2, <2>1, <2>2, <2>3, WhitespaceIs, Zenon
<1>3. CASE kind = "array"
  <2>1. IsElement(G, s, a, b, TRUE)
    BY <1>3, Zenon DEF IsItem, G
  <2>2. b \in a .. Len(s)
    BY <1>1, <2>1 DEF IsElement
  <2>3. PICK r \in Nat : r = parse_value(P, s, a).pos /\ a < r /\ r <= b + 1 /\ Blank(s, r, b, FALSE)
    BY <2>1, <2>2, ElementComplete, Zenon DEF G, P
  <2>4. r = Item(P, s, kind, a).pos
    BY <1>3, <2>3 DEF Item
  <2> QED
    BY <1>2, <2>3, <2>4, Zenon DEF P
<1>4. CASE kind # "array"
  <2>1. PICK q \in a .. b : s[q] = ":" /\ IsKey(s, a, q - 1, TRUE) /\ IsElement(G, s, q + 1, b, TRUE)
    BY <1>4, Zenon DEF IsItem, G
  <2>2. PICK i \in a .. q - 1 : \E j \in i .. q - 1 :
          Blank(s, a, i - 1, TRUE) /\ Blank(s, j + 1, q - 1, TRUE) /\ IsString(s, i, j, TRUE)
    BY <2>1, Zenon DEF IsKey
  <2>3. PICK j \in i .. q - 1 :
          Blank(s, a, i - 1, TRUE) /\ Blank(s, j + 1, q - 1, TRUE) /\ IsString(s, i, j, TRUE)
    BY <2>2, Zenon
  <2>4. i \in a .. Len(s) /\ i \in 1 .. Len(s) /\ j \in i .. Len(s)
    BY <1>1
  <2>a. Blank(s, a, i - 1, FALSE) /\ Blank(s, j + 1, q - 1, FALSE) /\ IsString(s, i, j, FALSE)
    <3>1. Blank(s, a, i - 1, FALSE) /\ Blank(s, j + 1, q - 1, FALSE)
      BY <2>3, BlankTaken, Zenon
    <3>2. IsString(s, i, j, FALSE)
      BY <2>3, <2>4, StringTaken, Zenon
    <3> QED
      BY <3>1, <3>2, Zenon
  <2>5. PICK k \in 1 .. L + 1 : k = j + 1 /\ k <= q
    BY <1>1
  <2>6. parse_string(s, a).pos = k /\ k # 0
    <3>1. parse_string(s, a).pos = j + 1
      BY <2>4, <2>a, ParseStringComplete, Zenon
    <3> QED
      BY <2>5, <3>1
  <2>7. q \in Nat /\ q > 0 /\ q <= Len(s) /\ q <= Len(s) + 1
    BY <1>1
  <2>8. peek(s, q) = ":"
    BY <2>1, <2>7, PeekSees
  <2>9. skip_whitespace(s, k) = q
    BY <1>1, <2>5, <2>7, <2>8, <2>a, WhitespaceIs, Zenon DEF Space
  <2>10. PICK c \in 1 .. L + 1 : c = q + 1 /\ a < c
    BY <1>1
  <2>11. expect(s, k, ":") = c /\ c # 0
    BY <2>8, <2>9, <2>10 DEF expect
  <2>12. Item(P, s, kind, a).pos = parse_value(P, s, c).pos
    <3>1. Member(P, s, a).pos = parse_value(P, s, c).pos
      BY <2>6, <2>11, ZenonT(30) DEF Member, Threw
    <3> QED
      BY <1>4, <3>1 DEF Item
  <2>13. IsElement(G, s, c, b, TRUE)
    BY <2>1, <2>10, ZenonT(30)
  <2>14. c \in 1 .. Len(s) /\ b \in c .. Len(s)
    <3>1. PICK e \in c .. b : TRUE
      BY <2>13 DEF IsElement
    <3> QED
      BY <1>1, <3>1
  <2>15. CompleteWithin(s, c, b)
    <3>1. \A x \in 1 .. L + 1 : c < x => a < x
      BY <2>10
    <3> QED
      BY <1>1, <3>1 DEF CompleteWithin
  <2>16. PICK r \in Nat : r = parse_value(P, s, c).pos /\ c < r /\ r <= b + 1 /\ Blank(s, r, b, FALSE)
    BY <2>13, <2>14, <2>15, ElementComplete, Zenon DEF G, P
  <2>17. a < r
    BY <2>10, <2>16
  <2> QED
    BY <1>2, <2>12, <2>16, <2>17, Zenon DEF P
<1> QED
  BY <1>3, <1>4

LEMMA AllItemsComplete ==
  ASSUME NEW s \in Seq(Symbols), ~ UsesUnicode(s)
  PROVE  \A kind \in Kinds, a \in 1 .. Len(s) + 1, b \in 0 .. Len(s) : ItemsComplete(s, kind, a, b)
<1>1. PICK L \in Nat : L = Len(s)
  OBVIOUS
<1> DEFINE S == {m \in Nat : \A kind \in Kinds, a \in 1 .. L + 1, b \in 0 .. L :
                               L + 1 + b - a < m => ItemsComplete(s, kind, a, b)}
<1>2. 0 \in S
  <2>1. \A a \in 1 .. L + 1, b \in 0 .. L : ~ (L + 1 + b - a < 0)
    OBVIOUS
  <2> QED
    BY <2>1
<1>3. ASSUME NEW m \in Nat, m \in S PROVE m + 1 \in S
  <2> SUFFICES ASSUME NEW kind \in Kinds, NEW a \in 1 .. L + 1, NEW b \in 0 .. L, L + 1 + b - a < m + 1
               PROVE  ItemsComplete(s, kind, a, b)
    OBVIOUS
  <2> DEFINE P == Parser(s)
             G == Grammar(s, TRUE)
  <2> HIDE DEF P, G
  <2> SUFFICES ASSUME G[<<kind, a, b>>], b < L, s[b + 1] = Close[kind]
               PROVE  P[<<kind, a>>].pos = b + 2
    BY <1>1, Zenon DEF ItemsComplete, P, G
  <2>1. IsItems(G, s, kind, a, b, TRUE)
    BY <1>1, GrammarIs, Zenon DEF G
  <2>2. P[<<kind, a>>] = Items(P, s, kind, a)
    BY <1>1, ParserIs DEF P
  <2>3. Close[kind] \in {"]", "rbrace"}
    BY DEF Close, Kinds
  <2>4. a <= b
    <3>1. PICK i \in Nat : a <= i /\ i <= b
      BY <1>1, ItemsStart, Zenon DEF G
    <3> QED
      BY <3>1
  <2>5. a \in 1 .. Len(s) /\ b \in 0 .. Len(s) /\ b < Len(s)
    BY <1>1, <2>4
  <2>6. ASSUME NEW d \in 0 .. L, d <= b PROVE CompleteWithin(s, a, d)
    <3>1. \A x \in 1 .. L + 1, y \in 0 .. L : a < x /\ y < d => L + 1 + y - x < m
      BY <2>6
    <3> QED
      BY <1>1, <1>3, <3>1 DEF CompleteWithin
  <2>7. CASE IsItem(G, s, kind, a, b, TRUE)
    <3>1. b <= b
      BY <1>1
    <3>2. CompleteWithin(s, a, b)
      BY <2>6, <3>1
    <3>3. Item(P, s, kind, a).pos # 0 /\ skip_whitespace(s, Item(P, s, kind, a).pos) = b + 1
      BY <2>3, <2>5, <2>7, <3>2, ItemComplete, ZenonT(30) DEF P, G
    <3>4. peek(s, b + 1) = Close[kind]
      BY <1>1, PeekSees
    <3>5. Items(P, s, kind, a).pos = (b + 1) + 1
      BY <2>3, <3>3, <3>4 DEF Items, ItemsFrom
    <3> QED
      BY <2>2, <3>5
  <2>8. ASSUME NEW c \in a .. b, s[c] = "comma", IsItem(G, s, kind, a, c - 1, TRUE), G[<<kind, c + 1, b>>]
        PROVE  P[<<kind, a>>].pos = b + 2
    <3>1. PICK d \in 0 .. L : d = c - 1 /\ d + 1 = c /\ d <= b /\ d < L
      <4>1. c - 1 \in 0 .. L
        OBVIOUS
      <4>2. (c - 1) + 1 = c /\ c - 1 <= b /\ c - 1 < L
        OBVIOUS
      <4> QED
        BY <4>1, <4>2
    <3>2. PICK e \in 1 .. L + 1 : e = c + 1 /\ L + 1 + b - e < m
      BY <1>1
    <3>3. CompleteWithin(s, a, d)
      BY <2>6, <3>1
    <3>4. Item(P, s, kind, a).pos # 0 /\ skip_whitespace(s, Item(P, s, kind, a).pos) = d + 1
      <4>1. d \in 0 .. Len(s) /\ d < Len(s) /\ s[d + 1] = "comma"
        BY <1>1, <2>8, <3>1
      <4>2. IsItem(G, s, kind, a, d, TRUE)
        BY <2>8, <3>1, Zenon
      <4> QED
        BY <2>5, <3>3, <4>1, <4>2, ItemComplete, ZenonT(30) DEF P, G
    <3>5. peek(s, c) = "comma"
      <4>1. c \in Nat \ {0} /\ c <= Len(s)
        BY <1>1
      <4> QED
        BY <2>8, <4>1, PeekSees
    <3>6. Items(P, s, kind, a) = Prepend(Item(P, s, kind, a).val, P[<<kind, e>>])
      BY <2>3, <3>1, <3>2, <3>4, <3>5, Zenon DEF Items, ItemsFrom
    <3>7. ItemsComplete(s, kind, e, b)
      BY <1>3, <3>2
    <3>8. P[<<kind, e>>].pos = b + 2
      BY <1>1, <2>8, <3>2, <3>7, ZenonT(30) DEF ItemsComplete, P, G
    <3>9. Items(P, s, kind, a).pos = P[<<kind, e>>].pos
      <4>1. PICK x : x = P[<<kind, e>>]
        OBVIOUS
      <4>2. PICK y : y = Item(P, s, kind, a).val
        OBVIOUS
      <4>3. Prepend(y, x).pos = x.pos
        BY PrependPos
      <4> QED
        BY <3>6, <4>1, <4>2, <4>3, Zenon
    <3> QED
      BY <2>2, <3>8, <3>9
  <2> QED
    BY <2>1, <2>7, <2>8, Zenon DEF IsItems
<1> HIDE DEF S
<1>4. 2 * L + 2 \in S
  BY <1>2, <1>3, Induction
<1>5. \A a \in 1 .. L + 1, b \in 0 .. L : L + 1 + b - a < 2 * L + 2
  OBVIOUS
<1> QED
  BY <1>1, <1>4, <1>5 DEF S

\* parse accepts every JSON text, but for a number at the very end and \uXXXX.
LEMMA JsonIsAccepted ==
  ASSUME NEW s \in Seq(Symbols), IsJson(s, TRUE)
  PROVE  Accepted(s) \/ EndsInNumber(s) \/ UsesUnicode(s)
<1>1. PICK L \in Nat : L = Len(s)
  OBVIOUS
<1> SUFFICES ASSUME ~ EndsInNumber(s), ~ UsesUnicode(s) PROVE Accepted(s)
  OBVIOUS
<1>2. PICK i \in 1 .. L : \E j \in i .. L :
        Blank(s, 1, i - 1, TRUE) /\ Blank(s, j + 1, L, TRUE) /\ IsValue(Grammar(s, TRUE), s, i, j, TRUE)
  BY <1>1, Zenon DEF IsJson, IsElement
<1>3. PICK j \in i .. L :
        Blank(s, 1, i - 1, TRUE) /\ Blank(s, j + 1, L, TRUE) /\ IsValue(Grammar(s, TRUE), s, i, j, TRUE)
  BY <1>2, Zenon
<1>a. Blank(s, 1, i - 1, FALSE) /\ Blank(s, j + 1, L, FALSE)
  BY <1>3, BlankTaken, Zenon
<1>4. 1 \in 1 .. Len(s) /\ i \in 1 .. Len(s) /\ j \in i .. Len(s)
  BY <1>1
<1>5. CompleteWithin(s, i, j)
  BY AllItemsComplete DEF CompleteWithin
<1>6. \/ peek(s, j + 1) \in Ends
      \/ IsNumber(s, i, j, TRUE) => peek(s, j + 1) = "end" /\ \E k \in i .. j : s[k] = "e"
  <2>1. CASE j < L
    <3>1. j + 1 \in j + 1 .. L /\ j + 1 \in Nat \ {0} /\ j + 1 <= Len(s)
      BY <1>1, <2>1
    <3>2. s[j + 1] \in Space
      BY <1>3, <3>1 DEF Blank
    <3> QED
      BY <3>1, <3>2, PeekSees, Zenon DEF Ends
  <2>2. CASE j = L
    <3>1. peek(s, j + 1) = "end"
      BY <1>1, <2>2, PeekSees
    <3>2. IsNumber(s, i, Len(s), TRUE) => \E k \in i .. Len(s) : s[k] = "e"
      BY <1>3, <1>4, Zenon DEF EndsInNumber
    <3> QED
      BY <1>1, <2>2, <3>1, <3>2, Zenon
  <2>3. j < L \/ j = L
    OBVIOUS
  <2> QED
    BY <2>1, <2>2, <2>3, Zenon
<1>7. parse_value(Parser(s), s, 1).pos = j + 1
  BY <1>3, <1>4, <1>5, <1>6, <1>a, ValueComplete, Zenon
<1>8. PICK r \in 1 .. Len(s) + 1 : r = j + 1 /\ r # 0
  BY <1>1
<1>9. skip_whitespace(s, r) = Len(s) + 1
  <2>1. PICK q \in Nat : q = Len(s) + 1 /\ q - 1 = L /\ r <= q /\ q <= Len(s) + 1 /\ q > Len(s) /\ q # 0
    BY <1>1
  <2>2. peek(s, q) \notin Space
    BY <2>1, PeekSees DEF Space
  <2>3. Blank(s, r, q - 1, FALSE)
    BY <1>8, <1>a, <2>1, Zenon
  <2> QED
    BY <2>1, <2>2, <2>3, WhitespaceIs, Zenon
<1> QED
  BY <1>7, <1>8, <1>9 DEF Accepted, parse, AtEnd

\* parse (nonworking_json.cpp) accepts all of JSON but \uXXXX and a number at the very
\* end, and beyond JSON only loose numbers, control characters in strings, and vertical
\* tabs and form feeds as blanks, whatever the text: of any length, nested to any
\* depth, over any symbols.
THEOREM JsonTheorem == Spec => []AcceptsJson
<1> DEFINE Inv == /\ family \in Families
                  /\ json_str \in Seq(Symbols)
<1>1. Init => Inv
  BY JsonAssumption DEF Init
<1>2. Inv /\ [Next]_vars => Inv'
  <2> SUFFICES ASSUME Inv, [Next]_vars PROVE Inv'
    OBVIOUS
  <2>1. CASE Next
    <3>1. PICK c \in family.symbols : json_str' = Append(json_str, c)
      BY <2>1 DEF Next
    <3>2. c \in Symbols
      BY <3>1, JsonAssumption
    <3> QED
      BY <2>1, <3>1, <3>2 DEF Next
  <2>2. CASE UNCHANGED vars
    BY <2>2 DEF vars
  <2> QED
    BY <2>1, <2>2
<1>3. Inv => AcceptsJson
  BY AcceptedIsJson, JsonIsAccepted, Zenon DEF AcceptsJson
<1> QED
  BY <1>1, <1>2, <1>3, PTL DEF Spec
=============================================================================
