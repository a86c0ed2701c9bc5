----------------------------- MODULE JsonParser -----------------------------
(***************************************************************************)
(* middleware/src/nonworking_json.cpp: JsonParser, over inputs that are    *)
(* sequences of symbols.  A symbol is an ASCII character (some go by a     *)
(* name), or a whole literal ("true"), so a misspelt one is any other      *)
(* symbol; of a literal behind it a backslash takes the first letter.      *)
(*                                                                         *)
(* A parse function takes the input and pos and gives the new pos and the  *)
(* value; pos 0 stands for the exception it throws.  What the functions    *)
(* call each other for at the positions to come is the argument P.         *)
(***************************************************************************)
EXTENDS Integers, Sequences

CONSTANTS
  Symbols,      \* what an input is made of
  OutOfRange,   \* the numbers, as texts, that std::stoll or std::stod has no value for
  Families      \* of inputs: a seed, the symbols it goes on with, and how many (a bound)

ASSUME JsonAssumption ==
  /\ "end" \notin Symbols
  /\ \A f \in Families : f.seed \in Seq(Symbols) /\ f.symbols \subseteq Symbols /\ f.growth \in Nat

VARIABLES json_str, family, grown
vars == <<json_str, family, grown>>

Digit == {"0", "1"}
Quote == "quote"
Backslash == "backslash"
Literals == {"true", "false", "null"}

\* What std::isspace takes for a space: JSON's white space, of which "newline"
\* stands for what is a control character too, and the vertical tab and form feed.
Space == {"space", "newline", "vtab"}

\* What may follow a backslash, and what they stand for together.
Escapes == {Quote, Backslash, "n"} \cup Literals
Escape == [c \in Escapes |->
  CASE c = "n" -> "newline" [] c = "null" -> "newline ull" [] c = "true" -> "tab rue"
    [] c = "false" -> "form feed alse" [] OTHER -> c]

Threw == [pos |-> 0, val |-> <<"nothing">>]

\* peek, which throws past the end: no symbol is "end".
peek(s, p) == IF p > Len(s) THEN "end" ELSE s[p]

\* The first position from p on that holds no symbol of S.
Skip(s, p, S) == CHOOSE q \in p .. Len(s) + 1 :
                   peek(s, q) \notin S /\ \A r \in p .. q - 1 : s[r] \in S
skip_whitespace(s, p) == Skip(s, p, Space)

expect(s, p, c) ==
  LET q == skip_whitespace(s, p) IN IF peek(s, q) = c THEN q + 1 ELSE 0

\* A loop that goes on after x with what r is, and a value made of what a loop read.
Prepend(x, r) == IF r.pos = 0 THEN Threw ELSE [pos |-> r.pos, val |-> <<x>> \o r.val]
Tagged(tag, r) == IF r.pos = 0 THEN Threw ELSE [pos |-> r.pos, val |-> <<tag, r.val>>]

-----------------------------------------------------------------------------
\* The loop of parse_string, inside the quotes.
StringLoop(s) ==
  LET from[p \in 1 .. Len(s) + 1] ==
        CASE peek(s, p) = "end" -> Threw
          [] peek(s, p) = Quote -> [pos |-> p + 1, val |-> <<>>]
          [] peek(s, p) = Backslash ->
               IF peek(s, p + 1) \in DOMAIN Escape
               THEN Prepend(Escape[peek(s, p + 1)], from[p + 2]) ELSE Threw
          [] OTHER -> Prepend(peek(s, p), from[p + 1])
  IN  from

parse_string(s, p) ==
  LET q == expect(s, p, Quote) IN IF q = 0 THEN Threw ELSE Tagged("string", StringLoop(s)[q])

\* std::stoll of a sign and digits.
stoll(text) ==
  LET upto[k \in 0 .. Len(text)] ==
        IF k = 0 THEN 0
        ELSE IF text[k] \in Digit THEN 10 * upto[k - 1] + (IF text[k] = "1" THEN 1 ELSE 0)
        ELSE upto[k - 1]
  IN  IF text[1] = "-" THEN -upto[Len(text)] ELSE upto[Len(text)]

\* peek throws if the input ends after the integer or the fractional part.
\* stoll and stod throw if no digit precedes the exponent or the number is out of
\* range; a double is kept without its value.
parse_number(s, p) ==
  LET int == Skip(s, IF peek(s, p) = "-" THEN p + 1 ELSE p, Digit)
      frac == IF peek(s, int) = "." THEN Skip(s, int + 1, Digit) ELSE int
      sign == IF peek(s, frac + 1) \in {"+", "-"} THEN frac + 2 ELSE frac + 1
      end == IF peek(s, frac) = "e" THEN Skip(s, sign, Digit) ELSE frac
      Ends(q) == peek(s, q) = "end"
  IN IF \/ Ends(int) \/ Ends(frac)
        \/ peek(s, frac) = "e" /\ Ends(frac + 1)
        \/ \A q \in p .. frac - 1 : s[q] \notin Digit
        \/ SubSeq(s, p, end - 1) \in OutOfRange
     THEN Threw
     ELSE [pos |-> end,
           val |-> IF end = int THEN <<"long", stoll(SubSeq(s, p, end - 1))>>
                   ELSE <<"double", <<>> >>]

-----------------------------------------------------------------------------
Kinds == {"array", "object"}
Open == [array |-> "[", object |-> "lbrace"]
Close == [array |-> "]", object |-> "rbrace"]

\* obj[key] = value, pair by pair: the last of equal keys stays.
Object(pairs) ==
  [key \in {pairs[k][1] : k \in DOMAIN pairs} |->
     pairs[CHOOSE k \in DOMAIN pairs :
             pairs[k][1] = key /\ \A m \in k + 1 .. Len(pairs) : pairs[m][1] # key][2]]

\* What the loop of an array or an object reads, P, behind the opening bracket at p.
Bracketed(P, s, kind, p) ==
  LET q == skip_whitespace(s, p + 1)
  IN  CASE peek(s, q) = "end" -> Threw
        [] peek(s, q) = Close[kind] -> [pos |-> q + 1, val |-> <<>>]
        [] OTHER -> P[<<kind, q>>]

parse_array(P, s, p) == Tagged("array", Bracketed(P, s, "array", p))

parse_object(P, s, p) ==
  LET r == Bracketed(P, s, "object", p)
  IN  IF r.pos = 0 THEN Threw ELSE [pos |-> r.pos, val |-> <<"object", Object(r.val)>>]

parse_value(P, s, p) ==
  LET q == skip_whitespace(s, p)
      c == peek(s, q)
  IN CASE c = Quote -> parse_string(s, q)
       [] c \in Digit \cup {"-"} -> parse_number(s, q)
       [] c = "[" -> parse_array(P, s, q)
       [] c = "lbrace" -> parse_object(P, s, q)
       [] c \in Literals -> [pos |-> q + 1, val |-> <<"literal", c>>]
       [] OTHER -> Threw

\* A key, a colon and a value.
Member(P, s, p) ==
  LET key == parse_string(s, p)
      colon == IF key.pos = 0 THEN 0 ELSE expect(s, key.pos, ":")
      v == IF colon = 0 THEN Threw ELSE parse_value(P, s, colon)
  IN  IF v.pos = 0 THEN Threw ELSE [pos |-> v.pos, val |-> <<key.val[2], v.val>>]

Item(P, s, kind, p) == IF kind = "array" THEN parse_value(P, s, p) ELSE Member(P, s, p)

\* The loop of parse_array and of parse_object: an item v, and a comma and more of
\* them or the closing bracket.
ItemsFrom(P, s, kind, v) ==
  LET q == skip_whitespace(s, v.pos)
  IN  CASE v.pos = 0 -> Threw
        [] v.pos # 0 /\ peek(s, q) = "comma" -> Prepend(v.val, P[<<kind, q + 1>>])
        [] v.pos # 0 /\ peek(s, q) = Close[kind] -> [pos |-> q + 1, val |-> <<v.val>>]
        [] OTHER -> Threw

Items(P, s, kind, p) == ItemsFrom(P, s, kind, Item(P, s, kind, p))

Parser(s) ==
  LET P[x \in Kinds \X (1 .. Len(s) + 1)] == Items(P, s, x[1], x[2]) IN P

\* Slip: what follows the value is not looked at.
parse_prefix(s) == parse_value(Parser(s), s, 1)

AtEnd(s, v) == IF v.pos # 0 /\ skip_whitespace(s, v.pos) = Len(s) + 1 THEN v ELSE Threw

parse(s) == AtEnd(s, parse_value(Parser(s), s, 1))

-----------------------------------------------------------------------------
\* The inputs: the seed of a family followed by up to growth of its symbols.
Init == family \in Families /\ json_str = family.seed /\ grown = 0
Next ==
  /\ grown < family.growth /\ grown' = grown + 1
  /\ \E c \in family.symbols : json_str' = Append(json_str, c)
  /\ UNCHANGED family
Spec == Init /\ [][Next]_vars

Accepted(s) == parse(s).pos # 0

-----------------------------------------------------------------------------
(* The grammar of JSON, for the symbols a .. b of s, if strict; otherwise  *)
(* the looser one the parser takes.                                        *)
Blank(s, a, b, strict) == \A k \in a .. b : s[k] \in Space /\ (strict => s[k] # "vtab")
AllDigits(s, a, b) == \A k \in a .. b : s[k] \in Digit

\* \uXXXX, without its backslash; no literal is part of one.
IsUnicode(s, k, b) == s[k] = "u" /\ k + 4 < b /\ \A h \in k + 1 .. k + 4 : s[h] \in Digit \cup {"e"}

\* Every quote and backslash inside is part of an escape.  JSON has \uXXXX and no
\* control characters; the parser takes those as they are, but no \uXXXX.
IsString(s, a, b, strict) ==
  /\ a < b /\ s[a] = Quote /\ s[b] = Quote
  /\ strict => \A k \in a + 1 .. b - 1 : s[k] \notin {"newline", "vtab", "control"}
  /\ \E escapes \in SUBSET (a + 1 .. b - 2) :
       /\ \A k \in escapes : /\ s[k] = Backslash /\ k + 1 \notin escapes
                            /\ \/ s[k + 1] \in Escapes
                               \/ strict /\ IsUnicode(s, k + 1, b)
       /\ \A k \in a + 1 .. b - 1 :
            s[k] \in {Quote, Backslash} => k \in escapes \/ k - 1 \in escapes

\* -?(0|[1-9]d*)(.d+)?(e[+-]?d+)?, or the looser form the parser takes, where any
\* run of digits may be empty or start with 0 if the mantissa has a digit.  The
\* integer ends at m and the mantissa at x.
IsNumber(s, a, b, strict) ==
  LET int == IF s[a] = "-" THEN a + 1 ELSE a
      Exp(x) == IF x + 2 <= b /\ s[x + 2] \in {"+", "-"} THEN x + 3 ELSE x + 2
  IN  /\ a <= b /\ s[a] \in Digit \cup {"-"} /\ SubSeq(s, a, b) \notin OutOfRange
      /\ \E m \in int - 1 .. b : \E x \in m .. b :
           /\ AllDigits(s, int, m)
           /\ strict => int <= m /\ (s[int] = "0" => int = m)
           /\ m < x => s[m + 1] = "." /\ AllDigits(s, m + 2, x) /\ (strict => m + 2 <= x)
           /\ x < b => s[x + 1] = "e" /\ AllDigits(s, Exp(x), b) /\ (strict => Exp(x) <= b)
           /\ \E k \in a .. x : s[k] \in Digit

\* A value, without blanks around it.  The argument G says what the items are
\* that a shorter part consists of, separated by commas.
IsValue(G, s, a, b, strict) ==
  \/ a = b /\ s[a] \in Literals
  \/ IsString(s, a, b, strict)
  \/ IsNumber(s, a, b, strict)
  \/ \E kind \in Kinds :
       /\ a < b /\ s[a] = Open[kind] /\ s[b] = Close[kind]
       /\ Blank(s, a + 1, b - 1, strict) \/ G[<<kind, a + 1, b - 1>>]

IsElement(G, s, a, b, strict) ==
  \E i \in a .. b : \E j \in i .. b :
    Blank(s, a, i - 1, strict) /\ Blank(s, j + 1, b, strict) /\ IsValue(G, s, i, j, strict)

IsKey(s, a, b, strict) ==
  \E i \in a .. b : \E j \in i .. b :
    Blank(s, a, i - 1, strict) /\ Blank(s, j + 1, b, strict) /\ IsString(s, i, j, strict)

IsItem(G, s, kind, a, b, strict) ==
  IF kind = "array" THEN IsElement(G, s, a, b, strict)
  ELSE \E c \in a .. b :
         s[c] = ":" /\ IsKey(s, a, c - 1, strict) /\ IsElement(G, s, c + 1, b, strict)

IsItems(G, s, kind, a, b, strict) ==
  \/ IsItem(G, s, kind, a, b, strict)
  \/ \E c \in a .. b : s[c] = "comma" /\ IsItem(G, s, kind, a, c - 1, strict) /\ G[<<kind, c + 1, b>>]

Grammar(s, strict) ==
  LET G[x \in Kinds \X (1 .. Len(s) + 1) \X (0 .. Len(s))] ==
        IsItems(G, s, x[1], x[2], x[3], strict)
  IN  G

IsJson(s, strict) == IsElement(Grammar(s, strict), s, 1, Len(s), strict)

\* A number without an exponent at the very end, where parse_number peeks past it.
EndsInNumber(s) ==
  \E i \in 1 .. Len(s) :
    /\ Blank(s, 1, i - 1, TRUE) /\ IsNumber(s, i, Len(s), TRUE)
    /\ \A k \in i .. Len(s) : s[k] # "e"

\* Some string has an escape \uXXXX, and no other reading without.
UsesUnicode(s) ==
  \E a \in 1 .. Len(s) : \E b \in a .. Len(s) : IsString(s, a, b, TRUE) /\ ~IsString(s, a, b, FALSE)

\* parse accepts every JSON text whose numbers are in range, except that no string
\* may have an escape \uXXXX, and that it must not be a number that has no exponent
\* and nothing behind it.  What it accepts is JSON without \uXXXX, but for three
\* things: stoll and stod take leading zeros and empty digit runs, a string may
\* have control characters in it, and vertical tabs and form feeds are blanks.
AcceptsJson ==
  /\ IsJson(json_str, TRUE) =>
       Accepted(json_str) \/ EndsInNumber(json_str) \/ UsesUnicode(json_str)
  /\ Accepted(json_str) => IsJson(json_str, FALSE)

\* main lists "12345" and "3.14159" with the texts to parse, not with the invalid
\* ones: a JSON number is accepted.
AcceptsNumbers ==
  IsNumber(json_str, 1, Len(json_str), TRUE) => Accepted(json_str)
=============================================================================
