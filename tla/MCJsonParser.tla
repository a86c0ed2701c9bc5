---------------------------- MODULE MCJsonParser ----------------------------
(* JsonParser over short inputs of a few symbols.                          *)
EXTENDS JsonSerializer

Family(seeds, symbols, growth) ==
  [seed : seeds, symbols : {symbols}, growth : {growth}]

\* Brackets, separators and members; the second seed makes room for a second
\* member of an object.
Structure ==
  Family({<<>>, <<"lbrace", Quote, Quote, ":", "null">>},
         {"[", "]", "lbrace", "rbrace", "comma", ":", Quote, "null"}, 6)

Numbers ==
  Family({<<>>, <<"[">>}, {"]", "-", "+", "0", "1", ".", "e", "comma", "space"}, 5)

\* Strings with escapes that exist and that do not, as values and as keys.
Strings ==
  Family({<<>>, <<"lbrace", Quote>>}, {Quote, Backslash, "n", "u", ":", "null", "rbrace"}, 6)

\* \uXXXX, and what looks like it: behind two backslashes, or a digit short.
Unicode ==
  Family({<<Quote, Backslash, "u", "0">>, <<Quote, Backslash, Backslash, "u", "0">>},
         {Quote, Backslash, "u", "0", "e"}, 5)

\* White space and control characters between values and inside strings.
Blanks ==
  Family({<<>>, <<"[", "null">>}, {Quote, "space", "newline", "vtab", "control", "comma", "null", "]"}, 5)

\* The range of long long ends at 111 here, that of double before 1e11.
TooLarge ==
  LET integers == UNION {[1 .. n -> Digit] : n \in 1 .. 5}
      signed == integers \cup {<<"-">> \o t : t \in integers}
  IN  {t \in signed : stoll(t) \notin -111 .. 110} \cup {<<"1", "e", "1", "1">>}

AllFamilies == Structure \cup Numbers \cup Strings \cup Unicode \cup Blanks

AllSymbols == UNION {f.symbols : f \in AllFamilies}
=============================================================================
