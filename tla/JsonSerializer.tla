--------------------------- MODULE JsonSerializer ---------------------------
(***************************************************************************)
(* middleware/src/nonworking_json.cpp: serialize_json, and that JsonParser *)
(* reads back what it writes.                                              *)
(***************************************************************************)
EXTENDS JsonParser, SequencesExt

RECURSIVE to_string(_)
to_string(n) ==
  IF n < 0 THEN <<"-">> \o to_string(-n)
  ELSE (IF n < 10 THEN <<>> ELSE to_string(n \div 10)) \o <<IF n % 10 = 1 THEN "1" ELSE "0">>

Escaped(str) ==
  FlattenSeq([k \in DOMAIN str |->
    IF str[k] \in {Quote, Backslash} THEN <<Backslash, str[k]>> ELSE <<str[k]>>])

\* Slip: the separator is forgotten.
ListedBare(items) == FlattenSeq([k \in DOMAIN items |-> <<"newline", "space">> \o items[k]])

\* Items separated by commas, each on a line.
Listed(items) ==
  FlattenSeq([k \in DOMAIN items |->
    (IF k = 1 THEN <<>> ELSE <<"comma">>) \o <<"newline", "space">> \o items[k]])

\* Keys are written without escapes, in an order that does not matter here.
RECURSIVE serialize_json(_)
serialize_json(v) ==
  CASE v[1] = "literal" -> <<v[2]>>
    [] v[1] = "long" -> to_string(v[2])
    [] v[1] = "double" -> <<"1", ".", "1">>
    [] v[1] = "string" -> <<Quote>> \o Escaped(v[2]) \o <<Quote>>
    [] v[1] = "array" ->
         <<"[">> \o Listed([k \in DOMAIN v[2] |-> serialize_json(v[2][k])]) \o <<"newline", "]">>
    [] v[1] = "object" ->
         LET keys == SetToSeq(DOMAIN v[2])
         IN <<"lbrace">> \o Listed([k \in DOMAIN keys |->
                         <<Quote>> \o keys[k] \o <<Quote, ":", "space">>
                         \o serialize_json(v[2][keys[k]])]) \o <<"newline", "rbrace">>

-----------------------------------------------------------------------------
RECURSIVE Plain(_)
Plain(v) ==
  CASE v[1] = "double" -> FALSE
    [] v[1] = "array" -> \A k \in DOMAIN v[2] : Plain(v[2][k])
    [] v[1] = "object" -> \A k \in DOMAIN v[2] :
         Plain(v[2][k]) /\ \A n \in DOMAIN k : k[n] \notin {Quote, Backslash}
    [] OTHER -> TRUE

\* What serialize_json writes of a parsed value parses back to the same value, if
\* there is no double in it, no key that needs an escape, and it is no number.
RoundTrip ==
  LET v == parse(json_str)
  IN v.pos # 0 /\ Plain(v.val) /\ v.val[1] # "long"
       => parse(serialize_json(v.val)).val = v.val
=============================================================================
