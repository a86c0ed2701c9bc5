---------------------------- MODULE CythonHelpers ----------------------------
(***************************************************************************)
(* cjunk/cython/simple.cpp: the helpers that compute and keep no state.    *)
(* Each is an operator, asked one question of a bounded set and compared   *)
(* with a definition that says what its answer should be.                  *)
(***************************************************************************)
EXTENDS Integers, Sequences, FiniteSets

CONSTANTS
  Builds,       \* the widths of the types in a build
  Digits,       \* what the digits of a Python int are taken from
  MaxDigits,    \* bound: digits of a Python int
  MaxClass,     \* bound: the classes are numbered from 0 to this
  MaxMinor      \* bound: minor versions, of one or two digits

VARIABLES query, answer

helperVars == <<query, answer>>

\* An answer is a value in a sequence of its own, or an exception.
Unasked == <<"not", "asked">>
Failed == <<>>

-----------------------------------------------------------------------------
(* __Pyx_PyInt_As_int, __Pyx_PyInt_As_long and __Pyx_PyIndex_AsSsize_t of  *)
(* a Python int, which is a sign and any number of digits of shift bits.   *)
(* Widths are in bits.  The targets are signed, so is_unsigned is FALSE.   *)
Pow2[n \in Nat] == IF n = 0 THEN 1 ELSE 2 * Pow2[n - 1]

\* In every build a digit has fewer bits than an int, and a long at least as many.
ASSUME HelperAssumption ==
  /\ \A b \in Builds : /\ b \in [shift : Nat \ {0}, int : Nat, long : Nat, ssize : Nat]
                       /\ b.shift < b.int /\ b.int <= b.long /\ b.shift < b.ssize
  /\ \A d \in Digits : d \in Nat /\ \A b \in Builds : d < Pow2[b.shift]
  /\ MaxDigits \in Nat /\ MaxClass \in Nat \ {0} /\ MaxMinor \in 0 .. 99

PyLongs ==
  {<<>>} \cup {ds \in UNION {[1 .. n -> Digits] : n \in 1 .. MaxDigits} : ds[Len(ds)] # 0}

\* The number that the digits make, the lowest first.
Magnitude(ds, shift) ==
  LET above[k \in 0 .. Len(ds)] ==
        IF k = Len(ds) THEN 0 ELSE ds[k + 1] + Pow2[shift] * above[k + 1]
  IN  above[0]

Fits(v, width) == -Pow2[width - 1] <= v /\ v < Pow2[width - 1]
Cast(v, width) ==
  LET r == v % Pow2[width] IN IF r < Pow2[width - 1] THEN r ELSE r - Pow2[width]

\* __PYX_VERIFY_RETURN_INT: the value is checked only if its type is the wider.
VERIFY_RETURN_INT(v, width, target) ==
  IF target < width /\ v # Cast(v, target) THEN Failed ELSE <<Cast(v, target)>>

\* PyLong_AsLong, which fails for what a long has not, and the check after it.
PyLong_AsLong(v, b, target) ==
  IF Fits(v, b.long) THEN VERIFY_RETURN_INT(v, b.long, target) ELSE Failed

\* Slip: the digits may fill the long, its sign bit included.
CIntFromPyFull(sign, ds, b, target) ==
  LET v == sign * Magnitude(ds, b.shift)  n == Len(ds)
  IN  CASE n \in 0 .. 1 -> <<Cast(v, target)>>
        [] n \in 2 .. 4 /\ b.long + 1 >= n * b.shift ->
             VERIFY_RETURN_INT(Cast(v, b.long), b.long, target)
        [] OTHER -> PyLong_AsLong(v, b, target)

\* The switch: zero and one digit fit any target, up to four are put together in
\* a long that has room for them all, and the rest is left to the interpreter.
CIntFromPy(sign, ds, b, target) ==
  LET v == sign * Magnitude(ds, b.shift)  n == Len(ds)
      room == IF sign = 1 THEN target ELSE target - 1
  IN  CASE n \in 0 .. 1 -> <<Cast(v, target)>>
        [] n \in 2 .. 4 /\ room > (n - 1) * b.shift /\ b.long > n * b.shift ->
             VERIFY_RETURN_INT(v, b.long, target)
        [] OTHER -> PyLong_AsLong(v, b, target)

PyInt_As_long(q) == CIntFromPy(q.sign, q.digits, q.build, q.build.long)

PyInt_As_int(q) == CIntFromPy(q.sign, q.digits, q.build, q.build.int)

PyIndex_AsSsize_t(q) ==
  LET v == q.sign * Magnitude(q.digits, q.build.shift)  n == Len(q.digits)
  IN  IF n <= 1 \/ (n <= 4 /\ q.build.ssize > n * q.build.shift)
      THEN <<Cast(v, q.build.ssize)>>
      ELSE IF Fits(v, q.build.ssize) THEN <<v>> ELSE Failed

IntQueries == [of : {"int", "long", "ssize"}, sign : {1, -1}, digits : PyLongs, build : Builds]

\* A conversion returns the number, and fails for the numbers its type has not.
IntRight ==
  LET v == query.sign * Magnitude(query.digits, query.build.shift)
  IN  answer = IF Fits(v, query.build[query.of]) THEN <<v>> ELSE Failed

-----------------------------------------------------------------------------
(* The wrapper of __pyx_unpickle_a_class: who calls it passes some         *)
(* arguments by position and some by keyword.                              *)
argnames == <<"type", "checksum", "state">>
Keys == {"type", "checksum", "state", "other", "no string"}

\* __Pyx_ParseOptionalKeywords fails for a key that is a name passed already, no
\* name at all, or no string.
ParseOptionalKeywords(kwds, pos_args) ==
  kwds \subseteq {argnames[k] : k \in pos_args + 1 .. 3}

\* Where each of the three values is taken from.  The names not passed by
\* position are looked up one by one; kw_args counts the keywords left over.
UnpackArguments(pos_args, kwds) ==
  LET rest == {argnames[k] : k \in pos_args + 1 .. 3}
      kw_args == Cardinality(kwds) - Cardinality(rest)
  IN  IF pos_args > 3 \/ rest \ kwds # {} THEN Failed
      ELSE IF kw_args > 0 /\ ~ParseOptionalKeywords(kwds, pos_args) THEN Failed
      ELSE [k \in 1 .. 3 |-> IF k <= pos_args THEN "position" ELSE "keyword"]

ArgumentQueries == [of : {"arguments"}, pos_args : 0 .. 4, kwds : SUBSET Keys]

\* The call goes on with every parameter passed exactly once and nothing passed
\* that is no parameter, and it fails otherwise.
ArgumentsRight ==
  LET Passed(k) == (IF k <= query.pos_args THEN {"position"} ELSE {}) \cup
                   (IF argnames[k] \in query.kwds THEN {"keyword"} ELSE {})
      Legal == /\ query.pos_args <= 3 /\ query.kwds \subseteq {argnames[k] : k \in 1 .. 3}
               /\ \A k \in 1 .. 3 : Cardinality(Passed(k)) = 1
  IN  IF Legal THEN answer # Failed /\ \A k \in 1 .. 3 : Passed(k) = {answer[k]}
      ELSE answer = Failed

-----------------------------------------------------------------------------
(* Whether an exception matches what a handler names: a class, a tuple of  *)
(* classes, or a tuple that has tuples in it.  Class 0 is object and 1 is  *)
(* BaseException; a class has a first base and maybe others.               *)
Classes == 0 .. MaxClass
Exceptions == Classes \ {0}
Bases == {b \in [Exceptions -> SUBSET Classes] :
            b[1] = {0} /\ \A c \in Exceptions \ {1} : b[c] # {} /\ b[c] \subseteq 1 .. c - 1}

Ancestors(c, bases) ==
  LET up[k \in Classes] == IF k = 0 THEN {0} ELSE {k} \cup UNION {up[b] : b \in bases[k]}
  IN  up[c]

\* tp_base, which of the bases is the one whose layout the class has: any of them.
InBases(a, b, tp_base) ==
  LET in[k \in Classes] == \/ b = 0
                           \/ k # 0 /\ (tp_base[k] = b \/ in[tp_base[k]])
  IN  in[a]

\* The mro lists the ancestors; only a type that is not ready has none.
IsSubtype(a, b, q) ==
  a = b \/ IF q.ready THEN b \in Ancestors(a, q.bases) ELSE InBases(a, b, q.tp_base)

\* __Pyx_PyErr_GivenExceptionMatches looks into a tuple, not into tuples in it.
GivenExceptionMatches(err, exc, q) ==
  IF exc.tuple THEN \E c \in exc.classes : IsSubtype(err, c, q)
  ELSE IsSubtype(err, exc.class, q)

\* __Pyx_PyErr_ExceptionMatchesInState, one tuple deeper.
ExceptionMatches(q) ==
  IF q.exc.tuple
  THEN \/ \E c \in q.exc.classes : GivenExceptionMatches(q.err, [tuple |-> FALSE, class |-> c], q)
       \/ GivenExceptionMatches(q.err, [tuple |-> TRUE, classes |-> q.exc.inner], q)
  ELSE GivenExceptionMatches(q.err, q.exc, q)

Handlers == [tuple : {FALSE}, class : Exceptions] \cup
            [tuple : {TRUE}, classes : SUBSET Exceptions, inner : SUBSET Exceptions]

ExceptionQueries ==
  {q \in [of : {"exception"}, err : Exceptions, exc : Handlers, ready : BOOLEAN,
          bases : Bases, tp_base : [Exceptions -> Classes]] :
     \A c \in Exceptions : q.tp_base[c] \in q.bases[c]}

Named(exc) == IF exc.tuple THEN exc.classes \cup exc.inner ELSE {exc.class}

\* An exception matches the classes it derives from, and for a type that is not
\* ready at least nothing else.
ExceptionRight ==
  LET derives == \E c \in Named(query.exc) : c \in Ancestors(query.err, query.bases)
  IN  (answer[1] => derives) /\ (query.ready /\ derives => answer[1])

-----------------------------------------------------------------------------
(* __Pyx_check_binary_version: the versions are written into four bytes.   *)
Versions == [major : {2, 3}, minor : 0 .. MaxMinor]

\* The third character of "major.minor".
ThirdChar(v) == IF v.minor < 10 THEN v.minor ELSE v.minor \div 10

\* Whether it warns.
check_binary_version(ct, rt) == ct.major # rt.major \/ ThirdChar(ct) # ThirdChar(rt)

VersionQueries == [of : {"version"}, ct : Versions, rt : Versions]

\* Versions that are equal are never warned of, and versions that differ always
\* are unless a minor version has two digits, of which the second is cut off.
VersionRight ==
  /\ answer[1] => query.ct # query.rt
  /\ query.ct # query.rt /\ query.ct.minor < 10 /\ query.rt.minor < 10 => answer[1]

-----------------------------------------------------------------------------
HelperInit ==
  /\ query \in IntQueries \cup ArgumentQueries \cup ExceptionQueries \cup VersionQueries
  /\ answer = Unasked

AnswerTo(q) ==
  CASE q.of = "int" -> PyInt_As_int(q)
    [] q.of = "long" -> PyInt_As_long(q)
    [] q.of = "ssize" -> PyIndex_AsSsize_t(q)
    [] q.of = "arguments" -> UnpackArguments(q.pos_args, q.kwds)
    [] q.of = "exception" -> <<ExceptionMatches(q)>>
    [] q.of = "version" -> <<check_binary_version(q.ct, q.rt)>>

HelperNext == answer = Unasked /\ answer' = AnswerTo(query) /\ UNCHANGED query

HelperSpec == HelperInit /\ [][HelperNext]_helperVars

\* On every question asked, integers are converted, versions compared, arguments
\* bound and exceptions matched as the definitions above say.
HelpersRight ==
  answer # Unasked =>
    CASE query.of \in {"int", "long", "ssize"} -> IntRight
      [] query.of = "version" -> VersionRight
      [] query.of = "arguments" -> ArgumentsRight
      [] query.of = "exception" -> ExceptionRight
=============================================================================
