------------------------------ MODULE CodeCache ------------------------------
(***************************************************************************)
(* cjunk/cython/simple.cpp: __Pyx_AddTraceback, which finds the code       *)
(* object of a line in __pyx_code_cache or makes and caches one.  The      *)
(* cache is an array sorted by line that is searched by bisection, grows   *)
(* by a fixed number of entries and owns a reference to each code object.  *)
(* Any allocation may fail.  The GIL is held from the first step of a call *)
(* to its last, so one call runs at a time.                                *)
(***************************************************************************)
EXTENDS Integers, Sequences

CONSTANTS
  Lines,      \* what may be looked up: -c_line, or py_line, or 0 for none
  Growth,     \* 64, the entries that an allocation adds
  MaxCodes    \* bound: code objects made

ASSUME CacheAssumption ==
  Lines \subseteq Int /\ Growth \in Nat \ {0} /\ MaxCodes \in Nat

VARIABLES
  entries,    \* __pyx_code_cache.entries, those in use
  count,      \* __pyx_code_cache.count
  max_count,  \* __pyx_code_cache.max_count, 0 while there is no array
  made,       \* history: the line for which each code object was made
  refs,       \* the references to each code object, but those of its frames
  step,       \* where the call of __Pyx_AddTraceback is
  code_line,  \* the line it looks up
  start, mid, end,   \* the variables of __pyx_bisect_code_objects
  pos,        \* what that returned
  py_code     \* the code object the call owns, or 0

cache == <<entries, count, max_count>>
objects == <<made, refs>>
bisection == <<start, mid, end, pos>>
cacheVars == <<cache, objects, step, code_line, bisection, py_code>>

Entry(l, c) == [code_line |-> l, code_object |-> c]

CacheInit ==
  /\ entries = [k \in 0 .. -1 |-> Entry(0, 0)] /\ count = 0 /\ max_count = 0
  /\ made = <<>> /\ refs = <<>>
  /\ step = "idle" /\ code_line = 0
  /\ start = 0 /\ mid = 0 /\ end = -1 /\ pos = 0 /\ py_code = 0

-----------------------------------------------------------------------------
\* __pyx_bisect_code_objects, for find or for insert, up to its loop.
Bisect(caller, l) ==
  /\ start' = 0 /\ mid' = 0 /\ end' = count - 1
  /\ IF count - 1 >= 0 /\ l > entries[count - 1].code_line
     THEN pos' = count /\ step' = IF caller = "find" THEN "found" ELSE "place"
     ELSE UNCHANGED pos /\ step' = caller

Middle == start + (end - start) \div 2

BisectReturns(p) ==
  pos' = p /\ step' = IF step = "find" THEN "found" ELSE "place"

\* while (start < end)
Halve ==
  /\ step \in {"find", "insert"} /\ start < end
  /\ mid' = Middle
  /\ \/ /\ code_line < entries[Middle].code_line
        /\ end' = Middle /\ UNCHANGED <<start, pos, step>>
     \/ /\ code_line > entries[Middle].code_line
        /\ start' = Middle + 1 /\ UNCHANGED <<end, pos, step>>
     \/ /\ code_line = entries[Middle].code_line
        /\ BisectReturns(Middle) /\ UNCHANGED <<start, end>>
  /\ UNCHANGED <<cache, objects, code_line, py_code>>

\* Slip: the entry of the very line counts as smaller.
MeetStrict ==
  /\ step \in {"find", "insert"} /\ start >= end
  /\ BisectReturns(IF code_line < entries[mid].code_line THEN mid ELSE mid + 1)
  /\ UNCHANGED <<cache, objects, code_line, start, mid, end, py_code>>

\* The end of the loop: the entry at mid, not the one at start, is compared.
Meet ==
  /\ step \in {"find", "insert"} /\ start >= end
  /\ BisectReturns(IF code_line <= entries[mid].code_line THEN mid ELSE mid + 1)
  /\ UNCHANGED <<cache, objects, code_line, start, mid, end, py_code>>

-----------------------------------------------------------------------------
\* __Pyx_AddTraceback, up to the search of __pyx_find_code_object.
AddTraceback(l) ==
  /\ step = "idle" /\ code_line' = l
  /\ IF l = 0 \/ max_count = 0
     THEN step' = "make" /\ UNCHANGED bisection
     ELSE Bisect("find", l)
  /\ UNCHANGED <<cache, objects, py_code>>

\* Slip: what is found is not given a reference.
FoundBorrowed ==
  /\ step = "found"
  /\ IF pos >= count \/ entries[pos].code_line # code_line
     THEN step' = "make" /\ UNCHANGED py_code
     ELSE step' = "finish" /\ py_code' = entries[pos].code_object
  /\ UNCHANGED <<cache, objects, code_line, bisection>>

\* The rest of __pyx_find_code_object.
Found ==
  /\ step = "found"
  /\ IF pos >= count \/ entries[pos].code_line # code_line
     THEN step' = "make" /\ UNCHANGED <<py_code, refs>>
     ELSE /\ step' = "finish" /\ py_code' = entries[pos].code_object
          /\ refs' = [refs EXCEPT ![entries[pos].code_object] = @ + 1]
  /\ UNCHANGED <<cache, made, code_line, bisection>>

\* __Pyx_CreateCodeObjectForTraceback, which may fail.
Make ==
  /\ step = "make"
  /\ \/ step' = "finish" /\ UNCHANGED <<objects, py_code>>
     \/ /\ Len(made) < MaxCodes
        /\ made' = Append(made, code_line) /\ refs' = Append(refs, 1)
        /\ py_code' = Len(made) + 1 /\ step' = "made"
  /\ UNCHANGED <<cache, code_line, bisection>>

\* __pyx_insert_code_object, up to its search; the first array may fail.
Insert ==
  /\ step = "made"
  /\ \/ (code_line = 0 \/ max_count = 0)
        /\ step' = "finish" /\ UNCHANGED <<cache, refs, bisection>>
     \/ /\ code_line # 0 /\ max_count = 0
        /\ entries' = [k \in 0 .. 0 |-> Entry(code_line, py_code)]
        /\ count' = 1 /\ max_count' = Growth
        /\ refs' = [refs EXCEPT ![py_code] = @ + 1]
        /\ step' = "finish" /\ UNCHANGED bisection
     \/ /\ code_line # 0 /\ max_count # 0
        /\ Bisect("insert", code_line) /\ UNCHANGED <<cache, refs>>
  /\ UNCHANGED <<made, code_line, py_code>>

\* The line has an entry: its code object is replaced, and the new one given no
\* reference.
PlaceAgain ==
  /\ entries' = [entries EXCEPT ![pos].code_object = py_code]
  /\ refs' = [refs EXCEPT ![entries[pos].code_object] = @ - 1]
  /\ UNCHANGED <<count, max_count>>

\* Slip: the entries from pos on are not moved up.
PlaceBelowOver ==
  /\ entries' = [k \in 0 .. count |-> IF k = pos THEN Entry(code_line, py_code)
                                      ELSE IF k < count THEN entries[k] ELSE entries[k - 1]]
  /\ count' = count + 1
  /\ max_count' = IF count = max_count THEN max_count + Growth ELSE max_count
  /\ refs' = [refs EXCEPT ![py_code] = @ + 1]

\* The entries from pos on move up; a full array grows first.
PlaceBelow ==
  /\ entries' = [k \in 0 .. count |-> IF k < pos THEN entries[k]
                                      ELSE IF k = pos THEN Entry(code_line, py_code)
                                      ELSE entries[k - 1]]
  /\ count' = count + 1
  /\ max_count' = IF count = max_count THEN max_count + Growth ELSE max_count
  /\ refs' = [refs EXCEPT ![py_code] = @ + 1]

\* The rest of __pyx_insert_code_object; growing a full array may fail.
Place ==
  /\ step = "place" /\ step' = "finish"
  /\ IF pos < count /\ entries[pos].code_line = code_line
     THEN PlaceAgain
     ELSE PlaceBelow \/ (count = max_count /\ UNCHANGED <<cache, refs>>)
  /\ UNCHANGED <<made, code_line, bisection, py_code>>

\* PyFrame_New, which keeps references of its own if it succeeds, and the
\* release of py_code.
Finish ==
  /\ step = "finish" /\ step' = "idle" /\ py_code' = 0
  /\ refs' = IF py_code = 0 THEN refs ELSE [refs EXCEPT ![py_code] = @ - 1]
  /\ UNCHANGED <<cache, made, code_line, bisection>>

CacheNext ==
  \/ \E l \in Lines : AddTraceback(l)
  \/ Halve \/ Meet \/ Found \/ Make \/ Insert \/ Place \/ Finish

CacheSpec == CacheInit /\ [][CacheNext]_cacheVars

-----------------------------------------------------------------------------
\* The counters stay in range, and no more entries are in use than there are.
CacheTypeOK ==
  /\ count \in Nat /\ max_count \in Nat /\ count <= max_count
  /\ made \in Seq(Lines) /\ refs \in Seq(Nat) /\ Len(refs) = Len(made)
  /\ entries \in [0 .. count - 1 -> [code_line : Lines, code_object : 1 .. Len(made)]]
  /\ step \in {"idle", "find", "found", "make", "made", "insert", "place", "finish"}
  /\ code_line \in Lines \cup {0}
  /\ start \in Nat /\ mid \in Nat /\ end \in Int /\ pos \in Nat
  /\ py_code \in 0 .. Len(made)

\* The entries are sorted by line, each line once, and each holds a code object
\* that was made for its line.
CacheSorted ==
  /\ \A j, k \in 0 .. count - 1 : j < k => entries[j].code_line < entries[k].code_line
  /\ \A k \in 0 .. count - 1 : made[entries[k].code_object] = entries[k].code_line

\* The bisection returns where the line is, or where it belongs.
BisectFinds ==
  step \in {"found", "place"} =>
    /\ pos <= count
    /\ \A k \in 0 .. count - 1 : (entries[k].code_line < code_line) = (k < pos)

Cached(c) == \E k \in 0 .. count - 1 : entries[k].code_object = c

\* The references to a code object are that of its entry and that of the call:
\* no cached object is freed under the cache, and none is leaked.
RefsExact ==
  \A c \in 1 .. Len(made) :
    refs[c] = (IF Cached(c) THEN 1 ELSE 0) + (IF py_code = c THEN 1 ELSE 0)
=============================================================================
