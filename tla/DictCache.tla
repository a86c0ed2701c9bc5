------------------------------ MODULE DictCache ------------------------------
(***************************************************************************)
(* cjunk/cython/simple.cpp: __Pyx_GetModuleGlobalName.  Each place that    *)
(* looks a name up keeps the value it found, without a reference, and the  *)
(* version of the dictionary it found it in.  The interpreter gives a      *)
(* dictionary a version no dictionary has had whenever it is changed; a    *)
(* failed import leaves __pyx_d to be replaced by another dictionary.  A   *)
(* lookup in a dictionary may itself fail: it compares the name with keys  *)
(* that hash alike, and a comparison may raise.                            *)
(***************************************************************************)
EXTENDS Naturals

CONSTANTS
  Dicts,         \* the dictionaries __pyx_d may point to
  MaxVersion     \* bound: versions given out

VARIABLES
  value,         \* what each dictionary has under the name; 0 is nothing
  version,       \* ma_version_tag of each dictionary
  issued,        \* the last version given out
  built_in,      \* whether the builtins have the name
  pyx_d,         \* __pyx_d
  dict_version,  \* the static variables of the place that looks the name up
  dict_cached_value,
  got,           \* what the last lookup returned; nothing before and after a change
  failed         \* history: the version at which a lookup last failed; 0 is none

dictVars == <<value, version, issued, built_in, pyx_d, dict_version,
              dict_cached_value, got, failed>>

Nothing == [from |-> "none", object |-> 0]
Raised == [from |-> "error", object |-> 0]

\* Objects are named by the version at which they entered a dictionary.
DictInit ==
  /\ issued \in 0 .. MaxVersion
  /\ version \in [Dicts -> 1 .. issued]
  /\ \A d, e \in Dicts : d # e => version[d] # version[e]
  /\ value = [d \in Dicts |-> 0] /\ built_in \in BOOLEAN /\ pyx_d \in Dicts
  /\ dict_version = 0 /\ dict_cached_value = 0 /\ got = Nothing
  /\ failed = 0

\* A name of the module is set, reset or deleted; or another name is.
Change(d) ==
  /\ issued < MaxVersion /\ issued' = issued + 1
  /\ version' = [version EXCEPT ![d] = issued + 1]
  /\ value' \in {value, [value EXCEPT ![d] = 0], [value EXCEPT ![d] = issued + 1]}
  /\ got' = Nothing /\ UNCHANGED <<built_in, pyx_d, dict_version, dict_cached_value, failed>>

\* A later import, of another module object.
Reimport ==
  /\ pyx_d' \in Dicts /\ got' = Nothing
  /\ UNCHANGED <<value, version, issued, built_in, dict_version, dict_cached_value, failed>>

\* __Pyx_GetBuiltinName, or NameError.
GetBuiltinName == [from |-> IF built_in THEN "builtins" ELSE "NameError", object |-> 0]

\* Slip: only what is found is cached, and the version with it either way.
UPDATE_DICT_CACHE_FOUND(result) ==
  /\ dict_version' = version[pyx_d]
  /\ dict_cached_value' = IF result # 0 THEN result ELSE dict_cached_value

\* __PYX_UPDATE_DICT_CACHE: nothing found is remembered as well.
UPDATE_DICT_CACHE(result) ==
  dict_version' = version[pyx_d] /\ dict_cached_value' = result

Result(v) == IF v # 0 THEN [from |-> "dict", object |-> v] ELSE GetBuiltinName

\* __Pyx__GetModuleGlobalName: the cache is filled before the result is looked
\* at, so also when there is none because the lookup failed.
LookUp ==
  \/ UPDATE_DICT_CACHE(value[pyx_d]) /\ got' = Result(value[pyx_d]) /\ UNCHANGED failed
  \/ UPDATE_DICT_CACHE(0) /\ got' = Raised /\ failed' = version[pyx_d]

\* The macro: the cached value, or a lookup.
GetModuleGlobalName ==
  /\ \/ /\ dict_version = version[pyx_d] /\ got' = Result(dict_cached_value)
        /\ UNCHANGED <<dict_version, dict_cached_value, failed>>
     \/ dict_version # version[pyx_d] /\ LookUp
  /\ UNCHANGED <<value, version, issued, built_in, pyx_d>>

DictNext == (\E d \in Dicts : Change(d)) \/ Reimport \/ GetModuleGlobalName

DictSpec == DictInit /\ [][DictNext]_dictVars

-----------------------------------------------------------------------------
\* A lookup that does not fail returns what the module's own dictionary holds
\* now, so never the unreferenced value of an earlier version or of an earlier
\* module; but once one has failed, those that follow pass over the dictionary,
\* whatever it holds, to the builtins or NameError until it changes.
GlobalIsCurrent ==
  got \notin {Nothing, Raised} =>
    \/ got = Result(value[pyx_d])
    \/ failed = version[pyx_d] /\ got = GetBuiltinName
=============================================================================
