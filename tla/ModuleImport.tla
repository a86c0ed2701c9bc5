----------------------------- MODULE ModuleImport -----------------------------
(***************************************************************************)
(* cjunk/cython/simple.cpp: how the module is imported.  importlib calls   *)
(* __pyx_pymod_create and then __pyx_pymod_exec_simple, which fills in     *)
(* static variables and a static type one step after the other.  Every     *)
(* call into the interpreter may fail, and a failed import may be retried, *)
(* under either name the file can be found by.  importlib is Python code,  *)
(* so that between its steps, and while exec prints, another thread or     *)
(* interpreter may import too, one of each name at a time; that it may do  *)
(* so while exec warns of another version is left out.                     *)
(***************************************************************************)
EXTENDS Integers, Sequences, FiniteSets

CONSTANTS
  Interpreters,  \* their ids, from 1
  MaxModules     \* bound: module objects made

\* 0 is the main_interpreter of a module that nobody has tried to import.
ASSUME ImportAssumption == 0 \notin Interpreters

Names == {"simple", "package.simple"}

\* The calls of exec that may fail, in their order; __Pyx_setup_reduce is taken
\* apart, since it moves entries of the static type's dictionary.
Steps == <<"check_binary_version", "empty objects", "__pyx_d", "__pyx_b",
  "cython_runtime", "__builtins__", "InitGlobals", "sys.modules",
  "InitCachedBuiltins", "InitCachedConstants", "PyType_Ready", "SetVtable",
  "a_class", "reduce_ex", "reduce", "set reduce", "del reduce_cython", "setstate",
  "set setstate", "del setstate_cython", "print", "unpickle", "__test__">>

VARIABLES
  main_interpreter,  \* static in check_single_interpreter; 0 is none
  pyx_m, mod_d,      \* __pyx_m and the module that __pyx_d is of; 0 is NULL
  tp_dict,           \* the entries of the static type that setup_reduce moves
  modules,           \* sys.modules of each interpreter; 0 is no entry
  at,                \* the step of exec that comes next, 0 when none runs
  module, name, who, \* what exec runs on, its name in sys.modules, and where
  pending,           \* what importlib is to exec for each name; 0 if it is idle
  mod_made,          \* the number of modules made
  late,              \* history: an import failed after reduce was moved
  hushed,            \* history: setup_reduce_is_named cleared an exception
  alias              \* history: an import that failed left an entry of the other
                     \* name

importVars == <<main_interpreter, pyx_m, mod_d, tp_dict, modules, at, module, name,
                who, pending, mod_made, late, hushed, alias>>

At(s) == at # 0 /\ Steps[at] = s
Count(s) == CHOOSE k \in 1 .. Len(Steps) : Steps[k] = s

ImportInit ==
  /\ main_interpreter = 0 /\ pyx_m = 0 /\ mod_d = 0
  /\ tp_dict = {"reduce_cython", "setstate_cython"}
  /\ modules = [i \in Interpreters |-> [n \in Names |-> 0]]
  /\ at = 0 /\ module = 0 /\ name = "simple" /\ who \in Interpreters /\ mod_made = 0
  /\ pending = [i \in Interpreters |-> [n \in Names |-> 0]]
  /\ late = FALSE /\ hushed = FALSE /\ alias = FALSE

-----------------------------------------------------------------------------
\* What importlib is to exec when it has yet to call create.
Begun == -1

\* Where the threads may change: no exec runs, or one that prints.
PythonRuns == at = 0 \/ At("print")

\* importlib finds that sys.modules does not have the name.
Find(i, n) ==
  /\ PythonRuns /\ pending[i][n] = 0 /\ modules[i][n] = 0
  /\ pending' = [pending EXCEPT ![i][n] = Begun]
  /\ UNCHANGED <<main_interpreter, pyx_m, mod_d, tp_dict, modules, at, module, name, who,
                 mod_made, late, hushed, alias>>

\* Slip: the interpreter is forgotten when no module is left.
check_single_interpreter_anew(i) ==
  main_interpreter' = IF pyx_m = 0 THEN i ELSE main_interpreter

\* The first interpreter to ask is remembered, whatever becomes of its import.
check_single_interpreter(i) ==
  main_interpreter' = IF main_interpreter = 0 THEN i ELSE main_interpreter

\* __pyx_pymod_create: it fails, returns the module that is in __pyx_m, which
\* need not be done, or makes one.
Create(i, n) ==
  /\ PythonRuns /\ pending[i][n] = Begun
  /\ check_single_interpreter(i)
  /\ \/ /\ main_interpreter' # i \/ pyx_m = 0
        /\ pending' = [pending EXCEPT ![i][n] = 0] /\ UNCHANGED mod_made
     \/ /\ main_interpreter' = i /\ pyx_m # 0
        /\ pending' = [pending EXCEPT ![i][n] = pyx_m] /\ UNCHANGED mod_made
     \/ /\ main_interpreter' = i /\ pyx_m = 0 /\ mod_made < MaxModules
        /\ pending' = [pending EXCEPT ![i][n] = mod_made + 1] /\ mod_made' = mod_made + 1
  /\ UNCHANGED <<pyx_m, mod_d, tp_dict, modules, at, module, name, who, late, hushed, alias>>

\* importlib makes the module the entry of its name, over any that is there.
Enter(i, n) ==
  /\ PythonRuns /\ pending[i][n] \notin {0, Begun, modules[i][n]}
  /\ modules' = [modules EXCEPT ![i][n] = pending[i][n]]
  /\ UNCHANGED <<main_interpreter, pyx_m, mod_d, tp_dict, at, module, name, who, pending,
                 mod_made, late, hushed, alias>>

\* importlib calls exec.  A module that __pyx_m holds already has been imported,
\* or is being; another is refused, and importlib removes the entry; if there is
\* none exec begins.
Exec(i, n) ==
  LET m == pending[i][n] IN
  /\ PythonRuns /\ m # 0 /\ m = modules[i][n] /\ (at # 0 => <<i, n>> # <<who, name>>)
  /\ \/ /\ pyx_m = m /\ pending' = [pending EXCEPT ![i][n] = 0]
        /\ UNCHANGED <<modules, at, module, name, who>>
     \/ /\ pyx_m \notin {0, m} /\ modules' = [modules EXCEPT ![i][n] = 0]
        /\ pending' = [pending EXCEPT ![i][n] = 0]
        /\ UNCHANGED <<at, module, name, who>>
     \/ /\ pyx_m = 0 /\ at' = 1 /\ module' = m /\ name' = n /\ who' = i
        /\ UNCHANGED <<modules, pending>>
  /\ UNCHANGED <<main_interpreter, pyx_m, mod_d, tp_dict, mod_made, late, hushed, alias>>

\* A module is dropped from sys.modules, as tests and reloaders do.
Forget(i, n) ==
  /\ at = 0 /\ modules[i][n] # 0 /\ pending[i][n] = 0
  /\ modules' = [modules EXCEPT ![i][n] = 0]
  /\ UNCHANGED <<main_interpreter, pyx_m, mod_d, tp_dict, at, module, name, who, pending,
                 mod_made, late, hushed, alias>>

-----------------------------------------------------------------------------
\* Another name has the module that exec runs on for its entry, and is not going
\* to call exec for it.
LeavesEntry ==
  \E n \in Names \ {name} : modules[who][n] = module /\ pending[who][n] # module

\* Slip: __pyx_m is not cleared.
FailKeeping ==
  /\ at' = 0
  /\ modules' = [modules EXCEPT ![who][name] = 0]
  /\ pending' = [pending EXCEPT ![who][name] = 0]
  /\ late' = (late \/ at > Count("del reduce_cython"))
  /\ alias' = (alias \/ LeavesEntry)
  /\ UNCHANGED <<main_interpreter, pyx_m, mod_d, tp_dict, module, name, who, mod_made, hushed>>

\* __pyx_L1_error, after which importlib removes the entry it made.  The other
\* static variables, the type and sys.modules["simple"] stay as they are.
Fail ==
  /\ at' = 0 /\ pyx_m' = 0
  /\ modules' = [modules EXCEPT ![who][name] = 0]
  /\ pending' = [pending EXCEPT ![who][name] = 0]
  /\ late' = (late \/ at > Count("del reduce_cython"))
  /\ alias' = (alias \/ LeavesEntry)
  /\ UNCHANGED <<main_interpreter, mod_d, tp_dict, module, name, who, mod_made, hushed>>

\* The next step, or the return of exec.
GoTo(k) ==
  /\ IF k > Len(Steps)
     THEN at' = 0 /\ pending' = [pending EXCEPT ![who][name] = 0]
     ELSE at' = k /\ UNCHANGED pending
  /\ UNCHANGED <<main_interpreter, module, name, who, mod_made, late, alias>>

\* A step that only sets static variables of its own, or objects of the module.
Plain ==
  /\ at # 0 /\ Steps[at] \notin {"__pyx_d", "sys.modules", "reduce", "set reduce",
       "del reduce_cython", "setstate", "set setstate", "del setstate_cython"}
  /\ Fail \/ (GoTo(at + 1) /\ UNCHANGED <<pyx_m, mod_d, tp_dict, modules, hushed>>)

\* __pyx_m and its dictionary, which every module has.
SetModule ==
  /\ At("__pyx_d") /\ GoTo(at + 1)
  /\ pyx_m' = module /\ mod_d' = module /\ UNCHANGED <<tp_dict, modules, hushed>>

\* The module enters sys.modules as "simple" under whatever name it is imported.
Register ==
  /\ At("sys.modules")
  /\ \/ Fail
     \/ /\ GoTo(at + 1) /\ UNCHANGED <<pyx_m, mod_d, tp_dict, hushed>>
        /\ modules' = IF modules[who]["simple"] = 0
                      THEN [modules EXCEPT ![who]["simple"] = module] ELSE modules

\* Slip: a type that an earlier import has set up is left as it is.
FindReduceOnce ==
  /\ At("reduce")
  /\ \/ Fail
     \/ /\ "reduce_cython" \in tp_dict /\ GoTo(at + 1)
        /\ UNCHANGED <<pyx_m, mod_d, tp_dict, modules, hushed>>
     \/ /\ tp_dict = {"reduce", "setstate"} /\ GoTo(Count("print"))
        /\ UNCHANGED <<pyx_m, mod_d, tp_dict, modules, hushed>>

\* The type's __reduce__ is object's, or is named __reduce_cython__ by an earlier
\* import: then __reduce_cython__ must be there.  If its name cannot be read, the
\* exception is cleared and the rest of setup_reduce skipped.
FindReduce ==
  /\ At("reduce")
  /\ \/ Fail
     \/ /\ "reduce_cython" \in tp_dict /\ GoTo(at + 1)
        /\ UNCHANGED <<pyx_m, mod_d, tp_dict, modules, hushed>>
     \/ /\ "reduce" \in tp_dict /\ GoTo(Count("print")) /\ hushed' = TRUE
        /\ UNCHANGED <<pyx_m, mod_d, tp_dict, modules>>

\* The same for __setstate__, which object does not have.
FindSetstate ==
  /\ At("setstate")
  /\ \/ Fail
     \/ /\ "setstate_cython" \in tp_dict /\ GoTo(at + 1)
        /\ UNCHANGED <<pyx_m, mod_d, tp_dict, modules, hushed>>
     \/ /\ "setstate" \in tp_dict /\ GoTo(Count("print")) /\ hushed' = TRUE
        /\ UNCHANGED <<pyx_m, mod_d, tp_dict, modules>>

\* PyDict_SetItem and PyDict_DelItem on the dictionary of the static type.
MoveEntry ==
  \/ /\ at # 0 /\ Steps[at] \in {"set reduce", "del reduce_cython", "set setstate",
                                "del setstate_cython"}
     /\ Fail
  \/ /\ \/ At("set reduce") /\ tp_dict' = tp_dict \cup {"reduce"}
        \/ At("del reduce_cython") /\ tp_dict' = tp_dict \ {"reduce_cython"}
        \/ At("set setstate") /\ tp_dict' = tp_dict \cup {"setstate"}
        \/ At("del setstate_cython") /\ tp_dict' = tp_dict \ {"setstate_cython"}
     /\ GoTo(at + 1) /\ UNCHANGED <<pyx_m, mod_d, modules, hushed>>

ImportNext ==
  \/ \E i \in Interpreters, n \in Names :
       Find(i, n) \/ Create(i, n) \/ Enter(i, n) \/ Exec(i, n) \/ Forget(i, n)
  \/ Plain \/ SetModule \/ Register \/ FindReduce \/ FindSetstate \/ MoveEntry

ImportSpec == ImportInit /\ [][ImportNext]_importVars

-----------------------------------------------------------------------------
\* When no exec runs, __pyx_m is NULL or a module that exec went through to its
\* end, with its own dictionary and a type that pickles, unless reading a method's
\* name failed; and while one prints it is the module of that one, so that no
\* other begins.  sys.modules then holds nothing half made but what importlib has
\* yet to exec, unless an import that failed left an entry of the other name: one
\* that exec made itself, or that of an import which got the module before exec
\* was done.
ImportedIsComplete ==
  /\ At("print") => pyx_m = module
  /\ at = 0 =>
       /\ pyx_m # 0 => mod_d = pyx_m /\ (tp_dict = {"reduce", "setstate"} \/ hushed)
       /\ \A i \in Interpreters, n \in Names :
            modules[i][n] \in {0, pyx_m, pending[i][n]} \/ alias

\* The static type is changed for good: once an import has failed after
\* __reduce_cython__ was deleted from it, no later import succeeds.
LateFailureIsFinal == at = 0 /\ late /\ ~hushed => pyx_m = 0

\* No interpreter but the first that tried ever gets the module, though all the
\* imports of the first may have failed.
OneInterpreter ==
  \A i \in Interpreters, n \in Names : modules[i][n] # 0 => i = main_interpreter
=============================================================================
