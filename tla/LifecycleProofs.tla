--------------------------- MODULE LifecycleProofs ---------------------------
(***************************************************************************)
(* What is set up and taken down in order: the import of the generated     *)
(* module simple.cpp, for any interpreters and any number of attempts, and *)
(* the two streams of networkframeStream.cpp, for every size of a buffer   *)
(* and in both builds.                                                     *)
(***************************************************************************)
EXTENDS ModuleImport, MCStreams, TLAPS

(* The import of the module *)

LEMMA NumberOf ==
  ASSUME NEW v, NEW x \in 1 .. Len(Steps),
         \A k \in 1 .. Len(Steps) : Steps[k] = v <=> k = x
  PROVE  Count(v) = x
  BY DEF Count

\* Where the steps of exec are that the invariant tells apart.
LEMMA StepNumbers ==
  /\ Len(Steps) = 23
  /\ Count("print") = 21 /\ Count("del reduce_cython") = 17
  /\ \A k \in 1 .. 23 :
       /\ Steps[k] = "__pyx_d" <=> k = 3
       /\ Steps[k] = "sys.modules" <=> k = 8
       /\ Steps[k] = "reduce" <=> k = 15
       /\ Steps[k] = "set reduce" <=> k = 16
       /\ Steps[k] = "del reduce_cython" <=> k = 17
       /\ Steps[k] = "setstate" <=> k = 18
       /\ Steps[k] = "set setstate" <=> k = 19
       /\ Steps[k] = "del setstate_cython" <=> k = 20
       /\ Steps[k] = "print" <=> k = 21
<1>1. Len(Steps) = 23
  BY DEF Steps
<1>2. /\ Steps[1] = "check_binary_version" /\ Steps[2] = "empty objects"
      /\ Steps[3] = "__pyx_d" /\ Steps[4] = "__pyx_b"
      /\ Steps[5] = "cython_runtime" /\ Steps[6] = "__builtins__"
      /\ Steps[7] = "InitGlobals" /\ Steps[8] = "sys.modules"
      /\ Steps[9] = "InitCachedBuiltins" /\ Steps[10] = "InitCachedConstants"
      /\ Steps[11] = "PyType_Ready" /\ Steps[12] = "SetVtable"
      /\ Steps[13] = "a_class" /\ Steps[14] = "reduce_ex"
      /\ Steps[15] = "reduce" /\ Steps[16] = "set reduce"
      /\ Steps[17] = "del reduce_cython" /\ Steps[18] = "setstate"
      /\ Steps[19] = "set setstate" /\ Steps[20] = "del setstate_cython"
      /\ Steps[21] = "print" /\ Steps[22] = "unpickle"
      /\ Steps[23] = "__test__"
  BY DEF Steps
<1> DEFINE S == Steps
<1>3. S[21] = "print" /\ S[17] = "del reduce_cython"
  BY <1>2
<1> HIDE DEF S
<1>4. \A k \in 1 .. 23 :
        \/ k = 1 \/ k = 2 \/ k = 3 \/ k = 4 \/ k = 5 \/ k = 6 \/ k = 7 \/ k = 8 \/ k = 9 \/ k = 10 \/ k = 11 \/ k = 12
        \/ k = 13 \/ k = 14 \/ k = 15 \/ k = 16 \/ k = 17 \/ k = 18 \/ k = 19 \/ k = 20 \/ k = 21 \/ k = 22 \/ k = 23
  OBVIOUS
<1>5. \A k \in 1 .. 23 :
        /\ S[k] = "__pyx_d" <=> k = 3
        /\ S[k] = "sys.modules" <=> k = 8
        /\ S[k] = "reduce" <=> k = 15
        /\ S[k] = "set reduce" <=> k = 16
        /\ S[k] = "del reduce_cython" <=> k = 17
        /\ S[k] = "setstate" <=> k = 18
        /\ S[k] = "set setstate" <=> k = 19
        /\ S[k] = "del setstate_cython" <=> k = 20
        /\ S[k] = "print" <=> k = 21
  <2>1. \A k \in 1 .. 23 : S[k] = "__pyx_d" <=> k = 3
    BY <1>2, <1>4 DEF S
  <2>2. \A k \in 1 .. 23 : S[k] = "sys.modules" <=> k = 8
    BY <1>2, <1>4 DEF S
  <2>3. \A k \in 1 .. 23 : S[k] = "reduce" <=> k = 15
    BY <1>2, <1>4 DEF S
  <2>4. \A k \in 1 .. 23 : S[k] = "set reduce" <=> k = 16
    BY <1>2, <1>4 DEF S
  <2>5. \A k \in 1 .. 23 : S[k] = "del reduce_cython" <=> k = 17
    BY <1>2, <1>4 DEF S
  <2>6. \A k \in 1 .. 23 : S[k] = "setstate" <=> k = 18
    BY <1>2, <1>4 DEF S
  <2>7. \A k \in 1 .. 23 : S[k] = "set setstate" <=> k = 19
    BY <1>2, <1>4 DEF S
  <2>8. \A k \in 1 .. 23 : S[k] = "del setstate_cython" <=> k = 20
    BY <1>2, <1>4 DEF S
  <2>9. \A k \in 1 .. 23 : S[k] = "print" <=> k = 21
    BY <1>2, <1>4 DEF S
  <2> QED
    BY <2>1, <2>2, <2>3, <2>4, <2>5, <2>6, <2>7, <2>8, <2>9
<1>6. Count("print") = 21 /\ Count("del reduce_cython") = 17
  <2>1. 21 \in 1 .. Len(S) /\ 17 \in 1 .. Len(S)
    BY <1>1 DEF S
  <2>2. \A k \in 1 .. Len(S) : S[k] = "print" <=> k = 21
    BY <1>1, <1>5 DEF S
  <2>3. \A k \in 1 .. Len(S) : S[k] = "del reduce_cython" <=> k = 17
    BY <1>1, <1>5 DEF S
  <2>4. Count("print") = 21
    BY <2>1, <2>2, NumberOf DEF S
  <2>5. Count("del reduce_cython") = 17
    BY <2>1, <2>3, NumberOf DEF S
  <2> QED
    BY <2>4, <2>5
<1> QED
  BY <1>1, <1>5, <1>6 DEF S

Entries == {"reduce_cython", "reduce", "setstate_cython", "setstate"}
Slots == Nat \cup {Begun}

\* A table of sys.modules or of what importlib is to exec, what it has for a name
\* in an interpreter, and what it means that one entry is replaced.
Table(f, S) == f \in [Interpreters -> [Names -> S]]
Get(f, i, n) == f[i][n]
EntrySet(f, g, i, n, m) == g = [f EXCEPT ![i][n] = m]
OnlyEntrySet(f, g, i, n, m) ==
  \A k \in Interpreters, o \in Names :
    Get(g, k, o) = IF k = i /\ o = n THEN m ELSE Get(f, k, o)

LEMMA TableSet ==
  ASSUME NEW S, NEW f, NEW g, NEW i \in Interpreters, NEW n \in Names, NEW m \in S,
         Table(f, S), EntrySet(f, g, i, n, m)
  PROVE  Table(g, S) /\ OnlyEntrySet(f, g, i, n, m)
<1>1. f[i] \in [Names -> S]
  BY DEF Table
<1>2. PICK row \in [Names -> S] : row = [f[i] EXCEPT ![n] = m]
  BY <1>1, Zenon
<1>3. g = [f EXCEPT ![i] = row]
  BY <1>2 DEF EntrySet
<1>4. \A o \in Names : row[o] = IF o = n THEN m ELSE f[i][o]
  BY <1>1, <1>2
<1>5. Table(g, S)
  BY <1>3 DEF Table
<1> QED
  BY <1>3, <1>4, <1>5 DEF Table, OnlyEntrySet, Get

LEMMA TableGet ==
  ASSUME NEW S, NEW f, Table(f, S), NEW i \in Interpreters, NEW n \in Names
  PROVE  Get(f, i, n) \in S
  BY DEF Table, Get

ImportTypes ==
  /\ at \in 0 .. 23 /\ mod_made \in Nat /\ module \in Nat /\ pyx_m \in Nat
  /\ who \in Interpreters /\ name \in Names
  /\ Table(modules, Nat)
  /\ Table(pending, Slots)
  /\ tp_dict \subseteq Entries
  /\ late \in BOOLEAN /\ hushed \in BOOLEAN /\ alias \in BOOLEAN

\* __pyx_m is the module exec runs on once its third step is done, and importlib
\* keeps that module as the entry of its name until exec returns.
StaticsInv ==
  /\ at # 0 => /\ module # 0 /\ who = main_interpreter
               /\ Get(pending, who, name) = module /\ Get(modules, who, name) = module
  /\ at \in 1 .. 3 => pyx_m = 0
  /\ at > 3 => pyx_m = module /\ mod_d = module
  /\ at = 0 /\ pyx_m # 0 => mod_d = pyx_m

\* Only the interpreter that asked first gets past create.
HomeInv ==
  \A i \in Interpreters, n \in Names :
       /\ Get(pending, i, n) \notin {0, Begun} => i = main_interpreter
       /\ Get(modules, i, n) # 0 => i = main_interpreter

\* What setup_reduce has done to the type when a step is reached: without a name
\* that could not be read, it is done when exec prints, and a type without
\* __reduce_cython__ is past the step that looks for it, or is stopped there.
TypeInv ==
  ~hushed =>
    /\ at \in {16, 17} => "reduce_cython" \in tp_dict
    /\ at = 17 => "reduce" \in tp_dict
    /\ at >= 18 => "reduce" \in tp_dict /\ "reduce_cython" \notin tp_dict
    /\ at = 20 => "setstate" \in tp_dict
    /\ at >= 21 => tp_dict = {"reduce", "setstate"}
    /\ at = 0 /\ pyx_m # 0 => tp_dict = {"reduce", "setstate"}
    /\ late => "reduce_cython" \notin tp_dict /\ at <= 15 /\ (at = 0 => pyx_m = 0)

\* Which modules the entries of sys.modules are.
EntriesInv ==
  ~alias => \A i \in Interpreters, n \in Names :
    Get(modules, i, n) # 0 =>
      \/ Get(modules, i, n) = pyx_m
      \/ Get(modules, i, n) = Get(pending, i, n)
      \/ at # 0 /\ Get(modules, i, n) = module

ImportInv == ImportTypes /\ StaticsInv /\ HomeInv /\ TypeInv /\ EntriesInv

LEMMA AtNumbers ==
  ASSUME ImportTypes
  PROVE  /\ At("__pyx_d") <=> at = 3
         /\ At("sys.modules") <=> at = 8
         /\ At("reduce") <=> at = 15
         /\ At("set reduce") <=> at = 16
         /\ At("del reduce_cython") <=> at = 17
         /\ At("setstate") <=> at = 18
         /\ At("set setstate") <=> at = 19
         /\ At("del setstate_cython") <=> at = 20
         /\ At("print") <=> at = 21
<1>1. at = 0 \/ at \in 1 .. 23
  BY DEF ImportTypes
<1>2. CASE at = 0
  BY <1>2 DEF At
<1>3. CASE at \in 1 .. 23
  <2>1. PICK k \in 1 .. 23 : k = at
    BY <1>3
  <2>2. /\ Steps[k] = "__pyx_d" <=> k = 3
        /\ Steps[k] = "sys.modules" <=> k = 8
        /\ Steps[k] = "reduce" <=> k = 15
        /\ Steps[k] = "set reduce" <=> k = 16
        /\ Steps[k] = "del reduce_cython" <=> k = 17
        /\ Steps[k] = "setstate" <=> k = 18
        /\ Steps[k] = "set setstate" <=> k = 19
        /\ Steps[k] = "del setstate_cython" <=> k = 20
        /\ Steps[k] = "print" <=> k = 21
    BY StepNumbers
  <2>3. at # 0
    BY <1>3
  <2> QED
    BY <2>1, <2>2, <2>3 DEF At
<1> QED
  BY <1>1, <1>2, <1>3

\* What GoTo and Fail do, with the steps as numbers.
LEMMA GoToNumber ==
  ASSUME NEW k \in 1 .. 24, GoTo(k)
  PROVE  /\ at' = IF k = 24 THEN 0 ELSE k
         /\ IF k = 24 THEN EntrySet(pending, pending', who, name, 0) ELSE pending' = pending
         /\ UNCHANGED <<main_interpreter, module, name, who, mod_made, late, alias>>
<1>1. Len(Steps) = 23
  BY StepNumbers
<1>2. CASE k = 24
  BY <1>1, <1>2 DEF GoTo, EntrySet
<1>3. CASE k # 24
  BY <1>1, <1>3 DEF GoTo
<1> QED
  BY <1>2, <1>3

LEMMA FailInv == ASSUME ImportInv, at # 0, Fail PROVE ImportInv'
<1>1. /\ at' = 0 /\ pyx_m' = 0 /\ EntrySet(modules, modules', who, name, 0)
      /\ EntrySet(pending, pending', who, name, 0)
      /\ late' = (late \/ at > 17) /\ alias' = (alias \/ LeavesEntry)
      /\ UNCHANGED <<main_interpreter, mod_d, tp_dict, module, name, who, mod_made, hushed>>
  <2>1. Count("del reduce_cython") = 17
    BY StepNumbers
  <2> QED
    BY <2>1 DEF Fail, EntrySet
<1>0. who = main_interpreter
  BY DEF ImportInv, StaticsInv
<1>2. /\ Table(modules', Nat)
      /\ \A k \in Interpreters, o \in Names :
           Get(modules', k, o) = IF k = who /\ o = name THEN 0 ELSE Get(modules, k, o)
  <2>1. Table(modules, Nat) /\ 0 \in Nat /\ who \in Interpreters /\ name \in Names
    BY DEF ImportInv, ImportTypes
  <2>2. Table(modules', Nat) /\ OnlyEntrySet(modules, modules', who, name, 0)
    BY <2>1, <1>1, TableSet
  <2> QED
    BY <2>2 DEF OnlyEntrySet
<1>3. /\ Table(pending', Slots)
      /\ \A k \in Interpreters, o \in Names :
           Get(pending', k, o) = IF k = who /\ o = name THEN 0 ELSE Get(pending, k, o)
  <2>1. Table(pending, Slots) /\ 0 \in Slots /\ who \in Interpreters /\ name \in Names
    BY DEF ImportInv, ImportTypes, Slots
  <2>2. Table(pending', Slots) /\ OnlyEntrySet(pending, pending', who, name, 0)
    BY <2>1, <1>1, TableSet
  <2> QED
    BY <2>2 DEF OnlyEntrySet
<1>4. ImportTypes'
  <2>1. late' \in BOOLEAN /\ alias' \in BOOLEAN
    BY <1>1
  <2> QED
    BY <1>1, <1>2, <1>3, <2>1 DEF ImportInv, ImportTypes
<1>5. StaticsInv' /\ HomeInv'
  <2>1. StaticsInv'
    BY <1>1 DEF StaticsInv
  <2>2. HomeInv'
    BY <1>1, <1>2, <1>3 DEF ImportInv, HomeInv
  <2> QED
    BY <2>1, <2>2
<1>6. TypeInv'
  BY <1>1 DEF ImportInv, ImportTypes, TypeInv
<1>7. EntriesInv'
  <2> SUFFICES ASSUME ~alias', NEW i \in Interpreters, NEW n \in Names,
                      Get(modules', i, n) # 0
               PROVE  Get(modules', i, n) = Get(pending', i, n)
    BY DEF EntriesInv
  <2>1. ~alias /\ ~LeavesEntry
    BY <1>1, Zenon
  <2>2. Get(modules, i, n) # 0 /\ ~(i = who /\ n = name) /\ Get(modules', i, n) = Get(modules, i, n)
    BY <1>2
  <2>3. Get(pending', i, n) = Get(pending, i, n)
    BY <1>3, <2>2
  <2>4. i = who /\ n # name
    BY <1>0, <2>2 DEF ImportInv, HomeInv
  <2>5. pyx_m = 0 \/ pyx_m = module
    BY DEF ImportInv, ImportTypes, StaticsInv
  <2>6. Get(modules, i, n) = Get(pending, i, n) \/ Get(modules, i, n) = module
    BY <2>1, <2>2, <2>5 DEF ImportInv, EntriesInv
  <2>7. Get(modules, i, n) = module => Get(pending, i, n) = module
    BY <2>1, <2>4 DEF LeavesEntry, Get
  <2> QED
    BY <2>2, <2>3, <2>6, <2>7
<1> QED
  BY <1>4, <1>5, <1>6, <1>7 DEF ImportInv

\* A step after which only the next one is different.
LEMMA AdvanceInv ==
  ASSUME ImportInv, at # 0, at \notin {3, 8, 15, 16, 17, 18, 19, 20},
         GoTo(at + 1), UNCHANGED <<pyx_m, mod_d, tp_dict, modules, hushed>>
  PROVE  ImportInv'
<1>1. at \in 1 .. 23 /\ at + 1 \in 1 .. 24
  BY DEF ImportInv, ImportTypes
<1>2. /\ at' = IF at = 23 THEN 0 ELSE at + 1
      /\ IF at = 23 THEN EntrySet(pending, pending', who, name, 0) ELSE pending' = pending
      /\ UNCHANGED <<main_interpreter, module, name, who, mod_made, late, alias>>
  <2>1. PICK k \in 1 .. 24 : k = at + 1
    BY <1>1
  <2>2. k = 24 <=> at = 23
    BY <1>1, <2>1
  <2> QED
    BY <2>1, <2>2, GoToNumber
<1>3. /\ Table(pending', Slots)
      /\ \A i \in Interpreters, n \in Names :
           \/ Get(pending', i, n) = Get(pending, i, n)
           \/ at = 23 /\ i = who /\ n = name /\ Get(pending', i, n) = 0
  <2>1. CASE at = 23
    <3>1. Table(pending, Slots) /\ 0 \in Slots /\ who \in Interpreters /\ name \in Names
      BY DEF ImportInv, ImportTypes, Slots
    <3>2. Table(pending', Slots) /\ OnlyEntrySet(pending, pending', who, name, 0)
      BY <1>2, <2>1, <3>1, TableSet
    <3> QED
      BY <2>1, <3>2 DEF OnlyEntrySet
  <2>2. CASE at # 23
    BY <1>2, <2>2 DEF ImportInv, ImportTypes
  <2> QED
    BY <2>1, <2>2
<1>4. ImportTypes'
  BY <1>1, <1>2, <1>3 DEF ImportInv, ImportTypes
<1>5. StaticsInv' /\ HomeInv'
  <2>1. at' # 0 => pending' = pending
    BY <1>1, <1>2
  <2>2. StaticsInv'
    BY <1>1, <1>2, <2>1 DEF ImportInv, StaticsInv
  <2>3. HomeInv'
    BY <1>2, <1>3 DEF ImportInv, HomeInv
  <2> QED
    BY <2>2, <2>3
<1>6. TypeInv'
  BY <1>1, <1>2 DEF ImportInv, TypeInv
<1>7. EntriesInv'
  <2>1. at = 23 => pyx_m = module /\ Get(modules, who, name) = module
    BY DEF ImportInv, StaticsInv
  <2> QED
    BY <1>1, <1>2, <1>3, <2>1 DEF ImportInv, EntriesInv
<1> QED
  BY <1>4, <1>5, <1>6, <1>7 DEF ImportInv

LEMMA PlainInv == ASSUME ImportInv, Plain PROVE ImportInv'
<1>1. at # 0 /\ at \in 1 .. 23
  <2>1. at # 0
    BY DEF Plain
  <2> QED
    BY <2>1 DEF ImportInv, ImportTypes
<1>2. at \notin {3, 8, 15, 16, 17, 18, 19, 20}
  <2>1. Steps[at] \notin {"__pyx_d", "sys.modules", "reduce", "set reduce",
          "del reduce_cython", "setstate", "set setstate", "del setstate_cython"}
    BY DEF Plain
  <2>2. /\ Steps[at] = "__pyx_d" <=> at = 3
        /\ Steps[at] = "sys.modules" <=> at = 8
        /\ Steps[at] = "reduce" <=> at = 15
        /\ Steps[at] = "set reduce" <=> at = 16
        /\ Steps[at] = "del reduce_cython" <=> at = 17
        /\ Steps[at] = "setstate" <=> at = 18
        /\ Steps[at] = "set setstate" <=> at = 19
        /\ Steps[at] = "del setstate_cython" <=> at = 20
    BY <1>1, StepNumbers
  <2> QED
    BY <2>1, <2>2
<1> QED
  BY <1>1, <1>2, FailInv, AdvanceInv DEF Plain

LEMMA SetModuleInv == ASSUME ImportInv, SetModule PROVE ImportInv'
<1>1. at = 3
  BY AtNumbers DEF SetModule, ImportInv
<1>2. /\ at' = 4 /\ pyx_m' = module /\ mod_d' = module /\ UNCHANGED <<tp_dict, modules, hushed>>
      /\ UNCHANGED <<main_interpreter, module, name, who, pending, mod_made, late, alias>>
  BY <1>1, GoToNumber DEF SetModule
<1>3. ImportTypes'
  BY <1>2 DEF ImportInv, ImportTypes
<1>4. StaticsInv' /\ HomeInv'
  <2>1. StaticsInv'
    BY <1>1, <1>2 DEF ImportInv, StaticsInv
  <2>2. HomeInv'
    BY <1>2 DEF ImportInv, HomeInv
  <2> QED
    BY <2>1, <2>2
<1>5. TypeInv'
  BY <1>1, <1>2 DEF ImportInv, TypeInv
<1>6. EntriesInv'
  <2>1. pyx_m = 0
    BY <1>1 DEF ImportInv, StaticsInv
  <2> QED
    BY <1>1, <1>2, <2>1 DEF ImportInv, EntriesInv
<1> QED
  BY <1>3, <1>4, <1>5, <1>6 DEF ImportInv

LEMMA RegisterInv == ASSUME ImportInv, Register PROVE ImportInv'
<1>1. at = 8
  BY AtNumbers DEF Register, ImportInv
<1>2. CASE Fail
  BY <1>1, <1>2, FailInv
<1>3. CASE /\ GoTo(at + 1) /\ UNCHANGED <<pyx_m, mod_d, tp_dict, hushed>>
           /\ EntrySet(modules, modules', who, "simple", module) \/ modules' = modules
  <2>1. /\ at' = 9
        /\ UNCHANGED <<main_interpreter, module, name, who, pending, mod_made, late, alias>>
    BY <1>1, <1>3, GoToNumber
  <2>2. who \in Interpreters /\ "simple" \in Names /\ module \in Nat
    BY DEF ImportInv, ImportTypes, Names
  <2>3. /\ Table(modules', Nat)
        /\ \A k \in Interpreters, o \in Names :
             \/ Get(modules', k, o) = Get(modules, k, o)
             \/ Get(modules', k, o) = module /\ k = who /\ o = "simple"
    <3>1. CASE EntrySet(modules, modules', who, "simple", module)
      <4>1. Table(modules, Nat)
        BY DEF ImportInv, ImportTypes
      <4>2. Table(modules', Nat) /\ OnlyEntrySet(modules, modules', who, "simple", module)
        BY <2>2, <3>1, <4>1, TableSet
      <4> QED
        BY <4>2 DEF OnlyEntrySet
    <3>2. CASE modules' = modules
      BY <3>2 DEF ImportInv, ImportTypes
    <3> QED
      BY <1>3, <3>1, <3>2
  <2>4. ImportTypes'
    BY <1>3, <2>1, <2>3 DEF ImportInv, ImportTypes
  <2>5. StaticsInv' /\ HomeInv'
    <3>1. who = main_interpreter /\ Get(modules', who, name) = module
      BY <1>1, <2>3 DEF ImportInv, ImportTypes, StaticsInv
    <3>2. StaticsInv'
      BY <1>1, <1>3, <2>1, <3>1 DEF ImportInv, StaticsInv
    <3>3. HomeInv'
      BY <2>1, <2>3, <3>1 DEF ImportInv, HomeInv
    <3> QED
      BY <3>2, <3>3
  <2>6. TypeInv'
    BY <1>1, <1>3, <2>1 DEF ImportInv, TypeInv
  <2>7. EntriesInv'
    BY <1>1, <1>3, <2>1, <2>3 DEF ImportInv, EntriesInv
  <2> QED
    BY <2>4, <2>5, <2>6, <2>7 DEF ImportInv
<1> QED
  BY <1>2, <1>3 DEF Register, EntrySet

\* The steps of setup_reduce leave everything but the type alone.
LEMMA SetupReduceInv ==
  ASSUME ImportInv, at \in 15 .. 20, NEW k \in 16 .. 21, GoTo(k),
         UNCHANGED <<pyx_m, mod_d, modules>>,
         tp_dict' \subseteq Entries, hushed' \in BOOLEAN
  PROVE  /\ at' = k /\ UNCHANGED <<late, alias>>
         /\ ImportTypes' /\ StaticsInv' /\ HomeInv' /\ EntriesInv'
<1>1. /\ at' = k
      /\ UNCHANGED <<main_interpreter, module, name, who, pending, mod_made, late, alias>>
  BY GoToNumber
<1>2. ImportTypes'
  BY <1>1 DEF ImportInv, ImportTypes
<1>3. StaticsInv' /\ HomeInv'
  <2>1. StaticsInv'
    BY <1>1 DEF ImportInv, StaticsInv
  <2>2. HomeInv'
    BY <1>1 DEF ImportInv, HomeInv
  <2> QED
    BY <2>1, <2>2
<1>4. EntriesInv'
  BY <1>1 DEF ImportInv, EntriesInv
<1> QED
  BY <1>1, <1>2, <1>3, <1>4

LEMMA FindInv == ASSUME ImportInv, FindReduce \/ FindSetstate PROVE ImportInv'
<1>1. \/ at = 15 /\ FindReduce
      \/ at = 18 /\ FindSetstate
  BY AtNumbers DEF FindReduce, FindSetstate, ImportInv
<1>2. Count("print") = 21
  BY StepNumbers
<1>3. CASE Fail
  BY <1>1, <1>3, FailInv
<1>4. CASE /\ (at = 15 => "reduce_cython" \in tp_dict) /\ GoTo(at + 1)
           /\ UNCHANGED <<pyx_m, mod_d, tp_dict, modules, hushed>>
  <2>1. /\ at' = at + 1 /\ UNCHANGED <<late, alias>>
        /\ ImportTypes' /\ StaticsInv' /\ HomeInv' /\ EntriesInv'
    BY <1>1, <1>4, SetupReduceInv DEF ImportInv, ImportTypes
  <2>2. TypeInv'
    BY <1>1, <1>4, <2>1 DEF ImportInv, TypeInv
  <2> QED
    BY <2>1, <2>2 DEF ImportInv
<1>5. CASE /\ GoTo(21) /\ hushed' = TRUE
           /\ UNCHANGED <<pyx_m, mod_d, tp_dict, modules>>
  <2>1. ImportTypes' /\ StaticsInv' /\ HomeInv' /\ EntriesInv'
    BY <1>1, <1>5, SetupReduceInv DEF ImportInv, ImportTypes
  <2>2. TypeInv'
    BY <1>5 DEF TypeInv
  <2> QED
    BY <2>1, <2>2 DEF ImportInv
<1>6. CASE at = 15 /\ FindReduce
  BY <1>2, <1>3, <1>4, <1>5, <1>6, Zenon DEF FindReduce
<1>7. CASE at = 18 /\ FindSetstate
  <2>1. at = 15 => "reduce_cython" \in tp_dict
    BY <1>7
  <2> QED
    BY <1>2, <1>3, <1>4, <1>5, <1>7, <2>1, Zenon DEF FindSetstate
<1> QED
  BY <1>1, <1>6, <1>7

LEMMA MoveEntryInv == ASSUME ImportInv, MoveEntry PROVE ImportInv'
<1>1. CASE at # 0 /\ Fail
  BY <1>1, FailInv
<1>2. CASE /\ \/ at = 16 /\ tp_dict' = tp_dict \cup {"reduce"}
              \/ at = 17 /\ tp_dict' = tp_dict \ {"reduce_cython"}
              \/ at = 19 /\ tp_dict' = tp_dict \cup {"setstate"}
              \/ at = 20 /\ tp_dict' = tp_dict \ {"setstate_cython"}
           /\ GoTo(at + 1) /\ UNCHANGED <<pyx_m, mod_d, modules, hushed>>
  <2>1. tp_dict \subseteq Entries /\ tp_dict' \subseteq Entries
    BY <1>2, Zenon DEF ImportInv, ImportTypes, Entries
  <2>2. /\ at' = at + 1 /\ UNCHANGED <<late, alias>>
        /\ ImportTypes' /\ StaticsInv' /\ HomeInv' /\ EntriesInv'
    BY <1>2, <2>1, SetupReduceInv DEF ImportInv, ImportTypes
  <2>3. at' = 21 /\ ~hushed => tp_dict' = {"reduce", "setstate"}
    <3> SUFFICES ASSUME at = 20, ~hushed PROVE tp_dict' = {"reduce", "setstate"}
      BY <1>2, <2>2
    <3>1. /\ "reduce" \in tp_dict /\ "setstate" \in tp_dict
          /\ "reduce_cython" \notin tp_dict
      BY DEF ImportInv, TypeInv
    <3>2. tp_dict' = tp_dict \ {"setstate_cython"}
      BY <1>2
    <3>3. \A x : x \in tp_dict' <=> x \in {"reduce", "setstate"}
      BY <2>1, <3>1, <3>2, Zenon DEF Entries
    <3> QED
      BY <3>3
  <2>4. TypeInv'
    BY <1>2, <2>2, <2>3 DEF ImportInv, TypeInv
  <2> QED
    BY <2>2, <2>4 DEF ImportInv
<1>3. ImportTypes
  BY DEF ImportInv
<1> QED
  BY <1>1, <1>2, <1>3, AtNumbers DEF MoveEntry

\* The steps of importlib that only change the table of sys.modules or its own.
LEMMA ForgetInv ==
  ASSUME ImportInv, NEW i \in Interpreters, NEW n \in Names, Forget(i, n)
  PROVE  ImportInv'
<1>1. /\ EntrySet(modules, modules', i, n, 0) /\ at = 0
      /\ UNCHANGED <<main_interpreter, pyx_m, mod_d, tp_dict, at, module, name, who,
                     pending, mod_made, late, hushed, alias>>
  BY DEF Forget, EntrySet
<1>2. /\ Table(modules', Nat)
      /\ \A k \in Interpreters, o \in Names :
           Get(modules', k, o) = IF k = i /\ o = n THEN 0 ELSE Get(modules, k, o)
  <2>1. Table(modules, Nat) /\ 0 \in Nat /\ i \in Interpreters /\ n \in Names
    BY DEF ImportInv, ImportTypes
  <2>2. Table(modules', Nat) /\ OnlyEntrySet(modules, modules', i, n, 0)
    BY <2>1, <1>1, TableSet
  <2> QED
    BY <2>2 DEF OnlyEntrySet
<1>3. ImportTypes'
  BY <1>1, <1>2 DEF ImportInv, ImportTypes
<1>4. StaticsInv' /\ HomeInv'
  <2>1. StaticsInv'
    BY <1>1 DEF ImportInv, StaticsInv
  <2>2. HomeInv'
    BY <1>1, <1>2 DEF ImportInv, HomeInv
  <2> QED
    BY <2>1, <2>2
<1>5. EntriesInv'
  BY <1>1, <1>2 DEF ImportInv, EntriesInv
<1>6. TypeInv'
  BY <1>1 DEF ImportInv, TypeInv
<1> QED
  BY <1>3, <1>4, <1>5, <1>6 DEF ImportInv

LEMMA FindNameInv ==
  ASSUME ImportInv, NEW i \in Interpreters, NEW n \in Names, Find(i, n)
  PROVE  ImportInv'
<1>1. /\ Get(pending, i, n) = 0 /\ Get(modules, i, n) = 0
      /\ EntrySet(pending, pending', i, n, Begun)
      /\ UNCHANGED <<main_interpreter, pyx_m, mod_d, tp_dict, modules, at, module, name,
                     who, mod_made, late, hushed, alias>>
  BY DEF Find, EntrySet, Get
<1>2. /\ Table(pending', Slots)
      /\ \A k \in Interpreters, o \in Names :
           Get(pending', k, o) = IF k = i /\ o = n THEN Begun ELSE Get(pending, k, o)
  <2>1. Table(pending, Slots) /\ Begun \in Slots /\ i \in Interpreters /\ n \in Names
    BY DEF ImportInv, ImportTypes, Slots
  <2>2. Table(pending', Slots) /\ OnlyEntrySet(pending, pending', i, n, Begun)
    BY <2>1, <1>1, TableSet
  <2> QED
    BY <2>2 DEF OnlyEntrySet
<1>3. ImportTypes'
  BY <1>1, <1>2 DEF ImportInv, ImportTypes
<1>4. StaticsInv' /\ HomeInv'
  <2>1. at # 0 => Get(pending', who, name) = Get(pending, who, name)
    BY <1>1, <1>2 DEF ImportInv, ImportTypes, StaticsInv
  <2>2. StaticsInv'
    BY <1>1, <2>1 DEF ImportInv, StaticsInv
  <2>3. HomeInv'
    BY <1>1, <1>2 DEF ImportInv, HomeInv
  <2> QED
    BY <2>2, <2>3
<1>5. EntriesInv'
  BY <1>1, <1>2 DEF ImportInv, EntriesInv
<1>6. TypeInv'
  BY <1>1 DEF ImportInv, TypeInv
<1> QED
  BY <1>3, <1>4, <1>5, <1>6 DEF ImportInv

LEMMA CreateInv ==
  ASSUME ImportInv, NEW i \in Interpreters, NEW n \in Names, Create(i, n)
  PROVE  ImportInv'
<1>1. /\ Get(pending, i, n) = Begun
      /\ main_interpreter' = IF main_interpreter = 0 THEN i ELSE main_interpreter
      /\ UNCHANGED <<pyx_m, mod_d, tp_dict, modules, at, module, name, who, late, hushed,
                     alias>>
  BY DEF Create, check_single_interpreter, Get
<1>2. mod_made' \in Nat
  BY DEF Create, ImportInv, ImportTypes
<1> DEFINE made(m) == EntrySet(pending, pending', i, n, m) /\ (m # 0 => main_interpreter' = i)
<1>m. PICK m \in Nat : made(m)
  <2>1. pyx_m \in Nat /\ mod_made + 1 \in Nat /\ 0 \in Nat
    BY DEF ImportInv, ImportTypes
  <2>2. made(0) \/ made(pyx_m) \/ made(mod_made + 1)
    BY DEF Create, EntrySet
  <2> HIDE DEF made
  <2> QED
    BY <2>1, <2>2
<1>3. /\ Table(pending', Slots)
      /\ \A k \in Interpreters, o \in Names :
           Get(pending', k, o) = IF k = i /\ o = n THEN m ELSE Get(pending, k, o)
  <2>1. Table(pending, Slots) /\ m \in Slots /\ i \in Interpreters /\ n \in Names
    BY DEF ImportInv, ImportTypes, Slots
  <2>2. Table(pending', Slots) /\ OnlyEntrySet(pending, pending', i, n, m)
    BY <2>1, <1>m, TableSet
  <2> QED
    BY <2>2 DEF OnlyEntrySet
<1>4. ImportTypes'
  BY <1>1, <1>2, <1>3 DEF ImportInv, ImportTypes
<1>5. \A k \in Interpreters : k = main_interpreter => main_interpreter' = k
  BY <1>1, ImportAssumption
<1>6. StaticsInv' /\ HomeInv'
  <2>1. at # 0 => /\ main_interpreter' = main_interpreter
                  /\ Get(pending', who, name) = Get(pending, who, name)
    <3> SUFFICES ASSUME at # 0
                 PROVE  /\ main_interpreter' = main_interpreter
                        /\ Get(pending', who, name) = Get(pending, who, name)
      OBVIOUS
    <3>1. /\ who = main_interpreter /\ Get(pending, who, name) = module /\ module \in Nat
          /\ who \in Interpreters /\ name \in Names
      BY DEF ImportInv, ImportTypes, StaticsInv
    <3>2. ~(who = i /\ name = n)
      BY <1>1, <3>1 DEF Begun
    <3> QED
      BY <1>3, <1>5, <3>1, <3>2
  <2>2. \A k \in Interpreters, o \in Names :
          Get(pending', k, o) \notin {0, Begun} => k = main_interpreter'
    BY <1>m, <1>3, <1>5 DEF ImportInv, HomeInv
  <2>3. \A k \in Interpreters, o \in Names :
          Get(modules', k, o) # 0 => k = main_interpreter'
    BY <1>1, <1>5 DEF ImportInv, HomeInv
  <2>4. StaticsInv'
    BY <1>1, <2>1 DEF ImportInv, StaticsInv
  <2> QED
    BY <2>2, <2>3, <2>4 DEF HomeInv
<1>7. EntriesInv'
  <2>1. \A k \in Interpreters, o \in Names : Get(modules, k, o) # Begun
    BY TableGet DEF ImportInv, ImportTypes, Begun
  <2> QED
    BY <1>1, <1>3, <2>1 DEF ImportInv, EntriesInv
<1>8. TypeInv'
  BY <1>1 DEF ImportInv, TypeInv
<1> QED
  BY <1>4, <1>6, <1>7, <1>8 DEF ImportInv

LEMMA EnterInv ==
  ASSUME ImportInv, NEW i \in Interpreters, NEW n \in Names, Enter(i, n)
  PROVE  ImportInv'
<1>1. /\ Get(pending, i, n) \notin {0, Begun, Get(modules, i, n)}
      /\ EntrySet(modules, modules', i, n, Get(pending, i, n))
      /\ UNCHANGED <<main_interpreter, pyx_m, mod_d, tp_dict, at, module, name, who,
                     pending, mod_made, late, hushed, alias>>
  BY DEF Enter, EntrySet, Get
<1>2. PICK m \in Nat : m = Get(pending, i, n)
  BY <1>1, TableGet DEF ImportInv, ImportTypes, Slots
<1>3. /\ Table(modules', Nat)
      /\ \A k \in Interpreters, o \in Names :
           Get(modules', k, o) = IF k = i /\ o = n THEN m ELSE Get(modules, k, o)
  <2>1. Table(modules, Nat) /\ m \in Nat /\ i \in Interpreters /\ n \in Names
    BY DEF ImportInv, ImportTypes
  <2>2. Table(modules', Nat) /\ OnlyEntrySet(modules, modules', i, n, m)
    BY <2>1, <1>1, <1>2, TableSet
  <2> QED
    BY <2>2 DEF OnlyEntrySet
<1>4. ImportTypes'
  BY <1>1, <1>3 DEF ImportInv, ImportTypes
<1>5. StaticsInv' /\ HomeInv'
  <2>1. i = main_interpreter
    BY <1>1 DEF ImportInv, HomeInv
  <2>2. at # 0 => Get(modules', who, name) = Get(modules, who, name)
    BY <1>1, <1>3 DEF ImportInv, ImportTypes, StaticsInv
  <2>3. StaticsInv'
    BY <1>1, <2>2 DEF ImportInv, StaticsInv
  <2>4. HomeInv'
    BY <1>1, <1>3, <2>1 DEF ImportInv, HomeInv
  <2> QED
    BY <2>3, <2>4
<1>6. EntriesInv'
  BY <1>1, <1>2, <1>3 DEF ImportInv, EntriesInv
<1>7. TypeInv'
  BY <1>1 DEF ImportInv, TypeInv
<1> QED
  BY <1>4, <1>5, <1>6, <1>7 DEF ImportInv

\* Another import calls exec between imports, or while exec prints: then __pyx_m
\* is set, so that it does not begin.
LEMMA ExecInv ==
  ASSUME ImportInv, NEW i \in Interpreters, NEW n \in Names, Exec(i, n)
  PROVE  ImportInv'
<1>1. /\ at = 0 \/ at = 21
      /\ Get(pending, i, n) # 0 /\ Get(pending, i, n) = Get(modules, i, n)
      /\ at # 0 => ~(i = who /\ n = name)
      /\ UNCHANGED <<main_interpreter, pyx_m, mod_d, tp_dict, mod_made, late, hushed, alias>>
  <2>1. At("print") <=> at = 21
    BY AtNumbers DEF ImportInv
  <2> QED
    BY <2>1 DEF Exec, PythonRuns, Get
<1>2. PICK m \in Nat : m = Get(pending, i, n) /\ m = Get(modules, i, n) /\ m # 0
  BY <1>1, TableGet DEF ImportInv, ImportTypes
<1>3. i = main_interpreter
  BY <1>2 DEF ImportInv, HomeInv
<1>4. at # 0 => pyx_m = module /\ module # 0
  BY <1>1 DEF ImportInv, StaticsInv
<1>5. CASE /\ pyx_m = m /\ EntrySet(pending, pending', i, n, 0)
           /\ UNCHANGED <<modules, at, module, name, who>>
  <2>1. /\ Table(pending', Slots)
        /\ \A k \in Interpreters, o \in Names :
             Get(pending', k, o) = IF k = i /\ o = n THEN 0 ELSE Get(pending, k, o)
    <3>1. Table(pending, Slots) /\ 0 \in Slots /\ i \in Interpreters /\ n \in Names
      BY DEF ImportInv, ImportTypes, Slots
    <3>2. Table(pending', Slots) /\ OnlyEntrySet(pending, pending', i, n, 0)
      BY <3>1, <1>5, TableSet
    <3> QED
      BY <3>2 DEF OnlyEntrySet
  <2>2. ImportTypes'
    BY <1>1, <1>5, <2>1 DEF ImportInv, ImportTypes
  <2>3. StaticsInv' /\ HomeInv'
    <3>1. at # 0 => Get(pending', who, name) = Get(pending, who, name)
      BY <1>1, <2>1 DEF ImportInv, ImportTypes
    <3>2. StaticsInv'
      BY <1>1, <1>5, <3>1 DEF ImportInv, StaticsInv
    <3>3. HomeInv'
      BY <1>1, <1>5, <2>1 DEF ImportInv, HomeInv
    <3> QED
      BY <3>2, <3>3
  <2>4. EntriesInv'
    BY <1>1, <1>2, <1>5, <2>1 DEF ImportInv, EntriesInv
  <2>5. TypeInv'
    BY <1>1, <1>5 DEF ImportInv, TypeInv
  <2> QED
    BY <2>2, <2>3, <2>4, <2>5 DEF ImportInv
<1>6. CASE /\ EntrySet(modules, modules', i, n, 0)
           /\ EntrySet(pending, pending', i, n, 0)
           /\ UNCHANGED <<at, module, name, who>>
  <2>2. /\ Table(pending', Slots)
        /\ \A k \in Interpreters, o \in Names :
             Get(pending', k, o) = IF k = i /\ o = n THEN 0 ELSE Get(pending, k, o)
    <3>1. Table(pending, Slots) /\ 0 \in Slots /\ i \in Interpreters /\ n \in Names
      BY DEF ImportInv, ImportTypes, Slots
    <3>2. Table(pending', Slots) /\ OnlyEntrySet(pending, pending', i, n, 0)
      BY <3>1, <1>6, TableSet
    <3> QED
      BY <3>2 DEF OnlyEntrySet
  <2>3. /\ Table(modules', Nat)
        /\ \A k \in Interpreters, o \in Names :
             Get(modules', k, o) = IF k = i /\ o = n THEN 0 ELSE Get(modules, k, o)
    <3>1. Table(modules, Nat) /\ 0 \in Nat /\ i \in Interpreters /\ n \in Names
      BY DEF ImportInv, ImportTypes
    <3>2. Table(modules', Nat) /\ OnlyEntrySet(modules, modules', i, n, 0)
      BY <3>1, <1>6, TableSet
    <3> QED
      BY <3>2 DEF OnlyEntrySet
  <2>4. ImportTypes'
    BY <1>1, <1>6, <2>2, <2>3 DEF ImportInv, ImportTypes
  <2>5. StaticsInv' /\ HomeInv'
    <3>1. at # 0 => /\ Get(pending', who, name) = Get(pending, who, name)
                    /\ Get(modules', who, name) = Get(modules, who, name)
      BY <1>1, <2>2, <2>3 DEF ImportInv, ImportTypes
    <3>2. StaticsInv'
      BY <1>1, <1>6, <3>1 DEF ImportInv, StaticsInv
    <3>3. HomeInv'
      <4>1. \A k \in Interpreters, o \in Names :
              Get(modules', k, o) # 0 => k = main_interpreter'
        BY <1>1, <2>3 DEF ImportInv, HomeInv
      <4>2. \A k \in Interpreters, o \in Names :
              Get(pending', k, o) \notin {0, Begun} => k = main_interpreter'
        BY <1>1, <2>2 DEF ImportInv, HomeInv
      <4> QED
        BY <4>1, <4>2 DEF HomeInv
    <3> QED
      BY <3>2, <3>3
  <2>6. EntriesInv'
    BY <1>1, <1>6, <2>2, <2>3 DEF ImportInv, EntriesInv
  <2>7. TypeInv'
    BY <1>1, <1>6 DEF ImportInv, TypeInv
  <2> QED
    BY <2>4, <2>5, <2>6, <2>7 DEF ImportInv
<1>7. CASE /\ pyx_m = 0 /\ at' = 1 /\ module' = m /\ name' = n /\ who' = i
           /\ UNCHANGED <<modules, pending>>
  <2>1. at = 0
    BY <1>1, <1>4, <1>7
  <2>2. ImportTypes'
    BY <1>1, <1>7 DEF ImportInv, ImportTypes
  <2>3. StaticsInv' /\ HomeInv'
    <3>1. StaticsInv'
      BY <1>1, <1>2, <1>3, <1>7 DEF StaticsInv
    <3>2. HomeInv'
      BY <1>1, <1>7 DEF ImportInv, HomeInv
    <3> QED
      BY <3>1, <3>2
  <2>4. EntriesInv'
    BY <1>1, <1>7, <2>1 DEF ImportInv, EntriesInv
  <2>5. TypeInv'
    BY <1>1, <1>7, <2>1 DEF ImportInv, TypeInv
  <2> QED
    BY <2>2, <2>3, <2>4, <2>5 DEF ImportInv
<1> QED
  BY <1>2, <1>5, <1>6, <1>7 DEF Exec, EntrySet, Get

LEMMA ImportInitInv == ImportInit => ImportInv
<1> SUFFICES ASSUME ImportInit PROVE ImportInv
  OBVIOUS
<1>1. /\ at = 0 /\ pyx_m = 0
      /\ \A i \in Interpreters, n \in Names : Get(modules, i, n) = 0 /\ Get(pending, i, n) = 0
  BY DEF ImportInit, Get
<1>2. ImportTypes
  <2>1. /\ Table(modules, Nat)
        /\ Table(pending, Slots)
    BY DEF ImportInit, Slots, Table
  <2>2. late \in BOOLEAN /\ hushed \in BOOLEAN /\ alias \in BOOLEAN
    BY Zenon DEF ImportInit
  <2>3. name \in Names /\ tp_dict \subseteq Entries
    BY DEF ImportInit, Names, Entries
  <2>4. /\ at \in 0 .. 23 /\ mod_made \in Nat /\ module \in Nat /\ pyx_m \in Nat
        /\ who \in Interpreters
    BY DEF ImportInit
  <2> QED
    BY <2>1, <2>2, <2>3, <2>4 DEF ImportTypes
<1>3. StaticsInv /\ HomeInv /\ EntriesInv
  BY <1>1 DEF StaticsInv, HomeInv, EntriesInv
<1>4. TypeInv
  BY <1>1 DEF ImportInit, TypeInv
<1> QED
  BY <1>2, <1>3, <1>4 DEF ImportInv

LEMMA ImportStepInv == ASSUME ImportInv, ImportNext PROVE ImportInv'
  BY PlainInv, SetModuleInv, RegisterInv, FindInv, MoveEntryInv, FindNameInv, CreateInv,
     EnterInv, ExecInv, ForgetInv
  DEF ImportNext

LEMMA ImportInvariance == ImportSpec => []ImportInv
<1>1. ImportInv /\ [ImportNext]_importVars => ImportInv'
  <2> SUFFICES ASSUME ImportInv, UNCHANGED importVars PROVE ImportInv'
    BY ImportStepInv
  <2>1. ImportTypes' /\ TypeInv'
    BY DEF importVars, ImportInv, ImportTypes, TypeInv
  <2>2. StaticsInv' /\ HomeInv' /\ EntriesInv'
    BY DEF importVars, ImportInv, StaticsInv, HomeInv, EntriesInv
  <2> QED
    BY <2>1, <2>2 DEF ImportInv
<1> QED
  BY <1>1, ImportInitInv, PTL DEF ImportSpec

\* For any interpreters and any number of imports, failed, retried or interleaved
\* at every step of importlib: while no exec runs __pyx_m is NULL or a module that
\* exec completed, the entries of sys.modules are that module or ones that are yet
\* to be given to exec, and while exec prints __pyx_m keeps another from beginning.
THEOREM ImportTheorem == ImportSpec => []ImportedIsComplete
<1>1. ImportInv => ImportedIsComplete
  <2> SUFFICES ASSUME ImportInv PROVE ImportedIsComplete
    OBVIOUS
  <2>1. At("print") => pyx_m = module
    <3>1. At("print") <=> at = 21
      BY AtNumbers DEF ImportInv
    <3> QED
      BY <3>1 DEF ImportInv, StaticsInv
  <2>2. at = 0 /\ pyx_m # 0 => mod_d = pyx_m /\ (tp_dict = {"reduce", "setstate"} \/ hushed)
    BY DEF ImportInv, StaticsInv, TypeInv
  <2>3. at = 0 => \A i \in Interpreters, n \in Names :
                    modules[i][n] \in {0, pyx_m, pending[i][n]} \/ alias
    BY DEF ImportInv, EntriesInv, Get
  <2> QED
    BY <2>1, <2>2, <2>3 DEF ImportedIsComplete
<1> QED
  BY <1>1, ImportInvariance, PTL

\* __Pyx_setup_reduce is not undone when a later step of exec fails: from then on
\* no import of the module succeeds, unless it cannot read a method's name.
THEOREM LateFailureTheorem == ImportSpec => []LateFailureIsFinal
<1>1. ImportInv => LateFailureIsFinal
  BY DEF ImportInv, TypeInv, LateFailureIsFinal
<1> QED
  BY <1>1, ImportInvariance, PTL

\* check_single_interpreter: whichever interpreter asked first, no other ever has
\* the module in its sys.modules.
THEOREM OneInterpreterTheorem == ImportSpec => []OneInterpreter
<1>1. ImportInv => OneInterpreter
  BY DEF ImportInv, HomeInv, OneInterpreter, Get
<1> QED
  BY <1>1, ImportInvariance, PTL

-----------------------------------------------------------------------------
(* The two streams *)

\* What each join of ~NetworkVideoStreamObservable has waited for, and that the
\* threads and the record of a connection come from a constructor that connected.
VideoInv ==
  /\ owner \in {"construct", "live", "clearing", "joinWrite", "destroyed", "aborted"}
  /\ reader = "none" <=> writer = "none"
  /\ reader = "none" => is_connected = FALSE /\ is_disconnected = FALSE
  /\ owner \in {"construct", "aborted"} => reader = "none"
  /\ owner \in {"joinWrite", "destroyed"} => reader = "done"
  /\ owner = "destroyed" => writer = "done"

LEMMA VideoInitInv == Init => VideoInv
  BY DEF Init, VideoInv

LEMMA VideoOwnerInv ==
  ASSUME VideoInv, owner # "aborted", Constructor \/ Write \/ stop \/ Destructor
  PROVE  VideoInv'
<1> USE DEF VideoInv, threads, flags, connection
<1>1. CASE Constructor
  BY <1>1 DEF Constructor, ConstructFails, Construct
<1>2. CASE Write \/ stop
  BY <1>2 DEF Write, stop
<1>3. CASE Clear
  BY <1>3 DEF Clear
<1>4. CASE JoinRead
  BY <1>4 DEF JoinRead
<1>5. CASE JoinWrite
  BY <1>5 DEF JoinWrite
<1> QED
  BY <1>1, <1>2, <1>3, <1>4, <1>5, Zenon DEF Destructor

\* A thread that runs is not done, so the owner is not past its join.
LEMMA VideoThreadsInv ==
  ASSUME VideoInv, Reader \/ Writer
  PROVE  VideoInv'
<1> USE DEF VideoInv, threads, flags, connection
<1>1. CASE ReadTest
  BY <1>1 DEF ReadTest, Gate
<1>2. CASE Read
  BY <1>2 DEF Read
<1>3. CASE ReadError
  BY <1>3 DEF ReadError
<1>4. CASE WriteTest
  BY <1>4 DEF WriteTest, Gate
<1>5. CASE Send
  BY <1>5 DEF Send
<1>6. CASE SendError
  BY <1>6 DEF SendError
<1> QED
  BY <1>1, <1>2, <1>3, <1>4, <1>5, <1>6, Zenon DEF Reader, Writer

LEMMA VideoStepInv == VideoInv /\ [Next]_vars => VideoInv'
<1> SUFFICES ASSUME VideoInv, [Next]_vars PROVE VideoInv'
  OBVIOUS
<1>1. CASE PeerSends \/ PeerCloses
  BY <1>1 DEF PeerSends, PeerCloses, VideoInv, threads, flags, connection
<1>2. CASE UNCHANGED vars
  BY <1>2 DEF vars, VideoInv, threads, flags, connection
<1> QED
  BY <1>1, <1>2, VideoOwnerInv, VideoThreadsInv DEF Next, Spin, Over

-----------------------------------------------------------------------------
\* The same for the stream that owns a reader and a writer; a socket is open only
\* if its end connected, and is closed by the destructor of that end.
FFmpegInv ==
  /\ loop \in [FFmpeg!Threads -> {"none", "test", "body", "done"}]
  /\ connected \in [FFmpeg!Ends -> BOOLEAN] /\ open \in [FFmpeg!Ends -> BOOLEAN]
  /\ \A e \in FFmpeg!Ends : open[e] => connected[e]
  /\ ffOwner \in {"joinWrite", "destroyWriter", "destroyReader", "over"} =>
       loop["read"] = "done"
  /\ ffOwner \in {"destroyWriter", "destroyReader", "over"} => loop["write"] = "done"
  /\ ffOwner \in {"destroyReader", "over"} => open["writer"] = FALSE
  /\ ffOwner = "over" => open["reader"] = FALSE

LEMMA FFmpegInitInv == FFmpeg!Init => FFmpegInv
  BY DEF FFmpeg!Init, FFmpegInv, FFmpeg!Threads, FFmpeg!Ends

LEMMA FFmpegOwnerInv == ASSUME FFmpegInv, FFmpeg!Owner PROVE FFmpegInv'
<1> USE DEF FFmpegInv, FFmpeg!Threads, FFmpeg!Ends, FFmpeg!flags
<1>1. CASE FFmpeg!ConstructReader
  BY <1>1 DEF FFmpeg!ConstructReader, FFmpeg!Connect
<1>2. CASE FFmpeg!ConstructWriter
  BY <1>2 DEF FFmpeg!ConstructWriter, FFmpeg!Connect
<1>3. CASE FFmpeg!Start
  BY <1>3 DEF FFmpeg!Start
<1>4. CASE FFmpeg!Stop
  BY <1>4 DEF FFmpeg!Stop
<1>5. CASE FFmpeg!Join
  BY <1>5 DEF FFmpeg!Join
<1>6. CASE FFmpeg!DestroyWriter
  BY <1>6, Zenon DEF FFmpeg!DestroyWriter, FFmpeg!Close
<1>7. CASE FFmpeg!DestroyReader
  BY <1>7, Zenon DEF FFmpeg!DestroyReader, FFmpeg!Close
<1> QED
  BY <1>1, <1>2, <1>3, <1>4, <1>5, <1>6, <1>7, Zenon DEF FFmpeg!Owner

LEMMA FFmpegTurnInv ==
  ASSUME FFmpegInv, NEW t \in FFmpeg!Threads, FFmpeg!Turn(t) PROVE FFmpegInv'
<1>1. /\ loop[t] \in {"test", "body"}
      /\ \E s \in {"test", "body", "done"} : loop' = [loop EXCEPT ![t] = s]
      /\ UNCHANGED <<ffOwner, connected, open>>
  BY DEF FFmpeg!Turn, FFmpeg!Test, FFmpeg!Body, FFmpeg!Spin
<1> QED
  BY <1>1 DEF FFmpegInv, FFmpeg!Threads

LEMMA FFmpegStepInv == FFmpegInv /\ [FFmpeg!Next]_ffVars => FFmpegInv'
<1> SUFFICES ASSUME FFmpegInv, [FFmpeg!Next]_ffVars PROVE FFmpegInv'
  OBVIOUS
<1>1. CASE UNCHANGED ffVars \/ FFmpeg!Over
  BY <1>1 DEF ffVars, FFmpeg!Over, FFmpeg!vars, FFmpegInv
<1> QED
  BY <1>1, FFmpegOwnerInv, FFmpegTurnInv DEF FFmpeg!Next

-----------------------------------------------------------------------------
StreamsInv == VideoInv /\ FFmpegInv

LEMMA StreamsInvariance == StreamsSpec => []StreamsInv
<1>1. StreamsInit => StreamsInv
  BY VideoInitInv, FFmpegInitInv DEF StreamsInit, StreamsInv
<1>2. StreamsInv /\ [StreamsNext]_<<stream, vars, ffVars>> => StreamsInv'
  BY VideoStepInv, FFmpegStepInv DEF StreamsInv, StreamsNext
<1> QED
  BY <1>1, <1>2, PTL DEF StreamsSpec

\* Whatever the peer does, whichever end connected, and whether or not the build
\* keeps the flags in registers: no thread of a stream runs when the destructor
\* is past its joins, and no socket stays open.
THEOREM TornDownTheorem == StreamsSpec => []TornDownInOrder
<1>1. StreamsInv => TornDownInOrder
  <2> SUFFICES ASSUME StreamsInv PROVE TornDownInOrder
    OBVIOUS
  <2>1. JoinedBeforeDestroyed
    BY DEF StreamsInv, VideoInv, JoinedBeforeDestroyed
  <2>2. FFmpeg!LoopsEndBeforeReader
    BY DEF StreamsInv, FFmpegInv, FFmpeg!LoopsEndBeforeReader, FFmpeg!Threads
  <2>3. FFmpeg!SocketsClosed
    BY DEF StreamsInv, FFmpegInv, FFmpeg!SocketsClosed, FFmpeg!Ends
  <2> QED
    BY <2>1, <2>2, <2>3 DEF TornDownInOrder
<1> QED
  BY <1>1, StreamsInvariance, PTL

\* join ends the program only if the constructor returned before it started the
\* threads: a connection that was made and lost is always taken down in order.
THEOREM AbortsTheorem == StreamsSpec => []AbortsOnlyUnconnected
<1>1. StreamsInv => AbortsOnlyUnconnected
  BY DEF StreamsInv, VideoInv, AbortsOnlyUnconnected
<1> QED
  BY <1>1, StreamsInvariance, PTL
=============================================================================
