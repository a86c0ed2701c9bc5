------------------------------ MODULE MCCython ------------------------------
(***************************************************************************)
(* The parts of the generated module simple.cpp that keep no state in      *)
(* common: a behaviour is one of one of them, the variables of the others  *)
(* idle.                                                                   *)
(***************************************************************************)
EXTENDS CodeCache, CythonHelpers, DictCache, ModuleImport

VARIABLES part, frame

Frames == INSTANCE CythonFrames

\* The widths of real builds, scaled down in the same order.
SmallBuilds ==
  {[shift |-> 3, int |-> 4, long |-> 8, ssize |-> 8],     \* 30, 32, 64, 64
   [shift |-> 3, int |-> 4, long |-> 4, ssize |-> 8],     \* 30, 32, 32, 64
   [shift |-> 3, int |-> 8, long |-> 16, ssize |-> 16],   \* 15, 32, 64, 64
   [shift |-> 3, int |-> 8, long |-> 8, ssize |-> 8]}     \* 15, 32, 32, 32

Idle == 0

CythonInit ==
  /\ part \in {"frames", "helpers", "import", "codes", "globals"}
  /\ CacheInit
  /\ IF part = "globals" THEN DictInit
     ELSE /\ value = Idle /\ version = Idle /\ issued = Idle /\ built_in = Idle
          /\ pyx_d = Idle /\ dict_version = Idle /\ dict_cached_value = Idle
          /\ got = Nothing /\ failed = Idle
  /\ IF part = "frames" THEN Frames!FrameInit ELSE frame = Idle
  /\ IF part = "helpers" THEN HelperInit ELSE query = Idle /\ answer = Unasked
  /\ ImportInit /\ (part # "import" => who = CHOOSE i \in Interpreters : TRUE)

CythonNext ==
  /\ \/ part = "codes" /\ CacheNext /\ UNCHANGED <<dictVars, frame, helperVars, importVars>>
     \/ part = "globals" /\ DictNext /\ UNCHANGED <<cacheVars, frame, helperVars, importVars>>
     \/ /\ part = "frames" /\ Frames!FrameNext
        /\ UNCHANGED <<cacheVars, dictVars, helperVars, importVars>>
     \/ /\ part = "helpers" /\ HelperNext
        /\ UNCHANGED <<cacheVars, dictVars, frame, importVars>>
     \/ part = "import" /\ ImportNext /\ UNCHANGED <<cacheVars, dictVars, frame, helperVars>>
  /\ UNCHANGED part

CythonSpec ==
  CythonInit /\ [][CythonNext]_<<part, cacheVars, dictVars, frame, helperVars, importVars>>

-----------------------------------------------------------------------------
\* A function that returns owns no reference but that of its result, and none is
\* released twice, on every path through every call that may fail.
RefsBalanced == part = "frames" => Frames!RefsBalanced

\* A function returns NULL or -1 exactly if it leaves an exception set.
FailsIffException == part = "frames" => Frames!FailsIffException
=============================================================================
