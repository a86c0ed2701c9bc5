---------------------------- MODULE CythonFrames ----------------------------
(***************************************************************************)
(* cjunk/cython/simple.cpp, which Cython generated from simple.pyx: the    *)
(* references that each C function owns, along every path through it, when *)
(* any call it makes may fail.                                             *)
(*                                                                         *)
(* A function is a sequence of instructions on its local variables.  A     *)
(* variable is held when it owns a reference, and NULL or borrowed when it *)
(* is not; the variable r is the result.  The condition of an if that      *)
(* depends on the caller's objects may go either way.  A call of another   *)
(* function of the file is taken to keep the contract that this module     *)
(* checks for that function.  The build is one for CPython 3.              *)
(***************************************************************************)
EXTENDS Naturals, Sequences

VARIABLE frame   \* the function that runs, and what it holds

-----------------------------------------------------------------------------
\* References: those in need must be held and those in free must not be, or
\* the count goes wrong; then take is released or handed on and gain acquired.
Refs(need, free, take, gain) ==
  <<[op |-> "refs", need |-> need, free |-> free, take |-> take, gain |-> gain]>>

Keep(v) == Refs({}, {v}, {}, {v})              \* v = an object; Py_INCREF(v)
Drop(v) == Refs({v}, {}, {v}, {})              \* Py_DECREF(v); v = 0
XDrop(vs) == Refs({}, {}, vs, {})              \* Py_XDECREF of each
Give(v, into) == Refs({v, into}, {}, {v}, {})  \* PyTuple_SET_ITEM(into, _, v); v = 0
Store(v, into) == Refs({v, into}, {}, {}, {})  \* Py_INCREF(v); PyTuple_SET_ITEM(into, _, v)
Move(v, w) == Refs({v}, {w}, {v}, {w})         \* w = v; v = 0
Replace(w, v) == Refs({v, w}, {}, {v}, {w})    \* __Pyx_DECREF_SET(w, v); v = 0
XReplace(w, v) == Refs({v}, {}, {v}, {w})      \* __Pyx_XDECREF_SET(w, v); v = 0

\* A call with the arguments args that stores a new reference in v.  If it
\* fails it sets the exception, and control goes to the label or, without one,
\* on.  Strange(v) is such a call of foreign code, which may return NULL
\* without an exception.
CallOr(v, args, label) ==
  <<[op |-> "call", v |-> v, args |-> args, to |-> label, strange |-> FALSE]>>
Call(v, args) == CallOr(v, args, "error")
Attempt(v, args) == CallOr(v, args, "")
Strange(v) == <<[op |-> "call", v |-> v, args |-> {}, to |-> "", strange |-> TRUE]>>

\* A call that returns no reference and goes to the label when it fails.
Try(label) == <<[op |-> "try", to |-> label]>>

If(label) == <<[op |-> "if", to |-> label]>>
IfNull(v, label) == <<[op |-> "ifnull", v |-> v, to |-> label]>>
Goto(label) == <<[op |-> "goto", to |-> label]>>
At(label) == <<[op |-> "at", to |-> label]>>
SetError == <<[op |-> "error", on |-> TRUE]>>
ClearError == <<[op |-> "error", on |-> FALSE]>>

\* __Pyx_ErrFetchInState takes the exception away, __Pyx_ErrRestoreInState puts
\* it back in place of whatever has been set since.
ErrFetch(v) == <<[op |-> "fetch", v |-> v]>>
ErrRestore(v) == <<[op |-> "restore", v |-> v]>>

\* return r, for an object; return 0 or -1, for an int.
Return == <<[op |-> "return", status |-> "object"]>>
ReturnInt(status) == <<[op |-> "return", status |-> status]>>

-----------------------------------------------------------------------------
unique_function == Keep("r") \o Return

second_function ==
  Keep("a")
  \o At("for") \o If("none")
    \o Call("t2", {}) \o XReplace("i", "t2")
    \o Call("t2", {"a", "i"}) \o Replace("a", "t2")
    \o Goto("for")
  \o At("none") \o Keep("r") \o Goto("L0")
  \o At("error") \o XDrop({"t2"})
  \o At("L0") \o XDrop({"a", "i"}) \o Return

memberA ==
  Call("t1", {}) \o Move("t1", "r") \o Goto("L0")
  \o At("error") \o XDrop({"t1"})
  \o At("L0") \o Return

\* __reduce_cython__, the state: (), or (__dict__,) for an object that has one.
reduce_state ==
  Keep("state") \o Call("t1", {}) \o Move("t1", "_dict")
  \o If("plain") \o Call("t1", {}) \o Store("_dict", "t1")
  \o Call("t4", {"state", "t1"}) \o Drop("t1") \o Replace("state", "t4")

\* (unpickle, (type, checksum, None), state)
reduce_setstate ==
  Call("t4", {}) \o Call("t1", {}) \o Call("t5", {})
  \o Give("t4", "t5") \o Give("t1", "t5") \o Store("state", "t5")
  \o Move("t5", "r") \o Goto("L0")

\* (unpickle, (type, checksum, state)), and the two labels at the end.
reduce_plain ==
  At("plain") \o Call("t5", {}) \o Call("t1", {}) \o Store("state", "t1")
  \o Call("t4", {}) \o Give("t5", "t4") \o Give("t1", "t4")
  \o Move("t4", "r") \o Goto("L0")
  \o At("error") \o XDrop({"t1", "t4", "t5"})
  \o At("L0") \o XDrop({"state", "_dict"}) \o Return

setstate_cython ==
  Try("error") \o Call("t1", {}) \o Drop("t1") \o Keep("r") \o Goto("L0")
  \o At("error") \o XDrop({"t1"})
  \o At("L0") \o Return

\* CYTHON_UNPACK_METHODS: f becomes the function of the bound method f.
Unpack(f, self, label) ==
  If(label) \o Keep(self) \o Keep("function") \o Replace(f, "function")
  \o At(label)

\* __pyx_unpickle_a_class, of another checksum: raise PickleError.
unpickle_mismatch ==
  If("same")
  \o Call("t2", {}) \o Call("t3", {"t2"}) \o Drop("t2")
  \o Call("t2", {"t3"}) \o Keep("PickleError") \o Drop("t2") \o Drop("t3")
  \o Call("t2", {}) \o Call("t4", {"t2"}) \o Drop("t2")
  \o Keep("t2") \o Unpack("t2", "t5", "class")
  \o Attempt("t3", {"t2", "t4"}) \o XDrop({"t5"}) \o Drop("t4")
  \o IfNull("t3", "error") \o Drop("t2")
  \o SetError \o Drop("t3") \o Goto("error")

\* Slip: the error label forgets the callable of __new__.
unpickle_match_leaky ==
  At("same") \o Call("t2", {}) \o Unpack("t2", "t4", "new")
  \o Attempt("t3", {"t2"}) \o XDrop({"t4"}) \o IfNull("t3", "error") \o Drop("t2")
  \o Move("t3", "result")
  \o If("stateless") \o Try("error") \o Call("t3", {"result"}) \o Drop("t3")
  \o At("stateless") \o Keep("r") \o Goto("L0")
  \o At("error") \o XDrop({"t3", "t4", "t5"})
  \o At("L0") \o XDrop({"PickleError", "result"}) \o Return

unpickle_match ==
  At("same") \o Call("t2", {}) \o Unpack("t2", "t4", "new")
  \o Attempt("t3", {"t2"}) \o XDrop({"t4"}) \o IfNull("t3", "error") \o Drop("t2")
  \o Move("t3", "result")
  \o If("stateless") \o Try("error") \o Call("t3", {"result"}) \o Drop("t3")
  \o At("stateless") \o Keep("r") \o Goto("L0")
  \o At("error") \o XDrop({"t2", "t3", "t4", "t5"})
  \o At("L0") \o XDrop({"PickleError", "result"}) \o Return

\* __pyx_unpickle_a_class__set_state: result.__dict__.update(state[0])
set_state ==
  Try("error") \o If("done")
  \o Call("t6", {}) \o Call("t7", {"t6"}) \o Drop("t6")
  \o Call("t6", {}) \o Unpack("t7", "t8", "update")
  \o Attempt("t5", {"t7", "t6"}) \o XDrop({"t8"}) \o Drop("t6")
  \o IfNull("t5", "error") \o Drop("t7") \o Drop("t5")
  \o At("done") \o Keep("r") \o Goto("L0")
  \o At("error") \o XDrop({"t5", "t6", "t7", "t8"})
  \o At("L0") \o Return

\* a_class's tp_new: the object that tp_alloc returns.
tp_new == Attempt("r", {}) \o Return

-----------------------------------------------------------------------------
copy_spec_to_module ==
  Attempt("value", {}) \o IfNull("value", "absent")
  \o If("skip") \o Try("failed")
  \o At("skip") \o Drop("value") \o ReturnInt("ok")
  \o At("failed") \o Drop("value") \o ReturnInt("failed")
  \o At("absent") \o If("other") \o ClearError \o ReturnInt("ok")
  \o At("other") \o ReturnInt("failed")

\* __pyx_pymod_create, with the dict and the four copies as one call.
pymod_create ==
  Try("end") \o If("first") \o Keep("r") \o Return
  \o At("first") \o CallOr("modname", {}, "end")
  \o Attempt("module", {"modname"}) \o Drop("modname") \o IfNull("module", "bad")
  \o Try("bad") \o Move("module", "r") \o Return
  \o At("bad") \o XDrop({"module"})
  \o At("end") \o Return

\* __pyx_pymod_exec_simple, the statements of the module.
pymod_exec ==
  Try("error")
  \o Call("t1", {}) \o Call("t2", {"t1"}) \o Drop("t1") \o Drop("t2")
  \o Call("t2", {}) \o Try("error") \o Drop("t2")
  \o Call("t2", {}) \o Try("error") \o Drop("t2")
  \o ReturnInt("ok")
  \o At("error") \o XDrop({"t1", "t2"}) \o ReturnInt("failed")

GetBuiltinName ==
  Attempt("r", {}) \o IfNull("r", "undefined") \o Return
  \o At("undefined") \o SetError \o Return

GetAttr3 ==
  Attempt("r", {}) \o IfNull("r", "default") \o Return
  \o At("default") \o If("other") \o ClearError \o Keep("r")
  \o At("other") \o Return

GetModuleGlobalName ==
  If("absent") \o Keep("r") \o Return
  \o At("absent") \o Try("end") \o Attempt("r", {})
  \o At("end") \o Return

\* level is 0 wherever __Pyx_Import is called.
Import ==
  If("list") \o CallOr("empty_list", {}, "bad")
  \o At("list") \o Try("bad") \o CallOr("empty_dict", {}, "bad")
  \o Attempt("r", {"empty_dict"})
  \o At("bad") \o XDrop({"empty_list", "empty_dict"}) \o Return

ImportFrom == GetBuiltinName

FastCallNoKw ==
  CallOr("f", {}, "end") \o Attempt("r", {"f"}) \o Drop("f")
  \o At("end") \o Return

\* depth stands for the level that Py_EnterRecursiveCall takes.
FastCallDict ==
  CallOr("depth", {}, "end")
  \o If("slow") \o Attempt("r", {}) \o Goto("done")
  \o At("slow") \o If("nokw") \o CallOr("kwtuple", {}, "done")
  \o At("nokw") \o Attempt("r", {}) \o XDrop({"kwtuple"})
  \o At("done") \o Drop("depth")
  \o At("end") \o Return

\* Slip: a callee's NULL is passed on without looking for an exception.
CallTrusting ==
  CallOr("depth", {}, "end") \o Strange("r") \o Drop("depth")
  \o At("end") \o Return

\* __Pyx_PyObject_CallMethO, and __Pyx_PyObject_Call of an object with tp_call.
CallMethO ==
  CallOr("depth", {}, "end") \o Strange("r") \o Drop("depth")
  \o IfNull("r", "null") \o Return
  \o At("null") \o SetError
  \o At("end") \o Return

PyObject_Call == If("plain") \o CallMethO \o At("plain") \o Attempt("r", {}) \o Return

Call2Args ==
  If("tuple") \o Attempt("r", {}) \o Return
  \o At("tuple") \o CallOr("args", {}, "done") \o Keep("function")
  \o Attempt("r", {"args", "function"}) \o Drop("args") \o Drop("function")
  \o At("done") \o Return

CallOneArg ==
  If("tuple") \o Attempt("r", {}) \o Return
  \o At("tuple") \o CallOr("args", {}, "done")
  \o Attempt("r", {"args"}) \o Drop("args")
  \o At("done") \o Return

\* __Pyx_Raise: an instance, a class with or without a value, or neither; the
\* cause; the traceback.  The value None is no value.
Raise ==
  If("badtb") \o If("class") \o If("neither")
  \o If("badvalue") \o Goto("cause")
  \o At("class") \o If("make") \o If("isinstance") \o Goto("cause")
  \o At("isinstance") \o Try("bad") \o If("make") \o Goto("cause")
  \o At("make") \o If("tuple") \o CallOr("args", {}, "bad") \o Goto("call")
  \o At("tuple") \o Keep("args")
  \o At("call") \o Attempt("owned_instance", {"args"}) \o Drop("args")
  \o IfNull("owned_instance", "bad") \o If("noinstance")
  \o At("cause") \o If("set") \o If("causeclass") \o If("causeinstance")
  \o If("badcause") \o Goto("set")
  \o At("causeclass") \o CallOr("fixed_cause", {}, "bad") \o Goto("setcause")
  \o At("causeinstance") \o Keep("fixed_cause")
  \o At("setcause") \o Drop("fixed_cause")
  \o At("set") \o SetError \o Goto("bad")
  \o At("badtb") \o At("neither") \o At("badvalue")
  \o At("noinstance") \o At("badcause") \o SetError
  \o At("bad") \o XDrop({"owned_instance"}) \o ReturnInt("failed")

HasAttr ==
  If("notstring") \o Attempt("attr", {}) \o IfNull("attr", "none") \o Drop("attr")
  \o ReturnInt("ok")
  \o At("none") \o ClearError \o ReturnInt("ok")
  \o At("notstring") \o SetError \o ReturnInt("failed")

\* __Pyx_GetItemInt_Tuple_Fast and _List_Fast: in bounds, or generic.
GetItemInt ==
  If("generic") \o Keep("r") \o Return
  \o At("generic") \o CallOr("j", {}, "end") \o Attempt("r", {"j"}) \o Drop("j")
  \o At("end") \o Return

\* __Pyx_GetItemInt_Fast: a list or tuple as above, or sq_item after sq_length,
\* of whose errors only OverflowError is cleared.
GetItemInt_Fast ==
  If("sequence") \o GetItemInt
  \o At("sequence") \o If("item") \o Try("length")
  \o At("item") \o Attempt("r", {}) \o Return
  \o At("length") \o If("other") \o ClearError \o Goto("item")
  \o At("other") \o Return

GenericGetAttr ==
  If("absent") \o Keep("descr") \o If("plain")
  \o Attempt("r", {"descr"}) \o Drop("descr") \o Return
  \o At("plain") \o Move("descr", "r") \o Return
  \o At("absent") \o SetError \o Return

SetVtable ==
  CallOr("ob", {}, "bad") \o Try("bad") \o Drop("ob") \o ReturnInt("ok")
  \o At("bad") \o XDrop({"ob"}) \o ReturnInt("failed")

setup_reduce_is_named ==
  Attempt("name_attr", {}) \o IfNull("name_attr", "negative") \o Try("negative")
  \o Goto("end")
  \o At("negative") \o ClearError
  \o At("end") \o XDrop({"name_attr"}) \o ReturnInt("ok")

\* The objects that _PyType_Lookup returns are borrowed.
setup_reduce ==
  If("GOOD") \o If("BAD")
  \o CallOr("reduce_ex", {}, "BAD") \o If("GOOD") \o If("BAD")
  \o CallOr("reduce", {}, "BAD") \o If("GOOD")
  \o CallOr("reduce_cython", {}, "BAD") \o Try("BAD") \o Try("BAD")
  \o Attempt("setstate", {}) \o IfNull("setstate", "absent") \o If("GOOD") \o Goto("named")
  \o At("absent") \o ClearError
  \o At("named") \o CallOr("setstate_cython", {}, "BAD") \o Try("BAD") \o Try("BAD")
  \o At("GOOD")
  \o XDrop({"reduce", "reduce_ex", "reduce_cython", "setstate", "setstate_cython"})
  \o ReturnInt("ok")
  \o At("BAD") \o SetError
  \o XDrop({"reduce", "reduce_ex", "reduce_cython", "setstate", "setstate_cython"})
  \o ReturnInt("failed")

\* What PyObject_SetAttr raises is overwritten.
CLineForTraceback ==
  If("end") \o ErrFetch("fetched")
  \o If("dict") \o Attempt("use_cline_obj", {}) \o IfNull("use_cline_obj", "unset")
  \o Drop("use_cline_obj") \o Goto("restore")
  \o At("unset") \o ClearError \o Goto("set")
  \o At("dict") \o If("restore")
  \o At("set") \o Try("restore")
  \o At("restore") \o ErrRestore("fetched")
  \o At("end") \o ReturnInt("failed")

CreateCodeObjectForTraceback ==
  CallOr("py_srcfile", {}, "bad") \o CallOr("py_funcname", {}, "bad")
  \o Attempt("r", {"py_srcfile", "py_funcname"})
  \o Drop("py_srcfile") \o Drop("py_funcname") \o Return
  \o At("bad") \o XDrop({"py_srcfile", "py_funcname"}) \o Return

\* __pyx_insert_code_object takes a reference of its own.
AddTraceback ==
  If("found") \o CallOr("py_code", {}, "bad") \o Goto("frame")
  \o At("found") \o Keep("py_code")
  \o At("frame") \o CallOr("py_frame", {"py_code"}, "bad")
  \o At("bad") \o XDrop({"py_code", "py_frame"}) \o ReturnInt("failed")

\* __Pyx_PyNumber_IntOrLong, and what it does with a result of the wrong type.
IntOrLong ==
  If("convert") \o Keep("r") \o Return
  \o At("convert") \o If("null") \o Strange("r") \o IfNull("r", "null")
  \o If("wrong") \o Return
  \o At("wrong") \o If("nonint") \o Try("drop") \o Return
  \o At("nonint") \o SetError
  \o At("drop") \o Drop("r") \o Return
  \o At("null") \o SetError \o Return

-----------------------------------------------------------------------------
Script == [
  unique_function |-> unique_function, second_function |-> second_function,
  memberA |-> memberA, reduce_cython |-> reduce_state \o reduce_setstate \o reduce_plain,
  setstate_cython |-> setstate_cython, unpickle |-> unpickle_mismatch \o unpickle_match,
  set_state |-> set_state, tp_new |-> tp_new,
  copy_spec_to_module |-> copy_spec_to_module, pymod_create |-> pymod_create,
  pymod_exec |-> pymod_exec, GetBuiltinName |-> GetBuiltinName, GetAttr3 |-> GetAttr3,
  GetModuleGlobalName |-> GetModuleGlobalName, Import |-> Import,
  ImportFrom |-> ImportFrom, FastCallNoKw |-> FastCallNoKw,
  FastCallDict |-> FastCallDict, CallMethO |-> CallMethO,
  PyObject_Call |-> PyObject_Call, Call2Args |-> Call2Args,
  CallOneArg |-> CallOneArg, Raise |-> Raise, HasAttr |-> HasAttr,
  GetItemInt |-> GetItemInt, GetItemInt_Fast |-> GetItemInt_Fast,
  GenericGetAttr |-> GenericGetAttr, SetVtable |-> SetVtable,
  setup_reduce_is_named |-> setup_reduce_is_named, setup_reduce |-> setup_reduce,
  CLineForTraceback |-> CLineForTraceback,
  CreateCodeObjectForTraceback |-> CreateCodeObjectForTraceback,
  AddTraceback |-> AddTraceback, IntOrLong |-> IntOrLong]

\* Called while an exception is pending, which they are to leave pending.
Tracebacks == {"CLineForTraceback", "CreateCodeObjectForTraceback", "AddTraceback"}

Returned == frame.status # "running"
Here == Script[frame.fn][frame.pc]
Is(op) == ~Returned /\ Here.op = op
Target(label) == CHOOSE k \in DOMAIN Script[frame.fn] : Script[frame.fn][k] = At(label)[1]
After(failed) == IF failed /\ Here.to # "" THEN Target(Here.to) ELSE frame.pc + 1

FrameInit ==
  \E fn \in DOMAIN Script :
    frame = [fn |-> fn, pc |-> 1, held |-> {}, error |-> fn \in Tracebacks,
             sound |-> TRUE, status |-> "running"]

DoRefs ==
  /\ Is("refs")
  /\ frame' = [frame EXCEPT !.pc = @ + 1, !.held = (@ \ Here.take) \cup Here.gain,
       !.sound = @ /\ Here.need \subseteq frame.held /\ Here.free \cap frame.held = {}]

\* An object may be called only with live arguments and no exception pending.
DoCall ==
  /\ Is("call")
  /\ \E failed, silent \in BOOLEAN :
       /\ silent => failed /\ Here.strange
       /\ frame' = [frame EXCEPT !.pc = After(failed),
            !.held = IF failed THEN @ ELSE @ \cup {Here.v},
            !.error = @ \/ (failed /\ ~silent),
            !.sound = /\ @ /\ Here.args \subseteq frame.held /\ Here.v \notin frame.held
                      /\ frame.error => frame.fn \in Tracebacks]

DoTry ==
  /\ Is("try")
  /\ \E failed \in BOOLEAN :
       frame' = [frame EXCEPT !.pc = After(failed), !.error = @ \/ failed]

DoIf ==
  /\ Is("if")
  /\ \E taken \in BOOLEAN : frame' = [frame EXCEPT !.pc = After(taken)]

DoJump ==
  /\ \/ Is("goto") /\ frame' = [frame EXCEPT !.pc = Target(Here.to)]
     \/ Is("at") /\ frame' = [frame EXCEPT !.pc = @ + 1]
     \/ Is("ifnull") /\ frame' = [frame EXCEPT !.pc = After(Here.v \notin frame.held)]

DoError ==
  /\ \/ Is("error") /\ frame' = [frame EXCEPT !.pc = @ + 1, !.error = Here.on]
     \/ /\ Is("fetch")
        /\ frame' = [frame EXCEPT !.pc = @ + 1, !.held = @ \cup {Here.v}, !.error = FALSE]
     \/ /\ Is("restore")
        /\ frame' = [frame EXCEPT !.pc = @ + 1, !.held = @ \ {Here.v},
                       !.error = Here.v \in frame.held]

DoReturn ==
  /\ Is("return")
  /\ frame' = [frame EXCEPT !.status =
       IF Here.status # "object" THEN Here.status
       ELSE IF "r" \in frame.held THEN "ok" ELSE "failed"]

FrameNext == DoRefs \/ DoCall \/ DoTry \/ DoIf \/ DoJump \/ DoError \/ DoReturn
FrameSpec == FrameInit /\ [][FrameNext]_frame

-----------------------------------------------------------------------------
\* Whichever calls fail, a function never releases, uses or overwrites what it
\* does not hold, and at its return it holds nothing but its result.
RefsBalanced ==
  /\ frame.sound
  /\ Returned => frame.held \subseteq {"r"}

\* A function returns NULL or -1 exactly when an exception is pending, and what
\* builds a traceback leaves the exception it is built for pending.
FailsIffException ==
  Returned => IF frame.fn \in Tracebacks THEN frame.error
              ELSE frame.error = (frame.status = "failed")
=============================================================================
