-------------------------- MODULE ChainablePromise --------------------------
(***************************************************************************)
(* cjunk/practice/chainablePromise.cc: a promise is a functor and a vector *)
(* of children.  then copies the child into the vector and returns another *)
(* copy; calling a promise calls its functor and then its children with    *)
(* the result, depth first.                                                *)
(*                                                                         *)
(* A promise is a value.  The values there have been are numbered, and the *)
(* children of a value are the numbers of earlier ones: a copy is the same *)
(* number, since then changes a variable and never what was copied from    *)
(* it.  The argument and the results are abstracted to the functors that   *)
(* were applied, in order.                                                 *)
(***************************************************************************)
EXTENDS Naturals, Sequences

CONSTANT MaxPromises    \* bound: promise variables in the caller

VARIABLES
  values,     \* the values of promises: m_functor and m_children
  promises,   \* the value of each of the caller's variables
  log         \* history: every then, which makes the variable of the next number

promiseVars == <<values, promises, log>>

\* The number of a variable names the functor its promise was made with.
Make(functor) == [functor |-> functor, children |-> <<>>]

PromiseInit == values = <<Make(1)>> /\ promises = <<1>> /\ log = <<>>

\* first, followed by each of the sequences.
Joined(first, seqs) ==
  LET upto[k \in 0 .. Len(seqs)] == IF k = 0 THEN first ELSE upto[k - 1] \o seqs[k]
  IN  upto[Len(seqs)]

\* Slip: the children are called with the argument.
CalledUnchained(run, vals, v, arg) ==
  LET children == vals[v].children
  IN  Joined(<<Append(arg, vals[v].functor)>>,
             [k \in DOMAIN children |-> run[<<children[k], arg>>]])

\* operator() of the value v: the results of the functors it calls, in order, where
\* run is what the calls of its children give.
Called(run, vals, v, arg) ==
  LET result == Append(arg, vals[v].functor)
      children == vals[v].children
  IN  Joined(<<result>>, [k \in DOMAIN children |-> run[<<children[k], result>>]])

Run(vals) ==
  LET run[x \in (1 .. Len(vals)) \X Seq(Nat)] == Called(run, vals, x[1], x[2]) IN run

New == Len(promises) + 1

\* m_children.push_back(promise); return promise;  where vals has the promise.
Attach(vals, on, promise) ==
  /\ New <= MaxPromises
  /\ values' = Append(vals, [values[promises[on]] EXCEPT !.children = Append(@, promise)])
  /\ promises' = Append([promises EXCEPT ![on] = Len(vals) + 1], promise)

\* then(Runnable)
thenRunnable(on) ==
  /\ Attach(Append(values, Make(New)), on, Len(values) + 1)
  /\ log' = Append(log, [on |-> on, child |-> New])

\* then(ChainablePromise), whose argument is copied from a variable.
thenPromise(on, child) ==
  /\ Attach(values, on, promises[child])
  /\ log' = Append(log, [on |-> on, child |-> child])

PromiseNext ==
  \/ \E p \in DOMAIN promises :
       thenRunnable(p) \/ \E q \in DOMAIN promises : thenPromise(p, q)
  \/ New > MaxPromises /\ UNCHANGED promiseVars

PromiseSpec == PromiseInit /\ [][PromiseNext]_promiseVars

-----------------------------------------------------------------------------
\* Every path through one promise begins with its functor.
Functor(paths) == (CHOOSE w \in paths : TRUE)[1]

\* The functors on every path from variable p through what was attached to it by
\* the first t calls of then in h.  Variable p was made by call p - 1.
Paths(attached, h, p, t) ==
  attached[p - 1] \cup
  UNION {{<<Functor(attached[p - 1])>> \o w : w \in attached[e]} :
         e \in {i \in p .. t : h[i].on = p}}

\* The paths through what call e of then attached and returned: a new functor, or
\* a variable with all that it had then.  Number 0 is the first promise.
Attached(h) ==
  LET attached[e \in 0 .. Len(h)] ==
        IF e = 0 THEN {<<1>>}
        ELSE IF h[e].child = e + 1 THEN {<<e + 1>>}
        ELSE Paths(attached, h, h[e].child, e - 1)
  IN  attached

\* A call of a promise runs the functors attached to that very variable and, below
\* each, those its child had when it was attached: what is chained to the result of
\* then is chained to a copy and does not run.  Each functor runs after its parent
\* and gets its parent's result.
RunsWhatWasAttached ==
  \A p \in DOMAIN promises :
    LET calls == Run(values)[<<promises[p], <<>> >>]
    IN  /\ {calls[k] : k \in DOMAIN calls} = Paths(Attached(log), log, p, Len(log))
        /\ \A k \in 2 .. Len(calls) : \E j \in 1 .. k - 1 :
             calls[j] = SubSeq(calls[k], 1, Len(calls[k]) - 1)
=============================================================================
