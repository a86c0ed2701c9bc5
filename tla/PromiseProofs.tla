---------------------------- MODULE PromiseProofs ----------------------------
(***************************************************************************)
(* A call of a promise runs what was attached to it, for any number of     *)
(* promises and any sequence of calls of then.  The call and what the      *)
(* history says of it are recursive functions: both are shown to exist and *)
(* to satisfy their equations, and the invariant Holds says that they      *)
(* agree for every variable.                                               *)
(***************************************************************************)
EXTENDS ChainablePromise, SequenceTheorems, WellFoundedInduction, TLAPS

\* Induction, with a set in the place of the predicate.
LEMMA Induction ==
  ASSUME NEW S, 0 \in S, \A i \in Nat : i \in S => i + 1 \in S
  PROVE  \A i \in Nat : i \in S
<1> DEFINE T == Nat \ S
<1> SUFFICES ASSUME T # {} PROVE FALSE
  OBVIOUS
<1>1. PICK x \in T : \A y \in T : ~ (<<y, x>> \in OpToRel(<, Nat))
  BY NatLessThanWellFounded, WFMin
<1>2. \A y \in T : ~ (y < x)
  BY <1>1 DEF OpToRel
<1>3. x \in Nat /\ x \notin S
  BY <1>1
<1>4. x # 0
  BY <1>3
<1>5. PICK i \in Nat : x = i + 1
  <2>1. x - 1 \in Nat /\ x = (x - 1) + 1
    BY <1>3, <1>4
  <2> QED
    BY <2>1
<1>6. i \in S
  BY <1>2, <1>5
<1> QED
  BY <1>3, <1>5, <1>6

-----------------------------------------------------------------------------
\* What a call gives: the results of the functors it runs.
Calls == Seq(Seq(Nat))

\* The equation of the sequence that Joined builds up.
IsJoined(g, first, seqs) ==
  g = [k \in 0 .. Len(seqs) |-> IF k = 0 THEN first ELSE g[k - 1] \o seqs[k]]

\* The loop over the children has a value for every number of them.
LEMMA JoinedExists ==
  ASSUME NEW first, NEW seqs \in Seq(Calls)
  PROVE  \E g : IsJoined(g, first, seqs)
<1>1. PICK L \in Nat : L = Len(seqs)
  OBVIOUS
<1> DEFINE Upto(g, m) == \A k \in Nat : k < m =>
                            g[k] = IF k = 0 THEN first ELSE g[k - 1] \o seqs[k]
           S == {m \in Nat : \E g : Upto(g, m)}
<1>2. 0 \in S
  OBVIOUS
<1>3. ASSUME NEW m \in Nat, m \in S PROVE m + 1 \in S
  <2>1. PICK g : Upto(g, m)
    BY <1>3
  <2> DEFINE f == [k \in Nat |-> IF k < m THEN g[k]
                                 ELSE IF k = 0 THEN first ELSE g[k - 1] \o seqs[k]]
  <2>2. \A k \in Nat : f[k] = IF k < m THEN g[k]
                              ELSE IF k = 0 THEN first ELSE g[k - 1] \o seqs[k]
    OBVIOUS
  <2> HIDE DEF f
  <2>3. ASSUME NEW k \in Nat, k < m + 1
        PROVE  f[k] = IF k = 0 THEN first ELSE f[k - 1] \o seqs[k]
    <3>1. CASE k = 0
      BY <2>1, <2>2, <3>1
    <3>2. CASE k # 0
      <4>1. PICK j \in Nat : j = k - 1 /\ j < m
        BY <2>3, <3>2
      <4>2. f[j] = g[j]
        BY <2>2, <4>1
      <4>3. f[k] = g[j] \o seqs[k]
        BY <2>1, <2>2, <3>2, <4>1
      <4> QED
        BY <3>2, <4>1, <4>2, <4>3
    <3> QED
      BY <3>1, <3>2
  <2>4. Upto(f, m + 1)
    BY <2>3
  <2>5. \E h : Upto(h, m + 1)
    BY <2>4
  <2> QED
    BY <2>5
<1> HIDE DEF S
<1>4. L + 1 \in S
  BY <1>2, <1>3, Induction
<1>5. PICK g : Upto(g, L + 1)
  BY <1>4 DEF S
<1> DEFINE f == [k \in 0 .. L |-> g[k]]
<1>6. \A k \in 0 .. L : f[k] = g[k]
  OBVIOUS
<1> HIDE DEF f
<1>7. ASSUME NEW k \in 0 .. L PROVE g[k] = IF k = 0 THEN first ELSE f[k - 1] \o seqs[k]
  <2>1. g[k] = IF k = 0 THEN first ELSE g[k - 1] \o seqs[k]
    BY <1>5
  <2>2. k # 0 => f[k - 1] = g[k - 1]
    BY <1>6
  <2> QED
    BY <2>1, <2>2
<1>8. f = [k \in 0 .. L |-> IF k = 0 THEN first ELSE f[k - 1] \o seqs[k]]
  BY <1>7 DEF f
<1> QED
  BY <1>1, <1>8 DEF IsJoined

\* The result a functor was given, and all the results of a call.
Before(w) == SubSeq(w, 1, Len(w) - 1)
All(c) == {c[k] : k \in DOMAIN c}

\* A list of calls that begins with the result r, where each later result extends an
\* earlier one by a functor.
Good(c, r) ==
  /\ c \in Calls /\ Len(c) >= 1 /\ c[1] = r
  /\ \A i \in 2 .. Len(c) : \E j \in 1 .. i - 1 : c[j] = Before(c[i])

\* A functor was given what its result extends.
LEMMA BeforeAppend == ASSUME NEW r \in Seq(Nat), NEW x \in Nat PROVE Before(Append(r, x)) = r
<1>0. PICK w : w = Append(r, x)
  OBVIOUS
<1>1. /\ w \in Seq(Nat) /\ Len(w) = Len(r) + 1
      /\ \A i \in 1 .. Len(r) : w[i] = r[i]
  BY <1>0
<1>2. PICK L \in Nat : L = Len(r)
  OBVIOUS
<1>3. PICK u : u = SubSeq(w, 1, L)
  OBVIOUS
<1>4. \A i \in 1 .. L : w[i] \in Nat
  BY <1>1, <1>2
<1>5. u \in Seq(Nat) /\ Len(u) = L /\ \A i \in 1 .. L : u[i] = w[i]
  BY <1>2, <1>3, <1>4
<1>6. u = r
  BY <1>1, <1>2, <1>5, SeqEqual
<1>7. Len(w) - 1 = L
  BY <1>1, <1>2
<1> QED
  BY <1>0, <1>3, <1>6, <1>7 DEF Before

\* The calls of a child go on from the result its parent got.
LEMMA ConcatGood ==
  ASSUME NEW r \in Seq(Nat), NEW x \in Nat, NEW c, NEW d,
         Good(c, r), Good(d, Append(r, x))
  PROVE  Good(c \o d, r) /\ All(c \o d) = All(c) \cup All(d)
<1>1. c \in Calls /\ d \in Calls /\ Len(c) >= 1 /\ Len(d) >= 1
  BY DEF Good
<1>2. PICK m \in Nat : m = Len(c) /\ m >= 1
  BY <1>1 DEF Calls
<1>3. PICK l \in Nat : l = Len(d) /\ l >= 1
  BY <1>1 DEF Calls
<1>4. PICK e \in Calls : e = c \o d
  <2>1. c \o d \in Calls
    BY <1>1, ConcatProperties DEF Calls
  <2> QED
    BY <2>1
<1>5. /\ Len(e) = m + l
      /\ \A i \in 1 .. m : e[i] = c[i]
      /\ \A i \in 1 .. l : e[m + i] = d[i]
  BY <1>1, <1>2, <1>3, <1>4 DEF Calls
<1>6. e[1] = r
  BY <1>2, <1>5 DEF Good
<1>7. ASSUME NEW i \in 2 .. m + l PROVE \E j \in 1 .. i - 1 : e[j] = Before(e[i])
  <2>1. CASE i <= m
    <3>1. PICK j \in 1 .. i - 1 : c[j] = Before(c[i])
      BY <1>2, <2>1 DEF Good
    <3>2. j \in 1 .. m /\ i \in 1 .. m
      BY <2>1
    <3> QED
      BY <1>5, <3>1, <3>2
  <2>2. CASE i = m + 1
    <3>1. e[i] = Append(r, x)
      BY <1>3, <1>5, <2>2 DEF Good
    <3>2. 1 \in 1 .. i - 1
      BY <1>2, <2>2
    <3> QED
      BY <1>6, <3>1, <3>2, BeforeAppend
  <2>3. CASE i > m + 1
    <3>1. PICK k \in 2 .. l : k = i - m
      BY <2>3
    <3>2. PICK j \in 1 .. k - 1 : d[j] = Before(d[k])
      BY <1>3 DEF Good
    <3>3. PICK h \in 1 .. i - 1 : h = m + j
      BY <3>1
    <3>4. e[h] = d[j] /\ e[i] = d[k]
      <4>1. j \in 1 .. l /\ k \in 1 .. l /\ i = m + k
        BY <3>1
      <4> QED
        BY <1>5, <3>3, <4>1
    <3> QED
      BY <3>2, <3>4
  <2> QED
    BY <2>1, <2>2, <2>3
<1>8. All(e) = All(c) \cup All(d)
  <2>1. DOMAIN e = 1 .. m + l /\ DOMAIN c = 1 .. m /\ DOMAIN d = 1 .. l
    BY <1>1, <1>2, <1>3, <1>4, <1>5 DEF Calls
  <2>2. ASSUME NEW i \in 1 .. m + l PROVE e[i] \in All(c) \cup All(d)
    <3>1. CASE i <= m
      <4>1. i \in 1 .. m
        BY <3>1
      <4> QED
        BY <1>5, <2>1, <4>1 DEF All
    <3>2. CASE i > m
      <4>1. PICK k \in 1 .. l : i = m + k
        <5>1. i - m \in 1 .. l /\ i = m + (i - m)
          BY <3>2
        <5> QED
          BY <5>1
      <4> QED
        BY <1>5, <2>1, <4>1 DEF All
    <3> QED
      BY <3>1, <3>2
  <2>3. ASSUME NEW i \in 1 .. m PROVE c[i] \in All(e)
    <3>1. i \in 1 .. m + l
      OBVIOUS
    <3> QED
      BY <1>5, <2>1, <3>1 DEF All
  <2>4. ASSUME NEW i \in 1 .. l PROVE d[i] \in All(e)
    <3>1. m + i \in 1 .. m + l
      OBVIOUS
    <3> QED
      BY <1>5, <2>1, <3>1 DEF All
  <2>5. All(e) \subseteq All(c) \cup All(d)
    BY <2>1, <2>2 DEF All
  <2>6. All(c) \subseteq All(e)
    BY <2>1, <2>3 DEF All
  <2>7. All(d) \subseteq All(e)
    BY <2>1, <2>4 DEF All
  <2> QED
    BY <2>5, <2>6, <2>7
<1>9. Good(e, r)
  <2>1. Len(e) >= 1
    BY <1>2, <1>3, <1>5
  <2> QED
    BY <1>5, <1>6, <1>7, <2>1 DEF Good
<1> QED
  BY <1>4, <1>8, <1>9

\* What the call of a value gives, if the calls of its children are in order.
LEMMA JoinedGood ==
  ASSUME NEW r \in Seq(Nat), NEW seqs \in Seq(Calls),
         \A k \in 1 .. Len(seqs) : \E x \in Nat : Good(seqs[k], Append(r, x))
  PROVE  /\ Good(Joined(<<r>>, seqs), r)
         /\ All(Joined(<<r>>, seqs)) = {r} \cup UNION {All(seqs[k]) : k \in 1 .. Len(seqs)}
<1>1. PICK L \in Nat : L = Len(seqs)
  OBVIOUS
<1>2. PICK g : Joined(<<r>>, seqs) = g[L] /\ IsJoined(g, <<r>>, seqs)
  <2> DEFINE g == CHOOSE g : IsJoined(g, <<r>>, seqs)
  <2>1. IsJoined(g, <<r>>, seqs)
    BY JoinedExists
  <2>2. Joined(<<r>>, seqs) = g[L]
    BY <1>1 DEF Joined, IsJoined
  <2> QED
    BY <2>1, <2>2
<1>3. g[0] = <<r>> /\ \A k \in 1 .. L : g[k] = g[k - 1] \o seqs[k]
  <2>1. g = [k \in 0 .. L |-> IF k = 0 THEN <<r>> ELSE g[k - 1] \o seqs[k]]
    BY <1>1, <1>2 DEF IsJoined
  <2>2. \A k \in 0 .. L : g[k] = IF k = 0 THEN <<r>> ELSE g[k - 1] \o seqs[k]
    BY <2>1, Zenon
  <2>3. 0 \in 0 .. L
    OBVIOUS
  <2>4. \A k \in 1 .. L : k \in 0 .. L /\ k # 0
    OBVIOUS
  <2> QED
    BY <2>2, <2>3, <2>4, Zenon
<1> DEFINE S == {m \in Nat : m <= L => /\ Good(g[m], r)
                                      /\ All(g[m]) = {r} \cup UNION {All(seqs[k]) : k \in 1 .. m}}
<1>4. 0 \in S
  <2>1. Good(<<r>>, r)
    BY DEF Good, Calls
  <2>2. All(<<r>>) = {r}
    BY DEF All
  <2>3. UNION {All(seqs[k]) : k \in 1 .. 0} = {}
    OBVIOUS
  <2> QED
    BY <1>3, <2>1, <2>2, <2>3
<1>5. ASSUME NEW m \in Nat, m \in S PROVE m + 1 \in S
  <2> SUFFICES ASSUME m + 1 <= L
               PROVE  /\ Good(g[m + 1], r)
                      /\ All(g[m + 1]) = {r} \cup UNION {All(seqs[k]) : k \in 1 .. m + 1}
    OBVIOUS
  <2>1. PICK i \in 1 .. L : i = m + 1
    OBVIOUS
  <2>2. Good(g[m], r) /\ All(g[m]) = {r} \cup UNION {All(seqs[k]) : k \in 1 .. m}
    BY <1>5, <2>1
  <2>3. g[i] = g[m] \o seqs[i]
    <3>1. i - 1 = m
      BY <2>1
    <3> QED
      BY <1>3, <3>1
  <2>4. PICK x \in Nat : Good(seqs[i], Append(r, x))
    BY <1>1
  <2>5. Good(g[i], r) /\ All(g[i]) = All(g[m]) \cup All(seqs[i])
    BY <2>2, <2>3, <2>4, ConcatGood
  <2>6. 1 .. i = (1 .. m) \cup {i}
    BY <2>1
  <2>7. UNION {All(seqs[k]) : k \in 1 .. i}
          = (UNION {All(seqs[k]) : k \in 1 .. m}) \cup All(seqs[i])
    BY <2>6
  <2> QED
    BY <2>1, <2>2, <2>5, <2>7
<1> HIDE DEF S
<1>6. L \in S
  BY <1>4, <1>5, Induction
<1> QED
  BY <1>1, <1>2, <1>6 DEF S

-----------------------------------------------------------------------------
\* The children of a value are earlier ones.
Numbered(vals) ==
  /\ vals \in Seq([functor : Nat, children : Seq(Nat)])
  /\ \A v \in 1 .. Len(vals) : \A k \in 1 .. Len(vals[v].children) :
       vals[v].children[k] \in 1 .. v - 1

\* A promise as a record of its members.
Value == [functor : Nat, children : Seq(Nat)]

\* A number and a sequence of numbers make a value.
LEMMA ValueIs ==
  ASSUME NEW x \in Nat, NEW ch \in Seq(Nat)
  PROVE  \E value \in Value : /\ value = [functor |-> x, children |-> ch]
                              /\ x = value.functor /\ ch = value.children
<1>1. PICK value : value = [functor |-> x, children |-> ch]
  OBVIOUS
<1>2. value \in Value
  BY <1>1 DEF Value
<1>3. x = value.functor /\ ch = value.children
  BY <1>1
<1> QED
  BY <1>1, <1>2, <1>3

\* Every value there is has a functor and children among the earlier values.
LEMMA ValueOf ==
  ASSUME NEW vals, Numbered(vals), NEW v \in 1 .. Len(vals)
  PROVE  /\ vals[v] \in Value
         /\ Len(vals) \in Nat /\ v \in Nat /\ vals[v].functor \in Nat
         /\ vals[v].children \in Seq(Nat)
         /\ DOMAIN vals[v].children = 1 .. Len(vals[v].children)
         /\ \A k \in 1 .. Len(vals[v].children) : vals[v].children[k] \in 1 .. v - 1
<1>1. vals[v] \in [functor : Nat, children : Seq(Nat)]
  <2>1. PICK T : T = [functor : Nat, children : Seq(Nat)]
    OBVIOUS
  <2>2. vals \in Seq(T)
    BY <2>1 DEF Numbered
  <2>3. vals[v] \in T
    BY <2>2, ElementOfSeq
  <2> QED
    BY <2>1, <2>3
<1>2. vals[v].functor \in Nat /\ vals[v].children \in Seq(Nat)
  BY <1>1
<1>3. vals[v] \in Value
  BY <1>1 DEF Value
<1> QED
  BY <1>2, <1>3 DEF Numbered

\* Two functions of a value and an argument agree below value v.
SameBelow(f, g, v) == \A u \in 1 .. v - 1, a \in Seq(Nat) : f[<<u, a>>] = g[<<u, a>>]

\* A call depends on the calls of earlier values only.
LEMMA CalledAgrees ==
  ASSUME NEW vals, Numbered(vals), NEW v \in 1 .. Len(vals), NEW arg \in Seq(Nat),
         NEW more, more[v] = vals[v], NEW f, NEW g, SameBelow(f, g, v)
  PROVE  Called(f, vals, v, arg) = Called(g, more, v, arg)
<1>1. PICK res \in Seq(Nat) : res = Append(arg, vals[v].functor)
  <2>1. PICK x \in Nat : x = vals[v].functor
    BY ValueOf
  <2>2. Append(arg, x) \in Seq(Nat)
    OBVIOUS
  <2> QED
    BY <2>1, <2>2
<1>2. PICK ch \in Seq(Nat) : /\ ch = vals[v].children /\ DOMAIN ch = 1 .. Len(ch)
                            /\ \A k \in 1 .. Len(ch) : ch[k] \in 1 .. v - 1
  BY ValueOf
<1>3. \A k \in DOMAIN ch : f[<<ch[k], res>>] = g[<<ch[k], res>>]
  BY <1>2 DEF SameBelow
<1>4. [k \in DOMAIN ch |-> f[<<ch[k], res>>]] = [k \in DOMAIN ch |-> g[<<ch[k], res>>]]
  BY <1>3
<1> QED
  BY <1>1, <1>2, <1>4 DEF Called

\* The equation of Run.
IsRun(run, vals) ==
  run = [x \in (1 .. Len(vals)) \X Seq(Nat) |-> Called(run, vals, x[1], x[2])]

\* operator() terminates: each child is an earlier value.
LEMMA RunExists ==
  ASSUME NEW vals, Numbered(vals)
  PROVE  \E run : IsRun(run, vals)
<1>1. PICK L \in Nat : L = Len(vals)
  BY DEF Numbered
<1> DEFINE Upto(f, m) == \A v \in 1 .. L, a \in Seq(Nat) :
                           v < m => f[<<v, a>>] = Called(f, vals, v, a)
           S == {m \in Nat : \E f : Upto(f, m)}
<1>2. 0 \in S
  OBVIOUS
<1>3. ASSUME NEW m \in Nat, m \in S PROVE m + 1 \in S
  <2>1. PICK f : Upto(f, m)
    BY <1>3
  <2> DEFINE g == [x \in (1 .. L) \X Seq(Nat) |->
                    IF x[1] < m THEN f[x] ELSE Called(f, vals, x[1], x[2])]
  <2>2. \A v \in 1 .. L, a \in Seq(Nat) :
          g[<<v, a>>] = IF v < m THEN f[<<v, a>>] ELSE Called(f, vals, v, a)
    OBVIOUS
  <2> HIDE DEF g
  <2>3. ASSUME NEW v \in 1 .. L, NEW a \in Seq(Nat), v < m + 1
        PROVE  g[<<v, a>>] = Called(g, vals, v, a)
    <3>1. g[<<v, a>>] = Called(f, vals, v, a)
      BY <2>1, <2>2
    <3>2. SameBelow(f, g, v)
      <4>1. \A u \in 1 .. v - 1 : u \in 1 .. L /\ u < m
        BY <2>3
      <4> QED
        BY <2>2, <4>1 DEF SameBelow
    <3>3. v \in 1 .. Len(vals)
      BY <1>1
    <3> QED
      BY <3>1, <3>2, <3>3, CalledAgrees
  <2>4. Upto(g, m + 1)
    BY <2>3
  <2> HIDE DEF Upto
  <2>5. \E h : Upto(h, m + 1)
    BY <2>4
  <2> QED
    BY <2>5
<1> HIDE DEF S
<1>4. L + 1 \in S
  BY <1>2, <1>3, Induction
<1>5. PICK f : Upto(f, L + 1)
  BY <1>4 DEF S
<1> DEFINE g == [x \in (1 .. L) \X Seq(Nat) |-> f[x]]
<1>6. \A v \in 1 .. L, a \in Seq(Nat) : g[<<v, a>>] = f[<<v, a>>]
  OBVIOUS
<1>7. ASSUME NEW v \in 1 .. L, NEW a \in Seq(Nat) PROVE f[<<v, a>>] = Called(g, vals, v, a)
  <2> HIDE DEF g
  <2>1. f[<<v, a>>] = Called(f, vals, v, a)
    BY <1>5
  <2>2. SameBelow(f, g, v)
    <3>1. \A u \in 1 .. v - 1 : u \in 1 .. L
      OBVIOUS
    <3> QED
      BY <1>6, <3>1 DEF SameBelow
  <2>3. v \in 1 .. Len(vals)
    BY <1>1
  <2> QED
    BY <2>1, <2>2, <2>3, CalledAgrees
<1>8. ASSUME NEW x \in (1 .. L) \X Seq(Nat) PROVE f[x] = Called(g, vals, x[1], x[2])
  <2> HIDE DEF g
  <2>1. x = <<x[1], x[2]>> /\ x[1] \in 1 .. L /\ x[2] \in Seq(Nat)
    OBVIOUS
  <2> QED
    BY <1>7, <2>1
<1>9. g = [x \in (1 .. L) \X Seq(Nat) |-> Called(g, vals, x[1], x[2])]
  BY <1>8
<1> HIDE DEF g
<1> QED
  BY <1>1, <1>9 DEF IsRun

\* Run satisfies its equation.
LEMMA RunIs ==
  ASSUME NEW vals, Numbered(vals), NEW v \in 1 .. Len(vals), NEW arg \in Seq(Nat)
  PROVE  Run(vals)[<<v, arg>>] = Called(Run(vals), vals, v, arg)
<1>1. Run(vals) = CHOOSE run : IsRun(run, vals)
  BY DEF Run, IsRun
<1>2. IsRun(Run(vals), vals)
  BY <1>1, RunExists
<1> QED
  BY <1>2 DEF IsRun

\* More values do not change what the ones there are do when they are called.
Extends(more, vals) == Len(vals) <= Len(more) /\ \A v \in 1 .. Len(vals) : more[v] = vals[v]

LEMMA RunGrows ==
  ASSUME NEW vals, Numbered(vals), NEW more, Numbered(more), Extends(more, vals)
  PROVE  \A v \in 1 .. Len(vals), a \in Seq(Nat) : Run(more)[<<v, a>>] = Run(vals)[<<v, a>>]
<1>1. PICK L \in Nat : L = Len(vals)
  BY DEF Numbered
<1> DEFINE S == {m \in Nat : \A v \in 1 .. L, a \in Seq(Nat) :
                               v < m => Run(vals)[<<v, a>>] = Run(more)[<<v, a>>]}
<1>2. 0 \in S
  OBVIOUS
<1>3. ASSUME NEW m \in Nat, m \in S PROVE m + 1 \in S
  <2> SUFFICES ASSUME NEW v \in 1 .. L, NEW a \in Seq(Nat), v < m + 1
               PROVE  Run(vals)[<<v, a>>] = Run(more)[<<v, a>>]
    OBVIOUS
  <2>1. v \in 1 .. Len(vals) /\ v \in 1 .. Len(more) /\ more[v] = vals[v]
    <3>1. PICK M \in Nat : M = Len(more) /\ L <= M
      BY <1>1 DEF Numbered, Extends
    <3> QED
      BY <1>1, <3>1 DEF Extends
  <2>2. SameBelow(Run(vals), Run(more), v)
    <3>1. \A u \in 1 .. v - 1 : u \in 1 .. L /\ u < m
      OBVIOUS
    <3> QED
      BY <1>3, <3>1 DEF SameBelow
  <2>3. PICK f : f = Run(vals)
    OBVIOUS
  <2>4. PICK g : g = Run(more)
    OBVIOUS
  <2>5. Called(f, vals, v, a) = Called(g, more, v, a)
    BY <2>1, <2>2, <2>3, <2>4, CalledAgrees
  <2>6. f[<<v, a>>] = Called(f, vals, v, a) /\ g[<<v, a>>] = Called(g, more, v, a)
    BY <2>1, <2>3, <2>4, RunIs
  <2> QED
    BY <2>3, <2>4, <2>5, <2>6
<1> HIDE DEF S
<1>4. L + 1 \in S
  BY <1>2, <1>3, Induction
<1>5. \A v \in 1 .. L : v < L + 1
  OBVIOUS
<1> QED
  BY <1>1, <1>4, <1>5 DEF S

\* The results of the functors that a call runs.
Ways(vals, v, arg) == All(Run(vals)[<<v, arg>>])

\* A call runs its functor first and each of the others after its parent.
InOrder(vals, v, arg) ==
  LET result == Append(arg, vals[v].functor)
      children == vals[v].children
  IN  /\ Good(Run(vals)[<<v, arg>>], result)
      /\ Ways(vals, v, arg)
           = {result} \cup UNION {Ways(vals, children[k], result) : k \in 1 .. Len(children)}

\* Every call is in order, by induction over the number of the value.
LEMMA RunInOrder ==
  ASSUME NEW vals, Numbered(vals)
  PROVE  \A v \in 1 .. Len(vals), arg \in Seq(Nat) : InOrder(vals, v, arg)
<1>1. PICK L \in Nat : L = Len(vals)
  BY DEF Numbered
<1> DEFINE S == {m \in Nat : \A v \in 1 .. L, arg \in Seq(Nat) : v < m => InOrder(vals, v, arg)}
<1>2. 0 \in S
  OBVIOUS
<1>3. ASSUME NEW m \in Nat, m \in S PROVE m + 1 \in S
  <2> SUFFICES ASSUME NEW v \in 1 .. L, NEW arg \in Seq(Nat), v < m + 1
               PROVE  InOrder(vals, v, arg)
    OBVIOUS
  <2>1. v \in 1 .. Len(vals)
    BY <1>1
  <2>2. PICK x \in Nat : x = vals[v].functor
    BY <2>1, ValueOf
  <2>3. PICK ch \in Seq(Nat) : /\ ch = vals[v].children /\ DOMAIN ch = 1 .. Len(ch)
                              /\ \A k \in 1 .. Len(ch) : ch[k] \in 1 .. v - 1
    BY <2>1, ValueOf
  <2>4. PICK res \in Seq(Nat) : res = Append(arg, x)
    <3>1. Append(arg, x) \in Seq(Nat)
      OBVIOUS
    <3> QED
      BY <3>1
  <2>5. PICK l \in Nat : l = Len(ch)
    OBVIOUS
  <2>6. PICK f : f = Run(vals)
    OBVIOUS
  <2> DEFINE seqs == [k \in 1 .. l |-> f[<<ch[k], res>>]]
  <2>7. f[<<v, arg>>] = Joined(<<res>>, seqs)
    <3>1. f[<<v, arg>>] = Called(f, vals, v, arg)
      BY <2>1, <2>6, RunIs
    <3> QED
      BY <2>2, <2>3, <2>4, <2>5, <3>1 DEF Called
  <2>8. ASSUME NEW k \in 1 .. l
        PROVE  \E y \in Nat : Good(f[<<ch[k], res>>], Append(res, y))
    <3>1. PICK u \in 1 .. v - 1 : u = ch[k]
      BY <2>3, <2>5
    <3>2. u \in 1 .. L /\ u < m
      OBVIOUS
    <3>3. InOrder(vals, u, res)
      BY <1>3, <3>2
    <3>4. PICK y \in Nat : y = vals[u].functor
      BY <1>1, <3>2, ValueOf
    <3> QED
      BY <2>6, <3>1, <3>3, <3>4 DEF InOrder
  <2>9. seqs \in Seq(Calls) /\ Len(seqs) = l
    <3>1. \A k \in 1 .. l : f[<<ch[k], res>>] \in Calls
      BY <2>8 DEF Good
    <3> QED
      BY <3>1
  <2>10. \A k \in 1 .. Len(seqs) : \E y \in Nat : Good(seqs[k], Append(res, y))
    BY <2>8, <2>9
  <2>11. \A k \in 1 .. l : seqs[k] = f[<<ch[k], res>>]
    OBVIOUS
  <2> HIDE DEF seqs
  <2>12. /\ Good(Joined(<<res>>, seqs), res)
         /\ All(Joined(<<res>>, seqs)) = {res} \cup UNION {All(seqs[k]) : k \in 1 .. l}
    BY <2>9, <2>10, JoinedGood
  <2>13. \A k \in 1 .. l : All(seqs[k]) = Ways(vals, ch[k], res)
    BY <2>6, <2>11 DEF Ways
  <2>14. UNION {All(seqs[k]) : k \in 1 .. l} = UNION {Ways(vals, ch[k], res) : k \in 1 .. l}
    BY <2>13
  <2>15. Ways(vals, v, arg) = {res} \cup UNION {Ways(vals, ch[k], res) : k \in 1 .. l}
    BY <2>6, <2>7, <2>12, <2>14 DEF Ways
  <2>16. Good(Run(vals)[<<v, arg>>], res)
    BY <2>6, <2>7, <2>12
  <2> QED
    BY <2>2, <2>3, <2>4, <2>5, <2>15, <2>16 DEF InOrder
<1> HIDE DEF S
<1>4. L + 1 \in S
  BY <1>2, <1>3, Induction
<1>5. \A v \in 1 .. L : v < L + 1
  OBVIOUS
<1> QED
  BY <1>1, <1>4, <1>5 DEF S

\* The paths from a value: what it calls when it is called first.
From(vals, v) == Ways(vals, v, <<>>)
After(w, ways) == {w \o u : u \in ways}

\* The results are sequences of functors.
LEMMA WaysAreSeqs ==
  ASSUME NEW vals, Numbered(vals), NEW v \in 1 .. Len(vals), NEW arg \in Seq(Nat)
  PROVE  Ways(vals, v, arg) \subseteq Seq(Nat)
<1>1. PICK c : c = Run(vals)[<<v, arg>>]
  OBVIOUS
<1>2. c \in Calls
  BY <1>1, RunInOrder DEF InOrder, Good
<1>3. \A k \in DOMAIN c : c[k] \in Seq(Nat)
  BY <1>2 DEF Calls
<1> QED
  BY <1>1, <1>3 DEF Ways, All

\* One prefix after another is their concatenation.
LEMMA AfterAfter ==
  ASSUME NEW arg \in Seq(Nat), NEW x \in Nat, NEW W \in SUBSET Seq(Nat)
  PROVE  After(arg, After(<<x>>, W)) = After(Append(arg, x), W)
<1>1. <<x>> \in Seq(Nat) /\ Append(arg, x) = arg \o <<x>>
  OBVIOUS
<1>2. \A w \in W : arg \o (<<x>> \o w) = Append(arg, x) \o w
  <2>1. \A w \in W : (arg \o <<x>>) \o w = arg \o (<<x>> \o w)
    BY <1>1, ConcatAssociative
  <2> QED
    BY <1>1, <2>1
<1>3. After(arg, After(<<x>>, W)) = {arg \o (<<x>> \o w) : w \in W}
  BY DEF After
<1>4. {arg \o (<<x>> \o w) : w \in W} = {Append(arg, x) \o w : w \in W}
  BY <1>2
<1> QED
  BY <1>3, <1>4 DEF After

\* A prefix before a single path.
LEMMA AfterOne ==
  ASSUME NEW arg \in Seq(Nat), NEW x \in Nat
  PROVE  After(arg, {<<x>>}) = {Append(arg, x)}
<1>1. Append(arg, x) = arg \o <<x>>
  OBVIOUS
<1> QED
  BY <1>1 DEF After

\* The paths through some of the children, without and with a prefix.
Over(c, K) == UNION {c[k] : k \in K}
AfterOver(a, c, K) == UNION {After(a, c[k]) : k \in K}

\* A prefix distributes over the children.
LEMMA AfterUnion ==
  ASSUME NEW a, NEW U, NEW K, NEW c
  PROVE  After(a, U \cup Over(c, K)) = After(a, U) \cup AfterOver(a, c, K)
<1>1. ASSUME NEW z \in After(a, U \cup UNION {c[k] : k \in K})
      PROVE  z \in After(a, U) \cup UNION {After(a, c[k]) : k \in K}
  <2>1. PICK u \in U \cup UNION {c[k] : k \in K} : z = a \o u
    BY DEF After
  <2>2. CASE u \in U
    BY <2>1, <2>2 DEF After
  <2>3. ASSUME NEW k \in K, u \in c[k] PROVE z \in After(a, c[k])
    BY <2>1, <2>3 DEF After
  <2> QED
    BY <2>1, <2>2, <2>3
<1>2. ASSUME NEW z \in After(a, U) \cup UNION {After(a, c[k]) : k \in K}
      PROVE  z \in After(a, U \cup UNION {c[k] : k \in K})
  <2>1. CASE z \in After(a, U)
    BY <2>1 DEF After
  <2>2. ASSUME NEW k \in K, z \in After(a, c[k])
        PROVE  z \in After(a, U \cup UNION {c[j] : j \in K})
    <3>1. PICK u \in c[k] : z = a \o u
      BY <2>2 DEF After
    <3>2. u \in U \cup UNION {c[j] : j \in K}
      OBVIOUS
    <3> QED
      BY <3>1, <3>2 DEF After
  <2> QED
    BY <2>1, <2>2
<1> QED
  BY <1>1, <1>2 DEF Over, AfterOver

\* A call with an argument gives the paths from the value, each after the argument.
LEMMA WaysFrom ==
  ASSUME NEW vals, Numbered(vals)
  PROVE  \A v \in 1 .. Len(vals), arg \in Seq(Nat) : Ways(vals, v, arg) = After(arg, From(vals, v))
<1>1. PICK L \in Nat : L = Len(vals)
  BY DEF Numbered
<1> DEFINE S == {m \in Nat : \A v \in 1 .. L, arg \in Seq(Nat) :
                               v < m => Ways(vals, v, arg) = After(arg, From(vals, v))}
<1>2. 0 \in S
  OBVIOUS
<1>3. ASSUME NEW m \in Nat, m \in S PROVE m + 1 \in S
  <2> SUFFICES ASSUME NEW v \in 1 .. L, NEW arg \in Seq(Nat), v < m + 1
               PROVE  Ways(vals, v, arg) = After(arg, From(vals, v))
    OBVIOUS
  <2>1. v \in 1 .. Len(vals)
    BY <1>1
  <2>2. PICK x \in Nat : x = vals[v].functor
    BY <2>1, ValueOf
  <2>3. PICK ch \in Seq(Nat) : /\ ch = vals[v].children
                              /\ \A k \in 1 .. Len(ch) : ch[k] \in 1 .. v - 1
    BY <2>1, ValueOf
  <2>4. PICK l \in Nat : l = Len(ch)
    OBVIOUS
  <2>5. ASSUME NEW a \in Seq(Nat)
        PROVE  Ways(vals, v, a)
                 = {Append(a, x)} \cup UNION {After(Append(a, x), From(vals, ch[k])) : k \in 1 .. l}
    <3>1. PICK res \in Seq(Nat) : res = Append(a, x)
      <4>1. Append(a, x) \in Seq(Nat)
        OBVIOUS
      <4> QED
        BY <4>1
    <3>2. Ways(vals, v, a) = {res} \cup UNION {Ways(vals, ch[k], res) : k \in 1 .. l}
      <4>1. InOrder(vals, v, a)
        BY <2>1, RunInOrder
      <4> QED
        BY <2>2, <2>3, <2>4, <3>1, <4>1 DEF InOrder
    <3>3. ASSUME NEW k \in 1 .. l PROVE ch[k] \in 1 .. L /\ ch[k] < m
      <4>1. PICK u \in 1 .. v - 1 : u = ch[k]
        BY <2>3, <2>4
      <4> QED
        BY <4>1
    <3>4. \A k \in 1 .. l : Ways(vals, ch[k], res) = After(res, From(vals, ch[k]))
      BY <1>3, <3>3
    <3>5. UNION {Ways(vals, ch[k], res) : k \in 1 .. l}
            = UNION {After(res, From(vals, ch[k])) : k \in 1 .. l}
      BY <3>4
    <3> QED
      BY <3>1, <3>2, <3>5
  <2>6. From(vals, v) = {<<x>>} \cup UNION {After(<<x>>, From(vals, ch[k])) : k \in 1 .. l}
    <3>1. <<>> \in Seq(Nat) /\ Append(<<>>, x) = <<x>>
      OBVIOUS
    <3>2. PICK a \in Seq(Nat) : a = <<>> /\ Append(a, x) = <<x>>
      BY <3>1
    <3>3. Ways(vals, v, a)
            = {Append(a, x)} \cup UNION {After(Append(a, x), From(vals, ch[k])) : k \in 1 .. l}
      BY <2>5
    <3> QED
      BY <3>2, <3>3 DEF From
  <2>7. \A k \in 1 .. l : From(vals, ch[k]) \in SUBSET Seq(Nat)
    <3>1. \A k \in 1 .. l : ch[k] \in 1 .. Len(vals)
      BY <1>1, <2>3, <2>4
    <3>2. <<>> \in Seq(Nat)
      OBVIOUS
    <3> QED
      BY <3>1, <3>2, WaysAreSeqs DEF From
  <2>8. \A k \in 1 .. l : After(arg, After(<<x>>, From(vals, ch[k])))
                            = After(Append(arg, x), From(vals, ch[k]))
    <3>1. ASSUME NEW k \in 1 .. l, NEW W \in SUBSET Seq(Nat), W = From(vals, ch[k])
          PROVE  After(arg, After(<<x>>, W)) = After(Append(arg, x), W)
      BY AfterAfter
    <3> QED
      BY <2>7, <3>1
  <2>9. After(arg, {<<x>>}) = {Append(arg, x)}
    BY AfterOne
  <2>10. After(arg, From(vals, v))
           = After(arg, {<<x>>})
             \cup UNION {After(arg, After(<<x>>, From(vals, ch[k]))) : k \in 1 .. l}
    <3> DEFINE c == [k \in 1 .. l |-> After(<<x>>, From(vals, ch[k]))]
    <3>0. \A k \in 1 .. l : c[k] = After(<<x>>, From(vals, ch[k]))
      OBVIOUS
    <3> HIDE DEF c
    <3>1. From(vals, v) = {<<x>>} \cup UNION {c[k] : k \in 1 .. l}
      BY <2>6, <3>0
    <3>2. After(arg, From(vals, v)) = After(arg, {<<x>>}) \cup UNION {After(arg, c[k]) : k \in 1 .. l}
      <4>1. PICK U : U = {<<x>>}
        OBVIOUS
      <4>2. PICK K : K = 1 .. l
        OBVIOUS
      <4>3. After(arg, U \cup Over(c, K)) = After(arg, U) \cup AfterOver(arg, c, K)
        BY AfterUnion
      <4>4. From(vals, v) = U \cup Over(c, K)
        BY <3>1, <4>1, <4>2 DEF Over
      <4>5. AfterOver(arg, c, K) = UNION {After(arg, c[k]) : k \in 1 .. l}
        BY <4>2 DEF AfterOver
      <4> QED
        BY <4>1, <4>3, <4>4, <4>5
    <3>3. \A k \in 1 .. l : After(arg, c[k]) = After(arg, After(<<x>>, From(vals, ch[k])))
      BY <3>0
    <3> QED
      BY <3>2, <3>3
  <2>11. UNION {After(arg, After(<<x>>, From(vals, ch[k]))) : k \in 1 .. l}
           = UNION {After(Append(arg, x), From(vals, ch[k])) : k \in 1 .. l}
    BY <2>8
  <2> QED
    BY <2>5, <2>9, <2>10, <2>11
<1> HIDE DEF S
<1>4. L + 1 \in S
  BY <1>2, <1>3, Induction
<1>5. \A v \in 1 .. L : v < L + 1
  OBVIOUS
<1> QED
  BY <1>1, <1>4, <1>5 DEF S

\* The paths from a value are its functor alone, and its functor followed by the
\* paths from each child.
Below(vals, x, ch) == UNION {After(<<x>>, From(vals, ch[k])) : k \in 1 .. Len(ch)}

\* The equation of the paths from a value.
LEMMA FromIs ==
  ASSUME NEW vals, Numbered(vals), NEW v \in 1 .. Len(vals),
         NEW x, x = vals[v].functor, NEW ch, ch = vals[v].children
  PROVE  From(vals, v) = {<<x>>} \cup Below(vals, x, ch)
<1>1. x \in Nat /\ ch \in Seq(Nat) /\ Len(vals) \in Nat /\ v \in Nat
  BY ValueOf
<1>2. PICK l \in Nat : l = Len(ch)
  BY <1>1
<1>3. <<>> \in Seq(Nat) /\ Append(<<>>, x) = <<x>> /\ <<x>> \in Seq(Nat)
  BY <1>1
<1>4. From(vals, v) = {<<x>>} \cup UNION {Ways(vals, ch[k], <<x>>) : k \in 1 .. l}
  <2>1. InOrder(vals, v, <<>>)
    BY <1>3, RunInOrder
  <2> QED
    BY <1>2, <1>3, <2>1 DEF InOrder, From
<1>5. \A k \in 1 .. l : ch[k] \in 1 .. v - 1
  BY <1>2, ValueOf
<1>6. \A k \in 1 .. l : ch[k] \in 1 .. Len(vals)
  BY <1>1, <1>5
<1>7. \A k \in 1 .. l : Ways(vals, ch[k], <<x>>) = After(<<x>>, From(vals, ch[k]))
  BY <1>3, <1>6, WaysFrom
<1>8. UNION {Ways(vals, ch[k], <<x>>) : k \in 1 .. l}
        = UNION {After(<<x>>, From(vals, ch[k])) : k \in 1 .. l}
  BY <1>7
<1> QED
  BY <1>2, <1>4, <1>8 DEF Below

\* Some paths, which begin with functor x.
Begins(A, x) == A \in SUBSET Seq(Nat) /\ A # {} /\ \A w \in A : w[1] = x

\* The paths from a value begin with its functor.
LEMMA FromBegins ==
  ASSUME NEW vals, Numbered(vals), NEW v \in 1 .. Len(vals)
  PROVE  Begins(From(vals, v), vals[v].functor)
<1>1. PICK x \in Nat : x = vals[v].functor
  BY ValueOf
<1>2. PICK ch \in Seq(Nat) : /\ ch = vals[v].children
                            /\ \A k \in 1 .. Len(ch) : ch[k] \in 1 .. v - 1
  BY ValueOf
<1>3. From(vals, v) = {<<x>>} \cup Below(vals, x, ch)
  BY <1>1, <1>2, FromIs
<1>4. \A u \in 1 .. Len(vals) : From(vals, u) \in SUBSET Seq(Nat)
  <2>1. <<>> \in Seq(Nat)
    OBVIOUS
  <2> QED
    BY <2>1, WaysAreSeqs DEF From
<1>5. \A k \in 1 .. Len(ch) : ch[k] \in 1 .. Len(vals)
  BY <1>2, ValueOf
<1>6. ASSUME NEW k \in 1 .. Len(ch), NEW w \in After(<<x>>, From(vals, ch[k]))
      PROVE  w[1] = x
  <2>1. PICK u \in From(vals, ch[k]) : w = <<x>> \o u
    BY DEF After
  <2>2. u \in Seq(Nat)
    BY <1>4, <1>5
  <2> QED
    BY <2>1, <2>2
<1>7. <<x>>[1] = x
  OBVIOUS
<1>8. \A w \in From(vals, v) : w[1] = x
  BY <1>3, <1>6, <1>7 DEF Below
<1>9. From(vals, v) # {}
  BY <1>3
<1> QED
  BY <1>1, <1>4, <1>8, <1>9 DEF Begins

\* The children are values there are; the paths from the values there were remain.
Among(ch, vals) == \A k \in 1 .. Len(ch) : ch[k] \in 1 .. Len(vals)
Kept(more, vals) ==
  \A v \in 1 .. Len(vals) : more[v] = vals[v] /\ From(more, v) = From(vals, v)

\* A value made or changed is one more value, and leaves the paths from the others.
Grown(vals, value, more) ==
  /\ Numbered(more) /\ Len(more) = Len(vals) + 1 /\ Kept(more, vals)
  /\ more[Len(vals) + 1] = value
  /\ From(more, Len(vals) + 1)
       = {<<value.functor>>} \cup Below(vals, value.functor, value.children)

\* The value that is added has the paths its functor and its children give.
LEMMA FromGrows ==
  ASSUME NEW vals, Numbered(vals), NEW value \in Value, Among(value.children, vals),
         NEW more, more = Append(vals, value)
  PROVE  Grown(vals, value, more)
<1>a. PICK x : x = value.functor
  OBVIOUS
<1>b. PICK ch : ch = value.children
  OBVIOUS
<1>0. x \in Nat /\ ch \in Seq(Nat)
  BY <1>a, <1>b DEF Value
<1>1. PICK L \in Nat : L = Len(vals)
  BY DEF Numbered
<1>2. /\ Len(more) = L + 1 /\ more[L + 1] = value
      /\ \A v \in 1 .. L : more[v] = vals[v]
  BY <1>1 DEF Numbered
<1>3. Numbered(more)
  <2>2. more \in Seq([functor : Nat, children : Seq(Nat)])
    BY DEF Numbered, Value
  <2>3. ASSUME NEW v \in 1 .. L + 1, NEW k \in 1 .. Len(more[v].children)
        PROVE  more[v].children[k] \in 1 .. v - 1
    <3>1. CASE v = L + 1
      <4>1. more[v].children = ch
        BY <1>2, <1>b, <3>1
      <4>2. ch[k] \in 1 .. L
        BY <1>1, <1>b, <4>1 DEF Among
      <4> QED
        BY <3>1, <4>1, <4>2
    <3>2. CASE v # L + 1
      <4>1. v \in 1 .. Len(vals) /\ more[v] = vals[v]
        BY <1>1, <1>2, <3>2
      <4> QED
        BY <4>1 DEF Numbered
    <3> QED
      BY <3>1, <3>2
  <2> QED
    BY <1>2, <2>2, <2>3 DEF Numbered
<1>4. \A v \in 1 .. L : From(more, v) = From(vals, v)
  <2>1. <<>> \in Seq(Nat)
    OBVIOUS
  <2>2. \A v \in 1 .. Len(vals), a \in Seq(Nat) : Run(more)[<<v, a>>] = Run(vals)[<<v, a>>]
    <3>1. Extends(more, vals)
      BY <1>1, <1>2 DEF Extends
    <3> QED
      BY <1>3, <3>1, RunGrows
  <2> QED
    BY <1>1, <2>1, <2>2 DEF From, Ways
<1>5. PICK v \in 1 .. Len(more) : v = L + 1 /\ more[v] = value
  BY <1>2
<1>6. From(more, v) = {<<x>>} \cup Below(more, x, ch)
  <2>1. PICK y : y = more[v].functor
    OBVIOUS
  <2>2. PICK d : d = more[v].children
    OBVIOUS
  <2>3. From(more, v) = {<<y>>} \cup Below(more, y, d)
    BY <1>3, <2>1, <2>2, FromIs, Zenon
  <2>4. x = y /\ d = ch
    BY <1>5, <1>a, <1>b, <2>1, <2>2
  <2> QED
    BY <2>3, <2>4
<1>7. \A k \in 1 .. Len(ch) : From(more, ch[k]) = From(vals, ch[k])
  BY <1>1, <1>4, <1>b DEF Among
<1>8. From(more, v) = {<<x>>} \cup Below(vals, x, ch)
  BY <1>6, <1>7 DEF Below
<1> QED
  BY <1>1, <1>2, <1>3, <1>4, <1>5, <1>8, <1>a, <1>b DEF Kept, Grown

\* A promise just made has one path, its functor.
LEMMA FromNew ==
  ASSUME NEW vals, Numbered(vals), NEW x \in Nat, NEW more, more = Append(vals, Make(x))
  PROVE  /\ Numbered(more) /\ Len(more) = Len(vals) + 1
         /\ Kept(more, vals)
         /\ From(more, Len(vals) + 1) = {<<x>>}
         /\ more[Len(vals) + 1].functor = x
<1>1. PICK ch \in Seq(Nat) : ch = <<>> /\ 1 .. Len(ch) = {}
  <2>1. <<>> \in Seq(Nat) /\ Len(<<>>) = 0 /\ 1 .. 0 = {}
    OBVIOUS
  <2> QED
    BY <2>1
<1>2. PICK value \in Value : /\ value = [functor |-> x, children |-> ch]
                             /\ x = value.functor /\ ch = value.children
  BY ValueIs
<1>3. more = Append(vals, value)
  BY <1>1, <1>2 DEF Make
<1>4. Grown(vals, value, more)
  <2>1. Among(value.children, vals)
    BY <1>1, <1>2 DEF Among
  <2> QED
    BY <1>3, <2>1, FromGrows
<1>5. Below(vals, x, ch) = {}
  BY <1>1 DEF Below
<1>6. value.functor = x
  BY <1>2
<1> QED
  BY <1>2, <1>4, <1>5, <1>6 DEF Grown

\* then adds, to the paths of the promise it is called on, those of what it attaches.
Attaches(vals, v, c, more) ==
  /\ Numbered(more) /\ Len(more) = Len(vals) + 1 /\ Kept(more, vals)
  /\ From(more, Len(vals) + 1) = From(vals, v) \cup After(<<vals[v].functor>>, From(vals, c))
  /\ more[Len(vals) + 1].functor = vals[v].functor

\* What then makes of the promise it is called on.
LEMMA FromAttached ==
  ASSUME NEW vals, Numbered(vals), NEW v \in 1 .. Len(vals), NEW c \in 1 .. Len(vals),
         NEW more, more = Append(vals, [vals[v] EXCEPT !.children = Append(@, c)])
  PROVE  Attaches(vals, v, c, more)
<1>0. PICK x : x = vals[v].functor
  OBVIOUS
<1>1. x \in Nat /\ Len(vals) \in Nat
  BY <1>0, ValueOf
<1>2. PICK old \in Seq(Nat) : /\ old = vals[v].children
                             /\ \A k \in 1 .. Len(old) : old[k] \in 1 .. v - 1
  BY ValueOf
<1>3. PICK l \in Nat : l = Len(old)
  OBVIOUS
<1>4. PICK ch \in Seq(Nat) : ch = Append(old, c)
  <2>1. c \in Nat
    BY <1>1
  <2>2. Append(old, c) \in Seq(Nat)
    BY <2>1
  <2> QED
    BY <2>2
<1>5. Len(ch) = l + 1 /\ ch[l + 1] = c /\ \A k \in 1 .. l : ch[k] = old[k]
  BY <1>1, <1>3, <1>4
<1>6. PICK value \in Value : /\ value = [functor |-> x, children |-> ch]
                             /\ x = value.functor /\ ch = value.children
  BY <1>1, ValueIs
<1>7. [vals[v] EXCEPT !.children = Append(@, c)] = value
  <2>1. vals[v] = [functor |-> x, children |-> old]
    <3>1. PICK val \in Value : val = vals[v]
      BY ValueOf
    <3>2. val = [functor |-> val.functor, children |-> val.children]
      BY DEF Value
    <3> QED
      BY <1>0, <1>2, <3>1, <3>2
  <2>2. PICK old_v : old_v = vals[v] /\ old_v = [functor |-> x, children |-> old]
    BY <2>1
  <2>3. old_v.children = old
    BY <2>2
  <2>4. [old_v EXCEPT !.children = ch] = value
    BY <1>6, <2>2
  <2> QED
    BY <1>4, <2>2, <2>3, <2>4
<1>8. Among(ch, vals)
  <2>1. v - 1 \in Int /\ v - 1 < Len(vals)
    BY <1>1
  <2>2. \A k \in 1 .. l : old[k] \in 1 .. Len(vals)
    <3>1. \A u \in 1 .. v - 1 : u \in 1 .. Len(vals)
      BY <1>1, <2>1
    <3> QED
      BY <1>2, <1>3, <3>1
  <2>3. \A k \in 1 .. Len(ch) : k \in 1 .. l \/ k = l + 1
    BY <1>5
  <2> QED
    BY <1>5, <2>2, <2>3 DEF Among
<1>9. Grown(vals, value, more)
  <2>1. more = Append(vals, value)
    BY <1>7
  <2>2. Among(value.children, vals)
    BY <1>6, <1>8
  <2> QED
    BY <2>1, <2>2, FromGrows
<1>10. From(vals, v) = {<<x>>} \cup Below(vals, x, old)
  BY <1>0, <1>2, FromIs
<1>11. Below(vals, x, ch)
         = Below(vals, x, old) \cup After(<<x>>, From(vals, c))
  <2>1. \A k \in 1 .. Len(ch) : k \in 1 .. l \/ k = l + 1
    BY <1>5
  <2>2. l + 1 \in 1 .. Len(ch) /\ \A k \in 1 .. l : k \in 1 .. Len(ch)
    BY <1>5
  <2> DEFINE C(u) == After(<<x>>, From(vals, u))
  <2> HIDE DEF C
  <2>3. UNION {C(ch[k]) : k \in 1 .. Len(ch)} = (UNION {C(old[k]) : k \in 1 .. l}) \cup C(c)
    BY <1>5, <2>1, <2>2
  <2> QED
    BY <1>3, <2>3 DEF C, Below
<1>12. value.functor = x
  BY <1>6
<1> QED
  BY <1>0, <1>6, <1>9, <1>10, <1>11, <1>12 DEF Grown, Attaches

-----------------------------------------------------------------------------
\* What the history says was attached is well defined, and later calls of then do
\* not change it.

\* w is one of the paths of variable p, where a is what p was made with.
OnPath(f, h, p, t, a, w) ==
  \/ w \in a
  \/ \E e \in p .. t : h[e].on = p /\ w \in After(<<Functor(a)>>, f[e])

\* Paths, in terms of the single path.
LEMMA PathsIs ==
  ASSUME NEW f, NEW h, NEW p, NEW t, NEW w, NEW a, a = f[p - 1]
  PROVE  w \in Paths(f, h, p, t) <=> OnPath(f, h, p, t, a, w)
<1> DEFINE C(e) == {<<Functor(a)>> \o u : u \in f[e]}
<1>1. Paths(f, h, p, t) = a \cup UNION {C(e) : e \in {i \in p .. t : h[i].on = p}}
  BY DEF Paths
<1>2. \A e : After(<<Functor(a)>>, f[e]) = C(e)
  BY DEF After
<1> HIDE DEF C
<1> QED
  BY <1>1, <1>2 DEF OnPath

\* Two histories and what they say was attached agree up to call t.
Agree(f, g, h, k, t) == (\A i \in 0 .. t : f[i] = g[i]) /\ \A i \in 1 .. t : h[i] = k[i]

\* Paths depends on no more than that.
LEMMA PathsAgree ==
  ASSUME NEW t \in Nat, NEW f, NEW g, NEW h, NEW k, Agree(f, g, h, k, t), NEW p \in 1 .. t + 1
  PROVE  Paths(f, h, p, t) = Paths(g, k, p, t)
<1>1. f[p - 1] = g[p - 1]
  BY DEF Agree
<1>2. \A e \in p .. t : h[e] = k[e] /\ f[e] = g[e]
  BY DEF Agree
<1>3. PICK a : a = f[p - 1]
  OBVIOUS
<1>4. ASSUME NEW w PROVE w \in Paths(f, h, p, t) <=> w \in Paths(g, k, p, t)
  <2>1. w \in Paths(f, h, p, t) <=> OnPath(f, h, p, t, a, w)
    BY <1>3, PathsIs
  <2>2. w \in Paths(g, k, p, t) <=> OnPath(g, k, p, t, a, w)
    <3>1. a = g[p - 1]
      BY <1>1, <1>3
    <3> QED
      BY <3>1, PathsIs
  <2> QED
    BY <1>2, <2>1, <2>2 DEF OnPath
<1> QED
  BY <1>4

\* What the last call r of the history k adds to the paths of variable p, which were
\* those of h; a is what p was made with.
Adds(f, g, h, k, p, t, r, a) ==
  /\ k[r].on = p => Paths(g, k, p, r) = Paths(f, h, p, t) \cup After(<<Functor(a)>>, g[r])
  /\ k[r].on # p => Paths(g, k, p, r) = Paths(f, h, p, t)

\* One more call of then adds to the paths of the variable it is called on.
LEMMA PathsGrow ==
  ASSUME NEW t \in Nat, NEW f, NEW g, NEW h, NEW k, Agree(f, g, h, k, t), NEW p \in 1 .. t + 1,
         NEW r \in Nat, r = t + 1, NEW a, a = f[p - 1]
  PROVE  Adds(f, g, h, k, p, t, r, a)
<1>1. f[p - 1] = g[p - 1]
  BY DEF Agree
<1>2. \A e \in p .. t : h[e] = k[e] /\ f[e] = g[e]
  BY DEF Agree
<1>4. \A e \in p .. t + 1 : e \in p .. t \/ e = t + 1
  OBVIOUS
<1>5. t + 1 \in p .. t + 1 /\ \A e \in p .. t : e \in p .. t + 1
  OBVIOUS
<1>7. ASSUME NEW w
      PROVE  w \in Paths(g, k, p, r) <=>
               \/ w \in Paths(f, h, p, t)
               \/ k[r].on = p /\ w \in After(<<Functor(a)>>, g[r])
  <2>1. w \in Paths(f, h, p, t) <=> OnPath(f, h, p, t, a, w)
    BY PathsIs
  <2>2. w \in Paths(g, k, p, r) <=> OnPath(g, k, p, r, a, w)
    <3>1. a = g[p - 1]
      BY <1>1
    <3> QED
      BY <3>1, PathsIs
  <2> QED
    BY <1>2, <1>4, <1>5, <2>1, <2>2 DEF OnPath
<1> QED
  BY <1>7 DEF Adds

\* A history: each call is on a variable there is, and attaches one or a new one.
Logged(h) ==
  /\ h \in Seq([on : Nat, child : Nat])
  /\ \A e \in 1 .. Len(h) : h[e].on \in 1 .. e /\ h[e].child \in 1 .. e + 1

\* What call e of then attached, given what the calls before it did.
Entry(f, h, e) ==
  IF e = 0 THEN {<<1>>}
  ELSE IF h[e].child = e + 1 THEN {<<e + 1>>}
  ELSE Paths(f, h, h[e].child, e - 1)

\* Two histories agree on the calls before e and on what these attached.
SameBefore(f, g, h, k, e) ==
  \A i \in 0 .. e : i < e => f[i] = g[i] /\ (i > 0 => h[i] = k[i])

\* What a call attached depends on the calls before it only.
LEMMA EntryAgrees ==
  ASSUME NEW h, Logged(h), NEW e \in 0 .. Len(h), NEW f, NEW g, NEW k, k[e] = h[e],
         SameBefore(f, g, h, k, e)
  PROVE  Entry(f, h, e) = Entry(g, k, e)
<1>0. Len(h) \in Nat /\ e \in Nat
  BY DEF Logged
<1>1. CASE e = 0
  BY <1>1 DEF Entry
<1>2. CASE e # 0 /\ h[e].child = e + 1
  BY <1>2 DEF Entry
<1>3. CASE e # 0 /\ h[e].child # e + 1
  <2>1. PICK t \in Nat : t = e - 1 /\ e = t + 1
    BY <1>0, <1>3
  <2>2. PICK p \in 1 .. t + 1 : p = h[e].child
    BY <1>0, <1>3, <2>1 DEF Logged
  <2>3. Agree(f, g, h, k, t)
    <3>1. \A i \in 0 .. t : i \in 0 .. e /\ i < e
      BY <2>1
    <3>2. \A i \in 1 .. t : i \in 0 .. t /\ i > 0
      OBVIOUS
    <3> QED
      BY <3>1, <3>2 DEF Agree, SameBefore
  <2>4. Paths(f, h, p, t) = Paths(g, k, p, t)
    BY <2>3, PathsAgree
  <2> QED
    BY <1>3, <2>1, <2>2, <2>4 DEF Entry
<1> QED
  BY <1>1, <1>2, <1>3

\* The equation of Attached.
IsAttached(f, h) == f = [e \in 0 .. Len(h) |-> Entry(f, h, e)]

\* The equation has a solution, since each entry refers to earlier ones.
LEMMA AttachedExists ==
  ASSUME NEW h, Logged(h)
  PROVE  \E f : IsAttached(f, h)
<1>1. PICK L \in Nat : L = Len(h)
  BY DEF Logged
<1> DEFINE Upto(g, m) == \A e \in 0 .. L : e < m => g[e] = Entry(g, h, e)
           S == {m \in Nat : \E g : Upto(g, m)}
<1>2. 0 \in S
  OBVIOUS
<1>3. ASSUME NEW m \in Nat, m \in S PROVE m + 1 \in S
  <2>1. PICK g : Upto(g, m)
    BY <1>3
  <2> DEFINE f == [e \in Nat |-> IF e < m THEN g[e] ELSE Entry(g, h, e)]
  <2>2. \A e \in Nat : f[e] = IF e < m THEN g[e] ELSE Entry(g, h, e)
    OBVIOUS
  <2> HIDE DEF f
  <2>3. ASSUME NEW e \in 0 .. L, e < m + 1 PROVE f[e] = Entry(f, h, e)
    <3>1. f[e] = Entry(g, h, e)
      BY <2>1, <2>2, <2>3
    <3>2. SameBefore(g, f, h, h, e)
      BY <2>2, <2>3 DEF SameBefore
    <3>3. e \in 0 .. Len(h) /\ h[e] = h[e]
      BY <1>1
    <3>4. Entry(g, h, e) = Entry(f, h, e)
      BY <3>2, <3>3, EntryAgrees
    <3> QED
      BY <3>1, <3>4
  <2>4. Upto(f, m + 1)
    BY <2>3
  <2>5. \E g2 : Upto(g2, m + 1)
    BY <2>4
  <2> QED
    BY <2>5
<1> HIDE DEF S
<1>4. L + 1 \in S
  BY <1>2, <1>3, Induction
<1>5. PICK g : Upto(g, L + 1)
  BY <1>4 DEF S
<1> DEFINE f == [e \in 0 .. L |-> g[e]]
<1>6. \A e \in 0 .. L : f[e] = g[e]
  OBVIOUS
<1> HIDE DEF f
<1>7. ASSUME NEW e \in 0 .. L PROVE g[e] = Entry(f, h, e)
  <2>1. g[e] = Entry(g, h, e)
    BY <1>5
  <2>2. SameBefore(g, f, h, h, e)
    BY <1>6 DEF SameBefore
  <2>3. e \in 0 .. Len(h) /\ h[e] = h[e]
    BY <1>1
  <2>4. Entry(g, h, e) = Entry(f, h, e)
    BY <2>2, <2>3, EntryAgrees
  <2> QED
    BY <2>1, <2>4
<1>8. f = [e \in 0 .. L |-> Entry(f, h, e)]
  BY <1>7 DEF f
<1> QED
  BY <1>1, <1>8 DEF IsAttached

\* Attached satisfies its equation.
LEMMA AttachedIs ==
  ASSUME NEW h, Logged(h), NEW e \in 0 .. Len(h)
  PROVE  Attached(h)[e] = Entry(Attached(h), h, e)
<1>1. Attached(h) = CHOOSE f : IsAttached(f, h)
  BY DEF Attached, IsAttached, Entry
<1>2. IsAttached(Attached(h), h)
  BY <1>1, AttachedExists
<1> QED
  BY <1>2 DEF IsAttached

\* One more call of then does not change what the earlier ones attached.
LEMMA AttachedGrows ==
  ASSUME NEW h, Logged(h), NEW k, Logged(k), Extends(k, h)
  PROVE  \A e \in 0 .. Len(h) : Attached(k)[e] = Attached(h)[e]
<1>1. PICK L \in Nat : L = Len(h)
  BY DEF Logged
<1>2. PICK M \in Nat : M = Len(k) /\ L <= M
  BY <1>1 DEF Logged, Extends
<1>3. PICK f : f = Attached(h)
  OBVIOUS
<1>4. PICK g : g = Attached(k)
  OBVIOUS
<1>5. \A e \in 0 .. L : f[e] = Entry(f, h, e) /\ g[e] = Entry(g, k, e)
  <2>1. \A e \in 0 .. L : e \in 0 .. Len(h) /\ e \in 0 .. Len(k)
    BY <1>1, <1>2
  <2> QED
    BY <1>3, <1>4, <2>1, AttachedIs
<1>6. \A e \in 1 .. L : h[e] = k[e]
  BY <1>1 DEF Extends
<1> DEFINE S == {m \in Nat : \A e \in 0 .. L : e < m => f[e] = g[e]}
<1>7. 0 \in S
  OBVIOUS
<1>8. ASSUME NEW m \in Nat, m \in S PROVE m + 1 \in S
  <2> SUFFICES ASSUME NEW e \in 0 .. L, e < m + 1 PROVE f[e] = g[e]
    OBVIOUS
  <2>1. CASE e = 0
    <3>1. Entry(f, h, 0) = Entry(g, k, 0)
      BY DEF Entry
    <3> QED
      BY <1>5, <2>1, <3>1
  <2>2. CASE e # 0
    <3>1. e \in 0 .. Len(h) /\ k[e] = h[e]
      BY <1>1, <1>6, <2>2
    <3>2. SameBefore(f, g, h, k, e)
      BY <1>6, <1>8 DEF SameBefore
    <3>3. Entry(f, h, e) = Entry(g, k, e)
      BY <3>1, <3>2, EntryAgrees
    <3> QED
      BY <1>5, <3>3
  <2> QED
    BY <2>1, <2>2
<1> HIDE DEF S
<1>9. L + 1 \in S
  BY <1>7, <1>8, Induction
<1>10. \A e \in 0 .. L : e < L + 1
  OBVIOUS
<1> QED
  BY <1>1, <1>3, <1>4, <1>9, <1>10 DEF S

-----------------------------------------------------------------------------
\* Functor gives the functor that some paths begin with.
LEMMA FunctorIs ==
  ASSUME NEW A, NEW x, Begins(A, x)
  PROVE  Functor(A) = x
<1>1. (CHOOSE w \in A : TRUE) \in A
  BY DEF Begins
<1> QED
  BY <1>1 DEF Begins, Functor

\* Variable p, of those in proms, is as the history h says.
AsLogged(vals, proms, h, p) ==
  /\ proms[p] \in 1 .. Len(vals)
  /\ Begins(Attached(h)[p - 1], vals[proms[p]].functor)
  /\ From(vals, proms[p]) = Paths(Attached(h), h, p, Len(h))

\* The invariant: every variable is as the history says.
Holds(vals, proms, h) ==
  /\ Numbered(vals)
  /\ proms \in Seq(Nat)
  /\ Logged(h)
  /\ Len(proms) = Len(h) + 1
  /\ \A p \in 1 .. Len(proms) : AsLogged(vals, proms, h, p)

\* The numbers after one more variable.
LEMMA OneMore ==
  ASSUME NEW V \in Nat
  PROVE  V + 1 \in 1 .. V + 1 /\ \A i \in 1 .. V : i \in 1 .. V + 1
OBVIOUS

\* The history k is h and a call of then; the variables next are proms after one.
Logs(h, on, child, k) ==
  /\ Logged(k) /\ Extends(k, h) /\ Len(k) = Len(h) + 1
  /\ k[Len(k)].on = on /\ k[Len(k)].child = child

Assigns(proms, on, u, c, next) ==
  /\ next \in Seq(Nat) /\ Len(next) = Len(proms) + 1
  /\ next[Len(proms) + 1] = c /\ next[on] = u
  /\ \A p \in 1 .. Len(proms) : p # on => next[p] = proms[p]

\* Which variable has which value after a call of then.
LEMMA AssignsIs ==
  ASSUME NEW proms \in Seq(Nat), NEW on \in 1 .. Len(proms), NEW u \in Nat, NEW c \in Nat
  PROVE  Assigns(proms, on, u, c, Append([proms EXCEPT ![on] = u], c))
<1>1. PICK d : d = [proms EXCEPT ![on] = u]
  OBVIOUS
<1>2. d \in Seq(Nat) /\ Len(d) = Len(proms) /\ d[on] = u
  BY <1>1
<1>3. \A p \in 1 .. Len(proms) : p # on => d[p] = proms[p]
  BY <1>1
<1>4. PICK next : next = Append(d, c)
  OBVIOUS
<1>5. next \in Seq(Nat) /\ Len(next) = Len(d) + 1 /\ next[Len(d) + 1] = c
  <2>1. \A e \in Seq(Nat) : Append(e, c) \in Seq(Nat) /\ Len(Append(e, c)) = Len(e) + 1
                            /\ Append(e, c)[Len(e) + 1] = c
    OBVIOUS
  <2> QED
    BY <1>2, <1>4, <2>1
<1>6. \A p \in 1 .. Len(d) : next[p] = d[p]
  BY <1>2, <1>4
<1> QED
  BY <1>1, <1>2, <1>3, <1>4, <1>5, <1>6 DEF Assigns

\* A call of then on variable on, which attaches value c of vals, where vals has the
\* values there were and perhaps the new one, and the history knows the paths from c.
LEMMA AttachHolds ==
  ASSUME NEW old, NEW proms, NEW h, Holds(old, proms, h),
         NEW vals, Numbered(vals), Extends(vals, old), Kept(vals, old),
         NEW on \in 1 .. Len(proms), NEW c \in 1 .. Len(vals),
         NEW more, Attaches(vals, proms[on], c, more),
         NEW next, Assigns(proms, on, Len(vals) + 1, c, next),
         NEW k, NEW child, Logs(h, on, child, k), Attached(k)[Len(k)] = From(vals, c)
  PROVE  Holds(more, next, k)
<1>1. PICK t \in Nat : t = Len(h)
  BY DEF Holds, Logged
<1>2. PICK r \in Nat : r = t + 1 /\ Len(k) = r /\ Len(proms) = r
  BY <1>1 DEF Holds, Logs
<1>3. PICK V \in Nat : V = Len(vals)
  BY DEF Numbered
<1>4. PICK O \in Nat : O = Len(old) /\ O <= V
  <2>1. Numbered(old)
    BY DEF Holds
  <2>2. Len(old) \in Nat
    BY <2>1 DEF Numbered
  <2>3. Len(old) <= Len(vals)
    BY DEF Extends
  <2> QED
    BY <1>3, <2>2, <2>3
<1>5. proms \in Seq(Nat) /\ DOMAIN proms = 1 .. r
  <2>1. proms \in Seq(Nat)
    BY DEF Holds
  <2> QED
    BY <1>2, <2>1
<1>6. \A p \in 1 .. r : /\ AsLogged(old, proms, h, p)
                        /\ proms[p] \in 1 .. O /\ proms[p] \in 1 .. V
  <2>1. \A p \in 1 .. r : AsLogged(old, proms, h, p)
    BY <1>2 DEF Holds
  <2>2. \A p \in 1 .. r : proms[p] \in 1 .. O
    BY <1>4, <2>1 DEF AsLogged
  <2>3. \A i \in 1 .. O : i \in 1 .. V
    BY <1>4
  <2> QED
    BY <2>1, <2>2, <2>3
<1>7. \A i \in 1 .. O : vals[i] = old[i] /\ From(vals, i) = From(old, i)
  BY <1>4 DEF Kept
<1>8. PICK v \in 1 .. Len(vals) : v = proms[on]
  BY <1>2, <1>3, <1>6
<1>9. PICK x : x = vals[v].functor
  OBVIOUS
<1>10. /\ Numbered(more) /\ Len(more) = V + 1 /\ Kept(more, vals)
       /\ From(more, V + 1) = From(vals, v) \cup After(<<x>>, From(vals, c))
       /\ more[V + 1].functor = x
  BY <1>3, <1>8, <1>9 DEF Attaches
<1>11. \A i \in 1 .. V : more[i] = vals[i] /\ From(more, i) = From(vals, i)
  BY <1>3, <1>10 DEF Kept
<1>12. /\ next \in Seq(Nat) /\ Len(next) = r + 1
       /\ next[r + 1] = c /\ next[on] = V + 1
       /\ \A p \in 1 .. r : p # on => next[p] = proms[p]
  BY <1>2, <1>3 DEF Assigns
<1>13. PICK f : f = Attached(h)
  OBVIOUS
<1>14. PICK g : g = Attached(k)
  OBVIOUS
<1>15. Agree(f, g, h, k, t)
  <2>1. Logged(h) /\ Logged(k) /\ Extends(k, h)
    BY DEF Holds, Logs
  <2>2. \A e \in 0 .. Len(h) : g[e] = f[e]
    BY <1>13, <1>14, <2>1, AttachedGrows
  <2> QED
    BY <1>1, <2>1, <2>2 DEF Agree, Extends
<1>16. g[r] = From(vals, c) /\ k[r].on = on
  BY <1>2, <1>14 DEF Logs
<1>17. ASSUME NEW p \in 1 .. r
       PROVE  /\ Begins(f[p - 1], old[proms[p]].functor) /\ g[p - 1] = f[p - 1]
              /\ From(old, proms[p]) = Paths(f, h, p, t)
              /\ on = p => Paths(g, k, p, r) = Paths(f, h, p, t) \cup After(<<Functor(f[p - 1])>>, g[r])
              /\ on # p => Paths(g, k, p, r) = Paths(f, h, p, t)
  <2>1. Begins(f[p - 1], old[proms[p]].functor) /\ From(old, proms[p]) = Paths(f, h, p, t)
    BY <1>1, <1>6, <1>13 DEF AsLogged
  <2>2. p \in 1 .. t + 1
    BY <1>2
  <2>3. PICK a : a = f[p - 1]
    OBVIOUS
  <2>4. Adds(f, g, h, k, p, t, r, a)
    <3>1. r = t + 1
      BY <1>2
    <3> QED
      BY <1>15, <2>2, <2>3, <3>1, PathsGrow
  <2>5. g[p - 1] = f[p - 1]
    <3>1. p - 1 \in 0 .. t
      BY <2>2
    <3> QED
      BY <1>15, <3>1 DEF Agree
  <2> QED
    BY <1>16, <2>1, <2>3, <2>4, <2>5 DEF Adds
<1>18. ASSUME NEW p \in 1 .. r, p # on PROVE AsLogged(more, next, k, p)
  <2>1. PICK i \in 1 .. O : i = proms[p] /\ i = next[p] /\ i \in 1 .. V
    BY <1>6, <1>12, <1>18
  <2>2. more[i] = old[i] /\ From(more, i) = From(old, i)
    BY <1>7, <1>11, <2>1
  <2>3. i \in 1 .. Len(more)
    BY <1>10, <2>1, OneMore
  <2>4. Begins(g[p - 1], more[i].functor) /\ From(more, i) = Paths(g, k, p, r)
    BY <1>17, <1>18, <2>1, <2>2
  <2>5. next[p] = i
    BY <2>1
  <2> QED
    BY <1>2, <1>14, <2>3, <2>4, <2>5 DEF AsLogged
<1>19. AsLogged(more, next, k, on)
  <2>0. on \in 1 .. r
    BY <1>2
  <2>1. PICK i \in 1 .. O : i = proms[on] /\ i \in 1 .. V /\ i = v
    BY <1>6, <1>8, <2>0
  <2>2. vals[i] = old[i] /\ From(vals, i) = From(old, i) /\ x = old[i].functor
    BY <1>7, <1>9, <2>1
  <2>3. PICK A : A = f[on - 1]
    OBVIOUS
  <2>4. Begins(A, x) /\ g[on - 1] = A
    BY <1>17, <2>0, <2>1, <2>2, <2>3
  <2>5. Functor(A) = x
    BY <2>4, FunctorIs
  <2>6. Paths(g, k, on, r) = From(old, i) \cup After(<<x>>, From(vals, c))
    BY <1>16, <1>17, <2>0, <2>1, <2>3, <2>5
  <2>7. From(more, V + 1) = Paths(g, k, on, r)
    BY <1>10, <2>1, <2>2, <2>6
  <2>8. V + 1 \in 1 .. Len(more)
    BY <1>10, OneMore
  <2> QED
    BY <1>2, <1>10, <1>12, <1>14, <2>4, <2>7, <2>8 DEF AsLogged
<1>20. AsLogged(more, next, k, r + 1)
  <2>1. c \in 1 .. V /\ c \in 1 .. Len(more)
    <3>1. c \in 1 .. V
      BY <1>3
    <3> QED
      BY <1>10, <3>1, OneMore
  <2>2. more[c] = vals[c] /\ From(more, c) = From(vals, c)
    BY <1>11, <2>1
  <2>3. Begins(g[r], vals[c].functor)
    BY <1>16, FromBegins
  <2>4. ASSUME NEW w PROVE w \in Paths(g, k, r + 1, r) <=> w \in g[r]
    <3>1. PICK q \in Nat : q = r + 1 /\ q - 1 = r /\ q .. r = {}
      OBVIOUS
    <3>2. w \in Paths(g, k, q, r) <=> OnPath(g, k, q, r, g[r], w)
      BY <3>1, PathsIs
    <3>3. OnPath(g, k, q, r, g[r], w) <=> w \in g[r]
      BY <3>1 DEF OnPath
    <3> QED
      BY <3>1, <3>2, <3>3
  <2>5. Paths(g, k, r + 1, r) = g[r]
    BY <2>4
  <2>6. (r + 1) - 1 = r
    OBVIOUS
  <2> QED
    BY <1>2, <1>12, <1>14, <1>16, <2>1, <2>2, <2>3, <2>5, <2>6 DEF AsLogged
<1>21. \A p \in 1 .. Len(next) : AsLogged(more, next, k, p)
  <2>1. \A p \in 1 .. Len(next) : p \in 1 .. r \/ p = r + 1
    BY <1>12
  <2> QED
    BY <1>18, <1>19, <1>20, <2>1
<1>22. Logged(k) /\ Len(next) = Len(k) + 1
  BY <1>2, <1>12 DEF Logs
<1> QED
  BY <1>10, <1>12, <1>21, <1>22 DEF Holds

\* The history after a call of then is one.
LEMMA LogsIs ==
  ASSUME NEW h, Logged(h), NEW on \in 1 .. Len(h) + 1, NEW child \in 1 .. Len(h) + 2,
         NEW k, k = Append(h, [on |-> on, child |-> child])
  PROVE  Logs(h, on, child, k)
<1>1. PICK t \in Nat : t = Len(h)
  BY DEF Logged
<1>2. PICK T : T = [on : Nat, child : Nat]
  OBVIOUS
<1>3. h \in Seq(T)
  BY <1>2 DEF Logged
<1>4. PICK r : r = [on |-> on, child |-> child]
  OBVIOUS
<1>5. r \in T /\ r.on = on /\ r.child = child
  BY <1>1, <1>2, <1>4
<1>6. k = Append(h, r)
  BY <1>4
<1>7. /\ k \in Seq(T) /\ Len(k) = t + 1 /\ k[t + 1] = r
      /\ \A e \in 1 .. t : k[e] = h[e]
  BY <1>1, <1>3, <1>5, <1>6
<1>8. ASSUME NEW e \in 1 .. t + 1 PROVE k[e].on \in 1 .. e /\ k[e].child \in 1 .. e + 1
  <2>1. CASE e = t + 1
    BY <1>1, <1>5, <1>7, <2>1
  <2>2. CASE e # t + 1
    <3>1. e \in 1 .. Len(h) /\ k[e] = h[e]
      BY <1>1, <1>7, <2>2
    <3> QED
      BY <3>1 DEF Logged
  <2> QED
    BY <2>1, <2>2
<1>9. Logged(k)
  BY <1>2, <1>7, <1>8 DEF Logged
<1> QED
  BY <1>1, <1>5, <1>7, <1>9 DEF Logs, Extends

\* The invariant holds of the first promise.
LEMMA PromiseStarts == PromiseInit => Holds(values, promises, log)
<1> SUFFICES ASSUME PromiseInit PROVE Holds(values, promises, log)
  OBVIOUS
<1>1. PICK none : none = <<>>
  OBVIOUS
<1>2. Numbered(none) /\ Len(none) = 0
  BY <1>1 DEF Numbered
<1>3. values = Append(none, Make(1))
  BY <1>1 DEF PromiseInit
<1>4. /\ Numbered(values) /\ Len(values) = 1 /\ From(values, 1) = {<<1>>}
      /\ values[1].functor = 1
  <2>0. PICK x \in Nat : x = 1
    OBVIOUS
  <2>a. PICK vals : vals = Append(none, Make(x))
    OBVIOUS
  <2>b. /\ Numbered(vals) /\ Len(vals) = Len(none) + 1
        /\ From(vals, Len(none) + 1) = {<<x>>} /\ vals[Len(none) + 1].functor = x
    <3>1. Numbered(none)
      BY <1>2
    <3> QED
      BY <2>a, <3>1, FromNew
  <2>1. /\ Numbered(values) /\ Len(values) = Len(none) + 1
        /\ From(values, Len(none) + 1) = {<<1>>} /\ values[Len(none) + 1].functor = 1
    BY <1>3, <2>0, <2>a, <2>b
  <2>2. Len(none) + 1 = 1
    BY <1>2
  <2> QED
    BY <2>1, <2>2
<1>5. log \in Seq([on : Nat, child : Nat]) /\ Len(log) = 0 /\ Logged(log)
  BY DEF PromiseInit, Logged
<1>6. promises \in Seq(Nat) /\ Len(promises) = 1 /\ promises[1] = 1
  BY DEF PromiseInit
<1>7. PICK g : g = Attached(log)
  OBVIOUS
<1>8. g[0] = {<<1>>}
  <2>1. g[0] = Entry(g, log, 0)
    BY <1>5, <1>7, AttachedIs
  <2> QED
    BY <2>1 DEF Entry
<1>9. Begins(g[0], 1)
  <2>1. <<1>> \in Seq(Nat) /\ <<1>>[1] = 1
    OBVIOUS
  <2> QED
    BY <1>8, <2>1 DEF Begins
<1>10. Paths(g, log, 1, 0) = g[0]
  <2>1. 1 - 1 = 0 /\ 1 .. 0 = {}
    OBVIOUS
  <2>2. ASSUME NEW w PROVE w \in Paths(g, log, 1, 0) <=> w \in g[0]
    <3>1. w \in Paths(g, log, 1, 0) <=> OnPath(g, log, 1, 0, g[0], w)
      BY <2>1, PathsIs
    <3> QED
      BY <2>1, <3>1 DEF OnPath
  <2> QED
    BY <2>2
<1>11. AsLogged(values, promises, log, 1)
  <2>1. 1 - 1 = 0
    OBVIOUS
  <2>2. 1 \in 1 .. 1
    OBVIOUS
  <2>3. promises[1] \in 1 .. Len(values)
    BY <1>4, <1>6, <2>2
  <2>4. Begins(Attached(log)[1 - 1], values[promises[1]].functor)
    BY <1>4, <1>6, <1>7, <1>9, <2>1
  <2>5. From(values, promises[1]) = Paths(Attached(log), log, 1, Len(log))
    BY <1>4, <1>5, <1>6, <1>7, <1>8, <1>10
  <2> QED
    BY <2>3, <2>4, <2>5 DEF AsLogged
<1>12. \A p \in 1 .. 1 : p = 1
  OBVIOUS
<1> QED
  BY <1>4, <1>5, <1>6, <1>11, <1>12 DEF Holds

\* then(Runnable) preserves the invariant: the new promise has one path.
LEMMA RunnableHolds ==
  ASSUME Holds(values, promises, log), NEW on \in DOMAIN promises, thenRunnable(on)
  PROVE  Holds(values, promises, log)'
<1>1. PICK old : old = values
  OBVIOUS
<1>2. PICK proms \in Seq(Nat) : proms = promises
  BY DEF Holds
<1>3. PICK h : h = log
  OBVIOUS
<1>4. PICK more : more = values'
  OBVIOUS
<1>5. PICK next : next = promises'
  OBVIOUS
<1>6. PICK k : k = log'
  OBVIOUS
<1>7. Holds(old, proms, h)
  BY <1>1, <1>2, <1>3
<1>8. PICK t \in Nat : t = Len(h) /\ Len(proms) = t + 1
  <2>1. Logged(h) /\ Len(proms) = Len(h) + 1
    BY <1>7 DEF Holds
  <2>2. Len(h) \in Nat
    BY <2>1 DEF Logged
  <2> QED
    BY <2>1, <2>2
<1>9. on \in 1 .. t + 1 /\ on \in 1 .. Len(proms)
  BY <1>2, <1>8
<1>10. PICK new \in Nat : new = t + 2 /\ new = New
  BY <1>2, <1>8 DEF New
<1>11. PICK vals : vals = Append(old, Make(new))
  OBVIOUS
<1>12. PICK O \in Nat : O = Len(old)
  BY <1>7 DEF Holds, Numbered
<1>13. /\ Numbered(vals) /\ Len(vals) = O + 1 /\ Kept(vals, old)
       /\ From(vals, O + 1) = {<<new>>}
  BY <1>7, <1>11, <1>12, FromNew DEF Holds
<1>14. PICK c \in 1 .. Len(vals) : c = O + 1
  BY <1>13
<1>15. PICK v \in 1 .. Len(vals) : v = proms[on] /\ vals[v] = old[v]
  <2>1. proms[on] \in 1 .. O
    BY <1>7, <1>9, <1>12 DEF Holds, AsLogged
  <2> QED
    BY <1>12, <1>13, <2>1 DEF Kept
<1>16. Attaches(vals, proms[on], c, more)
  <2>1. more = Append(vals, [old[v] EXCEPT !.children = Append(@, c)])
    BY <1>1, <1>2, <1>4, <1>10, <1>11, <1>12, <1>14, <1>15 DEF thenRunnable, Attach
  <2>2. more = Append(vals, [vals[v] EXCEPT !.children = Append(@, c)])
    BY <1>15, <2>1
  <2> QED
    BY <1>13, <1>15, <2>2, FromAttached
<1>17. Assigns(proms, on, Len(vals) + 1, c, next)
  <2>1. PICK u \in Nat : u = Len(vals) + 1
    BY <1>13
  <2>2. c \in Nat
    BY <1>13
  <2>3. next = Append([proms EXCEPT ![on] = u], c)
    BY <1>1, <1>2, <1>5, <1>10, <1>11, <1>12, <1>14, <2>1 DEF thenRunnable, Attach
  <2>4. Assigns(proms, on, u, c, Append([proms EXCEPT ![on] = u], c))
    BY <1>9, <2>2, AssignsIs
  <2> QED
    BY <2>1, <2>3, <2>4
<1>18. Logs(h, on, new, k)
  <2>1. k = Append(h, [on |-> on, child |-> new])
    BY <1>3, <1>6, <1>10 DEF thenRunnable
  <2>2. on \in 1 .. Len(h) + 1 /\ new \in 1 .. Len(h) + 2
    BY <1>8, <1>9, <1>10
  <2> QED
    BY <1>7, <2>1, <2>2, LogsIs DEF Holds
<1>19. Attached(k)[Len(k)] = From(vals, c)
  <2>1. PICK r \in Nat : r = t + 1 /\ r = Len(k) /\ new = r + 1
    BY <1>8, <1>10, <1>18 DEF Logs
  <2>2. r \in 0 .. Len(k) /\ k[r].child = new /\ Logged(k)
    BY <1>18, <2>1 DEF Logs
  <2>3. Attached(k)[r] = Entry(Attached(k), k, r)
    BY <2>2, AttachedIs
  <2>4. Entry(Attached(k), k, r) = {<<new>>}
    BY <2>1, <2>2 DEF Entry
  <2> QED
    BY <1>13, <1>14, <2>1, <2>3, <2>4
<1>20. Holds(more, next, k)
  <2>1. Extends(vals, old)
    BY <1>12, <1>13 DEF Extends, Kept
  <2> QED
    BY <1>7, <1>9, <1>13, <1>16, <1>17, <1>18, <1>19, <2>1, AttachHolds
<1> QED
  BY <1>4, <1>5, <1>6, <1>20

\* then(ChainablePromise) preserves it: the copy has the paths of the variable.
LEMMA PromiseHolds ==
  ASSUME Holds(values, promises, log), NEW on \in DOMAIN promises,
         NEW child \in DOMAIN promises, thenPromise(on, child)
  PROVE  Holds(values, promises, log)'
<1>1. PICK old : old = values
  OBVIOUS
<1>2. PICK proms \in Seq(Nat) : proms = promises
  BY DEF Holds
<1>3. PICK h : h = log
  OBVIOUS
<1>4. PICK more : more = values'
  OBVIOUS
<1>5. PICK next : next = promises'
  OBVIOUS
<1>6. PICK k : k = log'
  OBVIOUS
<1>7. Holds(old, proms, h)
  BY <1>1, <1>2, <1>3
<1>8. PICK t \in Nat : t = Len(h) /\ Len(proms) = t + 1
  <2>1. Logged(h) /\ Len(proms) = Len(h) + 1
    BY <1>7 DEF Holds
  <2>2. Len(h) \in Nat
    BY <2>1 DEF Logged
  <2> QED
    BY <2>1, <2>2
<1>9. on \in 1 .. t + 1 /\ on \in 1 .. Len(proms)
  BY <1>2, <1>8
<1>10. child \in 1 .. t + 1 /\ child \in 1 .. Len(proms)
  BY <1>2, <1>8
<1>11. PICK O \in Nat : O = Len(old)
  BY <1>7 DEF Holds, Numbered
<1>12. \A p \in 1 .. t + 1 : AsLogged(old, proms, h, p) /\ proms[p] \in 1 .. O
  BY <1>7, <1>8, <1>11 DEF Holds, AsLogged
<1>13. Numbered(old) /\ Kept(old, old)
  BY <1>7 DEF Holds, Kept
<1>14. PICK c \in 1 .. Len(old) : c = proms[child]
  BY <1>10, <1>11, <1>12
<1>15. PICK v \in 1 .. Len(old) : v = proms[on]
  BY <1>9, <1>11, <1>12
<1>16. Attaches(old, proms[on], c, more)
  <2>1. more = Append(old, [old[v] EXCEPT !.children = Append(@, c)])
    BY <1>1, <1>2, <1>4, <1>14, <1>15 DEF thenPromise, Attach
  <2> QED
    BY <1>13, <1>15, <2>1, FromAttached
<1>17. Assigns(proms, on, Len(old) + 1, c, next)
  <2>1. PICK u \in Nat : u = Len(old) + 1
    BY <1>11
  <2>2. c \in Nat
    BY <1>11
  <2>3. next = Append([proms EXCEPT ![on] = u], c)
    BY <1>1, <1>2, <1>5, <1>14, <2>1 DEF thenPromise, Attach
  <2>4. Assigns(proms, on, u, c, Append([proms EXCEPT ![on] = u], c))
    BY <1>9, <2>2, AssignsIs
  <2> QED
    BY <2>1, <2>3, <2>4
<1>18. Logs(h, on, child, k)
  <2>1. k = Append(h, [on |-> on, child |-> child])
    BY <1>3, <1>6 DEF thenPromise
  <2>2. on \in 1 .. Len(h) + 1 /\ child \in 1 .. Len(h) + 2
    BY <1>8, <1>9, <1>10
  <2> QED
    BY <1>7, <2>1, <2>2, LogsIs DEF Holds
<1>19. Attached(k)[Len(k)] = From(old, c)
  <2>1. PICK r \in Nat : r = t + 1 /\ r = Len(k) /\ t = r - 1 /\ r # 0 /\ child # r + 1
    BY <1>8, <1>10, <1>18 DEF Logs
  <2>2. r \in 0 .. Len(k) /\ k[r].child = child /\ Logged(k) /\ Extends(k, h) /\ Logged(h)
    BY <1>7, <1>18, <2>1 DEF Logs, Holds
  <2>3. PICK f : f = Attached(h)
    OBVIOUS
  <2>4. PICK g : g = Attached(k)
    OBVIOUS
  <2>5. g[r] = Entry(g, k, r)
    BY <2>2, <2>4, AttachedIs
  <2>6. Entry(g, k, r) = Paths(g, k, child, t)
    BY <2>1, <2>2 DEF Entry
  <2>7. Agree(f, g, h, k, t)
    <3>1. \A e \in 0 .. Len(h) : g[e] = f[e]
      BY <2>2, <2>3, <2>4, AttachedGrows
    <3> QED
      BY <1>8, <2>2, <3>1 DEF Agree, Extends
  <2>8. Paths(f, h, child, t) = Paths(g, k, child, t)
    BY <1>10, <2>7, PathsAgree
  <2>9. From(old, c) = Paths(f, h, child, t)
    BY <1>8, <1>10, <1>12, <1>14, <2>3 DEF AsLogged
  <2> QED
    BY <2>1, <2>4, <2>5, <2>6, <2>8, <2>9
<1>20. Holds(more, next, k)
  <2>1. Extends(old, old)
    BY <1>11 DEF Extends
  <2> QED
    BY <1>7, <1>9, <1>13, <1>16, <1>17, <1>18, <1>19, <2>1, AttachHolds
<1> QED
  BY <1>4, <1>5, <1>6, <1>20

\* The invariant says what a call of each variable runs, and a call is in order.
LEMMA HoldsRuns == Holds(values, promises, log) => RunsWhatWasAttached
<1> SUFFICES ASSUME Holds(values, promises, log), NEW p \in DOMAIN promises,
                    NEW calls, calls = Run(values)[<<promises[p], <<>> >>]
             PROVE  /\ {calls[k] : k \in DOMAIN calls} = Paths(Attached(log), log, p, Len(log))
                    /\ \A k \in 2 .. Len(calls) : \E j \in 1 .. k - 1 :
                         calls[j] = SubSeq(calls[k], 1, Len(calls[k]) - 1)
  BY DEF RunsWhatWasAttached
<1>1. AsLogged(values, promises, log, p) /\ Numbered(values)
  <2>1. promises \in Seq(Nat)
    BY DEF Holds
  <2>2. p \in 1 .. Len(promises)
    BY <2>1
  <2> QED
    BY <2>2 DEF Holds
<1>2. PICK v \in 1 .. Len(values) : v = promises[p]
  BY <1>1 DEF AsLogged
<1>3. PICK none \in Seq(Nat) : none = <<>>
  <2>1. <<>> \in Seq(Nat)
    OBVIOUS
  <2> QED
    BY <2>1
<1>4. calls = Run(values)[<<v, none>>]
  BY <1>2, <1>3
<1>5. All(calls) = Paths(Attached(log), log, p, Len(log))
  BY <1>1, <1>2, <1>3, <1>4 DEF AsLogged, From, Ways
<1>6. InOrder(values, v, none)
  BY <1>1, RunInOrder
<1>7. \A k \in 2 .. Len(calls) : \E j \in 1 .. k - 1 : calls[j] = Before(calls[k])
  BY <1>4, <1>6 DEF InOrder, Good
<1>8. {calls[k] : k \in DOMAIN calls} = Paths(Attached(log), log, p, Len(log))
  BY <1>5 DEF All
<1>9. \A k \in 2 .. Len(calls) : \E j \in 1 .. k - 1 :
        calls[j] = SubSeq(calls[k], 1, Len(calls[k]) - 1)
  BY <1>7 DEF Before
<1> QED
  BY <1>8, <1>9

\* For every number of promises and every sequence of calls of then: a call of a
\* promise runs the functors attached to that very variable and, below each, those
\* its child had when it was attached, each after its parent and with its result.
THEOREM PromiseTheorem == PromiseSpec => []RunsWhatWasAttached
<1>1. PromiseInit => Holds(values, promises, log)
  BY PromiseStarts
<1>2. Holds(values, promises, log) /\ [PromiseNext]_promiseVars => Holds(values, promises, log)'
  <2> SUFFICES ASSUME Holds(values, promises, log), [PromiseNext]_promiseVars
               PROVE  Holds(values, promises, log)'
    OBVIOUS
  <2>1. ASSUME NEW p \in DOMAIN promises, thenRunnable(p) PROVE Holds(values, promises, log)'
    BY <2>1, RunnableHolds
  <2>2. ASSUME NEW p \in DOMAIN promises, NEW q \in DOMAIN promises, thenPromise(p, q)
        PROVE  Holds(values, promises, log)'
    BY <2>2, PromiseHolds
  <2>3. CASE UNCHANGED promiseVars
    BY <2>3 DEF promiseVars
  <2> QED
    BY <2>1, <2>2, <2>3 DEF PromiseNext
<1> QED
  BY <1>1, <1>2, HoldsRuns, PTL DEF PromiseSpec
=============================================================================
