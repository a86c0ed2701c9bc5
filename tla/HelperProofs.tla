---------------------------- MODULE HelperProofs ----------------------------
(* The helpers of simple.cpp answer rightly for every build, every Python  *)
(* int and every hierarchy of classes.                                     *)
EXTENDS CythonHelpers, FiniteSetTheorems, WellFoundedInduction, TLAPS

\* Induction, with a set in the place of the predicate.
LEMMA Induction ==
  ASSUME NEW S, 0 \in S, \A n \in Nat : n \in S => n + 1 \in S
  PROVE  \A n \in Nat : n \in S
<1> DEFINE T == Nat \ S
<1> SUFFICES ASSUME T # {} PROVE FALSE
  OBVIOUS
<1>1. PICK x \in T : \A y \in T : ~ (<<y, x>> \in OpToRel(<, Nat))
  BY NatLessThanWellFounded, WFMin
<1>2. \A y \in T : ~ (y < x)
  BY <1>1 DEF OpToRel
<1>3. x \in Nat /\ x \notin S
  BY <1>1
<1>4. x # 0
  BY <1>3
<1>5. PICK n \in Nat : x = n + 1
  <2>1. x - 1 \in Nat /\ x = (x - 1) + 1
    BY <1>3, <1>4
  <2> QED
    BY <2>1
<1>6. n \in S
  BY <1>2, <1>5
<1> QED
  BY <1>3, <1>5, <1>6

-----------------------------------------------------------------------------
(* Powers of 2: Pow2 is the function its definition describes.             *)
Doubles(g, m) ==
  g \in [0 .. m -> Nat \ {0}] /\ g[0] = 1 /\ \A k \in 1 .. m : g[k] = 2 * g[k - 1]

LEMMA DoublesExists == \A m \in Nat : \E g : Doubles(g, m)
<1> DEFINE S == {m \in Nat : \E g : Doubles(g, m)}
<1>1. 0 \in S
  <2>1. Doubles([k \in 0 .. 0 |-> 1], 0)
    BY DEF Doubles
  <2> QED
    BY <2>1
<1>2. ASSUME NEW m \in Nat, m \in S PROVE m + 1 \in S
  <2>1. PICK g : Doubles(g, m)
    BY <1>2
  <2> DEFINE h == [k \in 0 .. m + 1 |-> IF k = m + 1 THEN 2 * g[m] ELSE g[k]]
  <2>2. \A k \in 0 .. m : g[k] \in Nat \ {0}
    BY <2>1 DEF Doubles
  <2>3. \A k \in 0 .. m + 1 : h[k] \in Nat \ {0}
    BY <2>2
  <2>4. h[0] = 1 /\ \A k \in 1 .. m + 1 : h[k] = 2 * h[k - 1]
    BY <2>1 DEF Doubles
  <2>5. Doubles(h, m + 1)
    BY <2>3, <2>4 DEF Doubles
  <2> QED
    BY <2>5
<1> HIDE DEF S
<1>3. \A m \in Nat : m \in S
  BY <1>1, <1>2, Induction
<1> QED
  BY <1>3 DEF S

LEMMA DoublesAgree ==
  ASSUME NEW m \in Nat, NEW n \in Nat, m <= n, NEW g, NEW h, Doubles(g, m), Doubles(h, n)
  PROVE  g[m] = h[m]
<1> DEFINE S == {k \in Nat : k <= m => g[k] = h[k]}
<1>1. 0 \in S
  BY DEF Doubles
<1>2. ASSUME NEW k \in Nat, k \in S PROVE k + 1 \in S
  <2> SUFFICES ASSUME k + 1 <= m PROVE g[k + 1] = h[k + 1]
    OBVIOUS
  <2>1. g[k] = h[k] /\ k + 1 \in 1 .. m /\ k + 1 \in 1 .. n /\ (k + 1) - 1 = k
    BY <1>2
  <2> QED
    BY <2>1 DEF Doubles
<1> HIDE DEF S
<1>3. m \in S
  BY <1>1, <1>2, Induction
<1> QED
  BY <1>3 DEF S

LEMMA Pow2Values ==
  /\ Pow2[0] = 1
  /\ \A n \in Nat : Pow2[n] \in Nat \ {0} /\ Pow2[n + 1] = 2 * Pow2[n]
<1> DEFINE F(m) == CHOOSE g : Doubles(g, m)
           f == [n \in Nat |-> F(n)[n]]
           body(g, n) == IF n = 0 THEN 1 ELSE 2 * g[n - 1]
<1>1. \A m \in Nat : Doubles(F(m), m)
  BY DoublesExists
<1> HIDE DEF F
<1>2. \A n \in Nat : f[n] \in Nat \ {0}
  BY <1>1 DEF Doubles
<1>3. \A n \in Nat : f[n] = body(f, n)
  <2> TAKE n \in Nat
  <2>1. CASE n = 0
    BY <1>1, <2>1 DEF Doubles
  <2>2. CASE n # 0
    <3>1. PICK m \in Nat : m = n - 1
      BY <2>2
    <3>2. F(m)[m] = F(n)[m]
      BY <1>1, <3>1, DoublesAgree
    <3>3. F(n)[n] = 2 * F(n)[m]
      BY <1>1, <2>2, <3>1 DEF Doubles
    <3> QED
      BY <2>2, <3>1, <3>2, <3>3
  <2> QED
    BY <2>1, <2>2
<1>4. f = [n \in Nat |-> body(f, n)]
  BY <1>3
<1> HIDE DEF f
<1>5. Pow2 = [n \in Nat |-> body(Pow2, n)]
  BY <1>4 DEF Pow2
<1>6. \A n \in Nat : Pow2[n] = body(Pow2, n)
  BY <1>5
<1> DEFINE S == {n \in Nat : Pow2[n] \in Nat \ {0}}
<1>7. \A n \in Nat : Pow2[n] \in Nat \ {0}
  <2>1. 0 \in S
    BY <1>6
  <2>2. ASSUME NEW n \in Nat, n \in S PROVE n + 1 \in S
    BY <1>6, <2>2
  <2> HIDE DEF S
  <2>3. \A n \in Nat : n \in S
    BY <2>1, <2>2, Induction
  <2> QED
    BY <2>3 DEF S
<1>8. \A n \in Nat : Pow2[n + 1] = 2 * Pow2[n]
  BY <1>6
<1> QED
  BY <1>6, <1>7, <1>8

LEMMA Pow2Sum == \A m, n \in Nat : Pow2[m + n] = Pow2[m] * Pow2[n]
<1> SUFFICES ASSUME NEW m \in Nat PROVE \A n \in Nat : Pow2[m + n] = Pow2[m] * Pow2[n]
  OBVIOUS
<1> DEFINE S == {k \in Nat : Pow2[m + k] = Pow2[m] * Pow2[k]}
<1>1. 0 \in S
  BY Pow2Values
<1>2. ASSUME NEW k \in Nat, k \in S PROVE k + 1 \in S
  <2>1. Pow2[m + k] = Pow2[m] * Pow2[k]
    BY <1>2
  <2>2. Pow2[k + 1] = 2 * Pow2[k] /\ Pow2[k] \in Nat /\ Pow2[m] \in Nat
    BY Pow2Values
  <2>3. Pow2[(m + k) + 1] = 2 * Pow2[m + k] /\ (m + k) + 1 = m + (k + 1)
    BY Pow2Values
  <2>4. Pow2[m] * (2 * Pow2[k]) = 2 * (Pow2[m] * Pow2[k])
    BY <2>2
  <2> QED
    BY <2>1, <2>2, <2>3, <2>4
<1> HIDE DEF S
<1>3. \A n \in Nat : n \in S
  BY <1>1, <1>2, Induction
<1> QED
  BY <1>3 DEF S

LEMMA Pow2Grows == \A m, n \in Nat : m <= n => Pow2[m] <= Pow2[n]
<1> SUFFICES ASSUME NEW m \in Nat, NEW n \in Nat, m <= n PROVE Pow2[m] <= Pow2[n]
  OBVIOUS
<1>1. PICK k \in Nat : n = m + k
  <2>1. n - m \in Nat /\ n = m + (n - m)
    OBVIOUS
  <2> QED
    BY <2>1
<1>2. Pow2[n] = Pow2[m] * Pow2[k] /\ Pow2[m] \in Nat \ {0} /\ Pow2[k] \in Nat \ {0}
  BY <1>1, Pow2Sum, Pow2Values
<1>3. \A a, b \in Nat \ {0} : a <= a * b
  OBVIOUS
<1> QED
  BY <1>2, <1>3

-----------------------------------------------------------------------------
(* A cast to a signed type keeps the numbers the type has.                 *)
LEMMA ModSmall == \A a \in Int, m \in Nat \ {0} :
  /\ a % m \in 0 .. m - 1
  /\ 0 <= a /\ a < m => a % m = a
  /\ -m <= a /\ a < 0 => a % m = a + m
  OBVIOUS

LEMMA CastFits ==
  ASSUME NEW v \in Int, NEW w \in Nat \ {0}
  PROVE  /\ Cast(v, w) \in Int /\ Fits(Cast(v, w), w)
         /\ Fits(v, w) => Cast(v, w) = v
<1>1. PICK k \in Nat : k = w - 1
  OBVIOUS
<1>2. PICK M \in Nat \ {0} : M = Pow2[k] /\ Pow2[w] = 2 * M
  BY <1>1, Pow2Values
<1>3. PICK m \in Nat \ {0} : m = Pow2[w]
  BY Pow2Values
<1>7. PICK r \in Int : r = v % m
  OBVIOUS
<1>4. /\ r \in 0 .. m - 1
      /\ 0 <= v /\ v < m => r = v
      /\ -m <= v /\ v < 0 => r = v + m
  BY <1>7, ModSmall
<1>5. Cast(v, w) = IF r < M THEN r ELSE r - 2 * M
  BY <1>1, <1>2, <1>3, <1>7 DEF Cast
<1>6. \A x \in Int : Fits(x, w) <=> -M <= x /\ x < M
  BY <1>1, <1>2 DEF Fits
<1> QED
  BY <1>2, <1>3, <1>4, <1>5, <1>6

-----------------------------------------------------------------------------
(* The number that n digits make has n * shift bits.                       *)
IsAbove(h, ds, P) ==
  h = [k \in 0 .. Len(ds) |-> IF k = Len(ds) THEN 0 ELSE ds[k + 1] + P * h[k + 1]]

LEMMA AboveExists ==
  ASSUME NEW ds, NEW L \in Nat, L = Len(ds), NEW P
  PROVE  \E h : IsAbove(h, ds, P)
<1> DEFINE body(h, k) == IF k = L THEN 0 ELSE ds[k + 1] + P * h[k + 1]
           From(h, m) == \A k \in 0 .. L : L - k <= m => h[k] = body(h, k)
           S == {m \in Nat : \E h : From(h, m)}
<1>1. 0 \in S
  <2>1. From([k \in 0 .. L |-> 0], 0)
    OBVIOUS
  <2> QED
    BY <2>1
<1>2. ASSUME NEW m \in Nat, m \in S PROVE m + 1 \in S
  <2>1. PICK g : From(g, m)
    BY <1>2
  <2> DEFINE h == [k \in 0 .. L |-> IF L - k = m + 1 THEN body(g, k) ELSE g[k]]
  <2>2. ASSUME NEW k \in 0 .. L, L - k <= m + 1 PROVE h[k] = body(h, k)
    <3>1. CASE k = L
      BY <2>1, <3>1
    <3>2. CASE k # L
      <4>1. k + 1 \in 0 .. L /\ L - (k + 1) # m + 1
        BY <2>2, <3>2
      <4>2. h[k + 1] = g[k + 1]
        BY <4>1
      <4>3. h[k] = body(g, k)
        BY <2>1, <2>2
      <4> QED
        BY <3>2, <4>2, <4>3
    <3> QED
      BY <3>1, <3>2
  <2>3. From(h, m + 1)
    BY <2>2
  <2> HIDE DEF h
  <2>4. \E f : From(f, m + 1)
    BY <2>3
  <2> QED
    BY <2>4
<1> HIDE DEF S
<1>3. L \in S
  BY <1>1, <1>2, Induction
<1>4. PICK g : From(g, L)
  BY <1>3 DEF S
<1> DEFINE h == [k \in 0 .. L |-> g[k]]
<1>5. \A k \in 0 .. L : h[k] = body(h, k)
  BY <1>4
<1>6. h = [k \in 0 .. L |-> body(h, k)]
  BY <1>5
<1> HIDE DEF h
<1>7. IsAbove(h, ds, P)
  BY <1>6 DEF IsAbove
<1> QED
  BY <1>7

LEMMA MulNext == \A m, s \in Nat : (m + 1) * s = s + m * s /\ m * s \in Nat
  OBVIOUS

LEMMA MulGap == \A P, Q, a, d \in Nat : a < Q /\ d < P => d + P * a < P * Q /\ d + P * a \in Nat
<1> SUFFICES ASSUME NEW P \in Nat, NEW Q \in Nat, NEW a \in Nat, NEW d \in Nat, a < Q, d < P
             PROVE  d + P * a < P * Q /\ d + P * a \in Nat
  OBVIOUS
<1>1. PICK c \in Nat : Q = a + 1 + c
  <2>1. Q - a - 1 \in Nat /\ Q = a + 1 + (Q - a - 1)
    OBVIOUS
  <2> QED
    BY <2>1
<1>2. P * Q = P * a + P + P * c /\ P * c \in Nat /\ P * a \in Nat
  BY <1>1
<1> QED
  BY <1>2

LEMMA MagnitudeBound ==
  ASSUME NEW b \in Builds, NEW ds \in Seq(Digits)
  PROVE  /\ Magnitude(ds, b.shift) \in Nat
         /\ Len(ds) * b.shift \in Nat
         /\ Magnitude(ds, b.shift) < Pow2[Len(ds) * b.shift]
<1>1. PICK L \in Nat : L = Len(ds)
  OBVIOUS
<1>2. PICK s \in Nat : s = b.shift
  BY HelperAssumption
<1>3. PICK P \in Nat : P = Pow2[s]
  BY Pow2Values
<1> DEFINE h == CHOOSE f : IsAbove(f, ds, P)
<1>4. IsAbove(h, ds, P)
  BY <1>1, AboveExists
<1>5. Magnitude(ds, s) = h[0]
  BY <1>3 DEF Magnitude, IsAbove
<1> HIDE DEF h
<1>6. h[L] = 0 /\ \A k \in 0 .. L - 1 : h[k] = ds[k + 1] + P * h[k + 1]
  BY <1>1, <1>4 DEF IsAbove
<1>7. \A k \in 1 .. L : ds[k] \in Nat /\ ds[k] < P
  BY <1>1, <1>2, <1>3, HelperAssumption
<1> DEFINE S == {m \in Nat : m <= L => h[L - m] \in Nat /\ h[L - m] < Pow2[m * s]}
<1>8. 0 \in S
  <2>1. 0 * s = 0 /\ L - 0 = L
    OBVIOUS
  <2>2. Pow2[0 * s] = 1
    BY <2>1, Pow2Values
  <2>3. h[L - 0] = 0
    BY <1>6, <2>1
  <2> QED
    BY <2>2, <2>3
<1>9. ASSUME NEW m \in Nat, m \in S PROVE m + 1 \in S
  <2> SUFFICES ASSUME m + 1 <= L
               PROVE  h[L - (m + 1)] \in Nat /\ h[L - (m + 1)] < Pow2[(m + 1) * s]
    OBVIOUS
  <2>1. PICK k \in 0 .. L - 1 : k = L - (m + 1) /\ k + 1 = L - m /\ k + 1 \in 1 .. L
    OBVIOUS
  <2>2. PICK a \in Nat : a = h[k + 1] /\ a < Pow2[m * s]
    BY <1>9, <2>1
  <2>3. PICK d \in Nat : d = ds[k + 1] /\ d < P
    BY <1>7, <2>1
  <2>4. PICK e \in Nat : e = m * s /\ (m + 1) * s = s + e
    BY MulNext
  <2>5. PICK Q \in Nat : Q = Pow2[e]
    BY Pow2Values
  <2>6. Pow2[(m + 1) * s] = P * Q
    BY <1>3, <2>4, <2>5, Pow2Sum
  <2>7. h[k] = d + P * a
    BY <1>6, <2>2, <2>3
  <2>8. d + P * a < P * Q /\ d + P * a \in Nat
    BY <2>2, <2>3, <2>4, <2>5, MulGap
  <2> QED
    BY <2>1, <2>6, <2>7, <2>8
<1> HIDE DEF S
<1>10. L \in S
  BY <1>8, <1>9, Induction
<1>11. h[0] \in Nat /\ h[0] < Pow2[L * s]
  BY <1>10 DEF S
<1>12. L * s \in Nat
  BY MulNext
<1> QED
  BY <1>1, <1>2, <1>5, <1>11, <1>12

LEMMA FitsWider ==
  ASSUME NEW v \in Int, NEW w \in Nat \ {0}, NEW t \in Nat \ {0}, w <= t, Fits(v, w)
  PROVE  Fits(v, t)
<1>1. PICK j \in Nat, k \in Nat : j = w - 1 /\ k = t - 1 /\ j <= k
  OBVIOUS
<1>2. Pow2[j] <= Pow2[k] /\ Pow2[j] \in Nat /\ Pow2[k] \in Nat
  BY <1>1, Pow2Grows, Pow2Values
<1> QED
  BY <1>1, <1>2 DEF Fits

LEMMA VerifyRight ==
  ASSUME NEW v \in Int, NEW w \in Nat \ {0}, NEW t \in Nat \ {0}, Fits(v, w)
  PROVE  VERIFY_RETURN_INT(v, w, t) = IF Fits(v, t) THEN <<v>> ELSE Failed
<1>1. Fits(v, t) <=> v = Cast(v, t)
  BY CastFits
<1>2. t >= w => Fits(v, t)
  BY FitsWider
<1> QED
  BY <1>1, <1>2 DEF VERIFY_RETURN_INT

LEMMA DigitsFit ==
  ASSUME NEW b \in Builds, NEW ds \in Seq(Digits), NEW sign \in {1, -1},
         NEW w \in Nat \ {0}, Len(ds) * b.shift < w
  PROVE  Fits(sign * Magnitude(ds, b.shift), w)
<1>1. PICK e \in Nat : e = Len(ds) * b.shift
  BY MagnitudeBound
<1>2. PICK x \in Nat : x = Magnitude(ds, b.shift) /\ x < Pow2[e]
  BY <1>1, MagnitudeBound
<1>3. PICK k \in Nat : k = w - 1 /\ e <= k
  BY <1>1
<1>4. PICK p \in Nat : p = Pow2[k] /\ x < p
  <2>1. Pow2[e] <= Pow2[k] /\ Pow2[e] \in Nat /\ Pow2[k] \in Nat
    BY <1>3, Pow2Grows, Pow2Values
  <2> QED
    BY <1>2, <2>1
<1>5. PICK y \in Int : y = sign * x /\ (y = x \/ y = -x)
  <2>1. 1 * x = x /\ (-1) * x = -x
    OBVIOUS
  <2> QED
    BY <2>1
<1>6. -p <= y /\ y < p
  BY <1>4, <1>5
<1> QED
  BY <1>2, <1>3, <1>4, <1>5, <1>6 DEF Fits

LEMMA FewDigits ==
  ASSUME NEW b \in Builds, NEW ds \in Seq(Digits), Len(ds) \in 0 .. 1
  PROVE  Len(ds) * b.shift <= b.shift
<1>1. PICK s \in Nat : s = b.shift
  BY HelperAssumption
<1>2. 0 * s <= s /\ 1 * s <= s
  OBVIOUS
<1>3. CASE Len(ds) = 0
  BY <1>1, <1>2, <1>3
<1>4. CASE Len(ds) = 1
  BY <1>1, <1>2, <1>4
<1> QED
  BY <1>3, <1>4

LEMMA Widths ==
  ASSUME NEW b \in Builds
  PROVE  /\ b.shift \in Nat /\ b.int \in Nat \ {0} /\ b.long \in Nat \ {0} /\ b.ssize \in Nat \ {0}
         /\ b.shift < b.int /\ b.int <= b.long /\ b.shift < b.ssize
  BY HelperAssumption

LEMMA ValueInt ==
  ASSUME NEW b \in Builds, NEW ds \in Seq(Digits), NEW sign \in {1, -1}
  PROVE  sign * Magnitude(ds, b.shift) \in Int
  BY MagnitudeBound

LEMMA CIntRight ==
  ASSUME NEW b \in Builds, NEW ds \in Seq(Digits), NEW sign \in {1, -1},
         NEW t \in Nat \ {0}, b.shift < t, t <= b.long
  PROVE  LET v == sign * Magnitude(ds, b.shift)
         IN  CIntFromPy(sign, ds, b, t) = IF Fits(v, t) THEN <<v>> ELSE Failed
<1>1. PICK v \in Int : v = sign * Magnitude(ds, b.shift)
  BY ValueInt
<1>2. PICK n \in Nat : n = Len(ds)
  OBVIOUS
<1> DEFINE right == IF Fits(v, t) THEN <<v>> ELSE Failed
           room == IF sign = 1 THEN t ELSE t - 1
           few == n \in 0 .. 1
           some == n \in 2 .. 4 /\ room > (n - 1) * b.shift /\ b.long > n * b.shift
<1>3. few => Fits(v, t)
  <2> SUFFICES ASSUME few PROVE Fits(v, t)
    OBVIOUS
  <2>1. PICK e \in Nat : e = Len(ds) * b.shift
    BY MagnitudeBound
  <2>2. e <= b.shift
    BY <1>2, <2>1, FewDigits
  <2>3. Len(ds) * b.shift < t
    BY <2>1, <2>2, Widths
  <2> QED
    BY <1>1, <2>3, DigitsFit
<1>4. few => <<Cast(v, t)>> = right
  BY <1>3, CastFits
<1>5. some => Fits(v, b.long)
  BY <1>1, <1>2, DigitsFit, MagnitudeBound, Widths
<1>6. some => VERIFY_RETURN_INT(v, b.long, t) = right
  BY <1>5, VerifyRight, Widths
<1>7. PyLong_AsLong(v, b, t) = right
  <2>1. CASE Fits(v, b.long)
    BY <2>1, VerifyRight, Widths DEF PyLong_AsLong
  <2>2. CASE ~ Fits(v, b.long)
    BY <2>2, FitsWider, Widths DEF PyLong_AsLong
  <2> QED
    BY <2>1, <2>2
<1>8. CIntFromPy(sign, ds, b, t) =
        CASE few -> <<Cast(v, t)>>
          [] some -> VERIFY_RETURN_INT(v, b.long, t)
          [] OTHER -> PyLong_AsLong(v, b, t)
  BY <1>1, <1>2 DEF CIntFromPy
<1> HIDE DEF few, some, right
<1>9. CIntFromPy(sign, ds, b, t) = right
  BY <1>4, <1>6, <1>7, <1>8
<1> QED
  BY <1>1, <1>9 DEF right

LEMMA IndexRight ==
  ASSUME NEW b \in Builds, NEW ds \in Seq(Digits), NEW sign \in {1, -1}, NEW q,
         q.build = b, q.digits = ds, q.sign = sign
  PROVE  LET v == sign * Magnitude(ds, b.shift)
         IN  PyIndex_AsSsize_t(q) = IF Fits(v, b.ssize) THEN <<v>> ELSE Failed
<1>1. PICK v \in Int : v = sign * Magnitude(ds, b.shift)
  BY ValueInt
<1>2. PICK n \in Nat, e \in Nat : n = Len(ds) /\ e = n * b.shift
  BY MagnitudeBound
<1>3. n <= 1 => e <= b.shift
  <2>1. n <= 1 => Len(ds) \in 0 .. 1
    BY <1>2
  <2> QED
    BY <1>2, <2>1, FewDigits
<1>4. e < b.ssize => Fits(v, b.ssize)
  BY <1>1, <1>2, DigitsFit, Widths
<1>5. n <= 1 \/ (n <= 4 /\ b.ssize > e) => Cast(v, b.ssize) = v /\ Fits(v, b.ssize)
  BY <1>3, <1>4, CastFits, Widths
<1>6. PyIndex_AsSsize_t(q) =
        IF n <= 1 \/ (n <= 4 /\ b.ssize > e) THEN <<Cast(v, b.ssize)>>
        ELSE IF Fits(v, b.ssize) THEN <<v>> ELSE Failed
  BY <1>1, <1>2 DEF PyIndex_AsSsize_t
<1> QED
  BY <1>1, <1>5, <1>6

LEMMA PyLongsAreDigits == PyLongs \subseteq Seq(Digits)
<1>3. <<>> \in Seq(Digits)
  OBVIOUS
<1> SUFFICES ASSUME NEW ds \in PyLongs, ds # <<>> PROVE ds \in Seq(Digits)
  BY <1>3
<1>1. PICK n \in 1 .. MaxDigits : ds \in [1 .. n -> Digits]
  BY DEF PyLongs
<1>2. n \in Nat
  BY HelperAssumption
<1> QED
  BY <1>1, <1>2

LEMMA IntsConverted ==
  ASSUME query \in IntQueries, answer = AnswerTo(query)
  PROVE  IntRight
<1>1. PICK b \in Builds, ds \in Seq(Digits), sign \in {1, -1} :
        b = query.build /\ ds = query.digits /\ sign = query.sign
  BY PyLongsAreDigits DEF IntQueries
<1>2. CASE query.of = "int"
  BY <1>1, <1>2, CIntRight, Widths DEF IntRight, AnswerTo, PyInt_As_int
<1>3. CASE query.of = "long"
  <2>1. b.shift < b.long
    BY Widths
  <2> QED
    BY <1>1, <1>3, <2>1, CIntRight, Widths DEF IntRight, AnswerTo, PyInt_As_long
<1>4. CASE query.of = "ssize"
  BY <1>1, <1>4, IndexRight, Widths DEF IntRight, AnswerTo
<1> QED
  BY <1>2, <1>3, <1>4 DEF IntQueries

-----------------------------------------------------------------------------
LEMMA VersionsCompared ==
  ASSUME query \in VersionQueries, answer = AnswerTo(query)
  PROVE  VersionRight
<1>1. answer[1] = check_binary_version(query.ct, query.rt)
  BY DEF VersionQueries, AnswerTo
<1>2. query.ct \in Versions /\ query.rt \in Versions
  BY DEF VersionQueries
<1>3. query.ct.major = query.rt.major /\ query.ct.minor = query.rt.minor => query.ct = query.rt
  BY <1>2 DEF Versions
<1>4. check_binary_version(query.ct, query.rt) => query.ct # query.rt
  BY DEF check_binary_version
<1>5. query.ct.minor < 10 /\ query.rt.minor < 10 /\ query.ct # query.rt
        => check_binary_version(query.ct, query.rt)
  BY <1>3 DEF check_binary_version, ThirdChar
<1> QED
  BY <1>1, <1>4, <1>5 DEF VersionRight

-----------------------------------------------------------------------------
(* The wrapper goes on exactly if the keywords are the parameters that no  *)
(* position stands for.                                                    *)
Rest(pos) == {argnames[k] : k \in pos + 1 .. 3}

LEMMA KeywordsFinite == ASSUME NEW K \in SUBSET Keys PROVE IsFiniteSet(K)
<1> DEFINE K1 == {"type"}
           K2 == K1 \cup {"checksum"}
           K3 == K2 \cup {"state"}
           K4 == K3 \cup {"other"}
           K5 == K4 \cup {"no string"}
<1>2. Keys = K5
  BY DEF Keys
<1>3. IsFiniteSet(K1)
  BY FS_Singleton
<1> HIDE DEF K1
<1>4. IsFiniteSet(K2)
  BY <1>3, FS_AddElement
<1> HIDE DEF K2
<1>5. IsFiniteSet(K3)
  BY <1>4, FS_AddElement
<1> HIDE DEF K3
<1>6. IsFiniteSet(K4)
  BY <1>5, FS_AddElement
<1> HIDE DEF K4
<1>1. IsFiniteSet(Keys)
  BY <1>2, <1>6, FS_AddElement
<1> QED
  BY <1>1, FS_Subset

LEMMA ArgNames ==
  /\ argnames[1] = "type" /\ argnames[2] = "checksum" /\ argnames[3] = "state"
  /\ \A k \in 1 .. 3 : argnames[k] \in Keys
  /\ \A j, k \in 1 .. 3 : argnames[j] = argnames[k] => j = k
<1>1. argnames[1] = "type" /\ argnames[2] = "checksum" /\ argnames[3] = "state"
  BY DEF argnames
<1>2. \A k \in 1 .. 3 : k = 1 \/ k = 2 \/ k = 3
  OBVIOUS
<1> QED
  BY <1>1, <1>2 DEF Keys

LEMMA UnpackIs ==
  ASSUME NEW pos \in 0 .. 4, NEW kwds \in SUBSET Keys
  PROVE  UnpackArguments(pos, kwds) =
           IF pos <= 3 /\ kwds = Rest(pos)
           THEN [k \in 1 .. 3 |-> IF k <= pos THEN "position" ELSE "keyword"]
           ELSE Failed
<1> DEFINE rest == Rest(pos)
<1>1. rest \in SUBSET Keys
  <2>1. \A k \in pos + 1 .. 3 : k \in 1 .. 3
    OBVIOUS
  <2> QED
    BY <2>1, ArgNames DEF Rest
<1>2. IsFiniteSet(kwds) /\ IsFiniteSet(rest)
  BY <1>1, KeywordsFinite
<1>3. PICK a \in Nat, c \in Nat : a = Cardinality(kwds) /\ c = Cardinality(rest)
  BY <1>2, FS_CardinalityType
<1>4. rest \subseteq kwds => (a - c > 0 <=> kwds # rest)
  BY <1>2, <1>3, FS_Subset
<1>5. UnpackArguments(pos, kwds) =
        IF pos > 3 \/ rest \ kwds # {} THEN Failed
        ELSE IF a - c > 0 /\ ~ (kwds \subseteq rest) THEN Failed
        ELSE [k \in 1 .. 3 |-> IF k <= pos THEN "position" ELSE "keyword"]
  BY <1>3 DEF UnpackArguments, ParseOptionalKeywords, Rest
<1> DEFINE taken == [k \in 1 .. 3 |-> IF k <= pos THEN "position" ELSE "keyword"]
<1> HIDE DEF taken, rest
<1>6. CASE pos <= 3 /\ kwds = rest
  <2>1. UnpackArguments(pos, kwds) = taken
    BY <1>5, <1>6 DEF taken
  <2> QED
    BY <1>6, <2>1 DEF taken, rest
<1>7. CASE ~ (pos <= 3 /\ kwds = rest)
  <2>1. pos > 3 \/ rest \ kwds # {} \/ (a - c > 0 /\ ~ (kwds \subseteq rest))
    BY <1>4, <1>7
  <2>2. UnpackArguments(pos, kwds) = Failed
    BY <1>5, <2>1
  <2> QED
    BY <1>7, <2>2 DEF rest
<1> QED
  BY <1>6, <1>7

LEMMA ArgumentsBound ==
  ASSUME query \in ArgumentQueries, answer = AnswerTo(query)
  PROVE  ArgumentsRight
<1>1. PICK pos \in 0 .. 4, kwds \in SUBSET Keys : pos = query.pos_args /\ kwds = query.kwds
  BY DEF ArgumentQueries
<1> DEFINE taken == [k \in 1 .. 3 |-> IF k <= pos THEN "position" ELSE "keyword"]
           Passed(k) == (IF k <= pos THEN {"position"} ELSE {}) \cup
                        (IF argnames[k] \in kwds THEN {"keyword"} ELSE {})
           Once(k) == Cardinality(Passed(k)) = 1
           Legal == /\ pos <= 3 /\ kwds \subseteq {argnames[k] : k \in 1 .. 3}
                    /\ \A k \in 1 .. 3 : Once(k)
           fine == pos <= 3 /\ kwds = Rest(pos)
<1>2. answer = IF fine THEN taken ELSE Failed
  BY <1>1, UnpackIs DEF ArgumentQueries, AnswerTo
<1>3. \A k \in 1 .. 3 : Once(k) <=> (k <= pos <=> argnames[k] \notin kwds)
  <2> TAKE k \in 1 .. 3
  <2>1. CASE k <= pos /\ argnames[k] \in kwds
    <3>1. Passed(k) = {"position"} \cup {"keyword"}
      BY <2>1
    <3> DEFINE P == {"position"}
    <3>3. IsFiniteSet(P) /\ Cardinality(P) = 1 /\ "keyword" \notin P
      BY FS_Singleton
    <3> HIDE DEF P
    <3>4. Cardinality(P \cup {"keyword"}) = 1 + 1
      BY <3>3, FS_AddElement
    <3>2. Cardinality({"position"} \cup {"keyword"}) = 2
      BY <3>4 DEF P
    <3> QED
      BY <2>1, <3>1, <3>2
  <2>2. CASE k <= pos /\ argnames[k] \notin kwds
    <3>1. Passed(k) = {"position"}
      BY <2>2
    <3> QED
      BY <2>2, <3>1, FS_Singleton
  <2>3. CASE ~ (k <= pos) /\ argnames[k] \in kwds
    <3>1. Passed(k) = {"keyword"}
      BY <2>3
    <3> QED
      BY <2>3, <3>1, FS_Singleton
  <2>4. CASE ~ (k <= pos) /\ argnames[k] \notin kwds
    <3>1. Passed(k) = {}
      BY <2>4
    <3> QED
      BY <2>4, <3>1, FS_EmptySet
  <2> QED
    BY <2>1, <2>2, <2>3, <2>4
<1>4. ArgumentsRight =
        IF Legal THEN answer # Failed /\ \A k \in 1 .. 3 : Passed(k) = {answer[k]}
        ELSE answer = Failed
  BY <1>1 DEF ArgumentsRight
<1>5. fine => taken # Failed /\ \A k \in 1 .. 3 : Passed(k) = {taken[k]}
  <2> SUFFICES ASSUME fine PROVE taken # Failed /\ \A k \in 1 .. 3 : Passed(k) = {taken[k]}
    OBVIOUS
  <2>1. \A k \in 1 .. 3 : argnames[k] \in kwds <=> ~ (k <= pos)
    BY ArgNames DEF Rest
  <2>2. taken # Failed
    BY DEF Failed
  <2> QED
    BY <2>1, <2>2
<1>6. Legal <=> fine
  <2> HIDE DEF Once
  <2>1. ASSUME Legal PROVE fine
    <3>1. \A k \in 1 .. 3 : argnames[k] \in kwds <=> ~ (k <= pos)
      BY <1>3, <2>1
    <3>2. kwds \subseteq Rest(pos)
      <4> SUFFICES ASSUME NEW x \in kwds PROVE x \in Rest(pos)
        OBVIOUS
      <4>1. PICK k \in 1 .. 3 : x = argnames[k]
        BY <2>1
      <4>2. k \in pos + 1 .. 3
        BY <3>1, <4>1
      <4> QED
        BY <4>1, <4>2 DEF Rest
    <3>3. Rest(pos) \subseteq kwds
      <4> SUFFICES ASSUME NEW k \in pos + 1 .. 3 PROVE argnames[k] \in kwds
        BY DEF Rest
      <4>1. k \in 1 .. 3 /\ ~ (k <= pos)
        OBVIOUS
      <4> QED
        BY <3>1, <4>1
    <3> QED
      BY <2>1, <3>2, <3>3
  <2>2. ASSUME fine PROVE Legal
    <3>1. \A k \in 1 .. 3 : argnames[k] \in kwds <=> ~ (k <= pos)
      BY <2>2, ArgNames DEF Rest
    <3>2. kwds \subseteq {argnames[k] : k \in 1 .. 3}
      BY <2>2 DEF Rest
    <3> QED
      BY <1>3, <2>2, <3>1, <3>2
  <2> QED
    BY <2>1, <2>2
<1> HIDE DEF Legal, Passed, taken, fine
<1>7. CASE fine
  BY <1>2, <1>4, <1>5, <1>6, <1>7
<1>8. CASE ~ fine
  BY <1>2, <1>4, <1>6, <1>8
<1> QED
  BY <1>7, <1>8

-----------------------------------------------------------------------------
(* What the walk along tp_base reaches is an ancestor.                     *)
IsUp(u, bases) ==
  u = [k \in Classes |-> IF k = 0 THEN {0} ELSE {k} \cup UNION {u[c] : c \in bases[k]}]
IsIn(i, b, tp_base) ==
  i = [k \in Classes |-> \/ b = 0
                         \/ k # 0 /\ (tp_base[k] = b \/ i[tp_base[k]])]

\* The bases of a class have smaller numbers.
LEMMA BasesBelow ==
  ASSUME NEW bases \in Bases, NEW k \in Classes, k # 0, NEW c \in bases[k]
  PROVE  c \in Classes /\ c < k
  BY HelperAssumption DEF Bases, Classes, Exceptions

LEMMA UpExists == ASSUME NEW bases \in Bases PROVE \E u : IsUp(u, bases)
<1> DEFINE body(u, k) == IF k = 0 THEN {0} ELSE {k} \cup UNION {u[c] : c \in bases[k]}
           UpTo(u, m) == \A k \in Classes : k <= m => u[k] = body(u, k)
           S == {m \in Nat : \E u : UpTo(u, m)}
<1>0. Classes \subseteq Nat
  BY DEF Classes
<1>1. 0 \in S
  <2>1. UpTo([k \in Classes |-> {0}], 0)
    BY <1>0
  <2> QED
    BY <2>1
<1>2. ASSUME NEW m \in Nat, m \in S PROVE m + 1 \in S
  <2>1. PICK g : UpTo(g, m)
    BY <1>2
  <2> DEFINE h == [k \in Classes |-> IF k = m + 1 THEN body(g, k) ELSE g[k]]
  <2>2. ASSUME NEW k \in Classes, k <= m + 1 PROVE h[k] = body(h, k)
    <3>1. h[k] = body(g, k)
      <4>1. k # m + 1 => k <= m /\ h[k] = g[k]
        BY <1>0, <2>2
      <4>2. k # m + 1 => g[k] = body(g, k)
        BY <2>1, <4>1
      <4>3. k = m + 1 => h[k] = body(g, k)
        OBVIOUS
      <4> HIDE DEF h, body
      <4> QED
        BY <4>1, <4>2, <4>3
    <3>2. k # 0 => \A c \in bases[k] : h[c] = g[c]
      BY <1>0, <2>2, BasesBelow
    <3> QED
      BY <3>1, <3>2
  <2>3. UpTo(h, m + 1)
    BY <2>2
  <2> HIDE DEF h, UpTo
  <2> QED
    BY <2>3
<1> HIDE DEF S
<1>3. MaxClass \in S
  BY <1>1, <1>2, Induction, HelperAssumption
<1>4. PICK g : UpTo(g, MaxClass)
  BY <1>3 DEF S
<1> DEFINE h == [k \in Classes |-> g[k]]
<1>5. \A k \in Classes : h[k] = body(h, k)
  <2> TAKE k \in Classes
  <2>1. k <= MaxClass
    BY HelperAssumption DEF Classes
  <2>2. k # 0 => \A c \in bases[k] : h[c] = g[c]
    BY BasesBelow
  <2>3. h[k] = body(g, k)
    BY <1>4, <2>1
  <2> QED
    BY <2>2, <2>3
<1>6. h = [k \in Classes |-> body(h, k)]
  BY <1>5
<1> HIDE DEF h
<1>7. IsUp(h, bases)
  BY <1>6 DEF IsUp
<1> QED
  BY <1>7

LEMMA InExists ==
  ASSUME NEW bases \in Bases, NEW tp_base,
         \A k \in Exceptions : tp_base[k] \in bases[k], NEW b
  PROVE  \E i : IsIn(i, b, tp_base)
<1> DEFINE body(i, k) == b = 0 \/ (k # 0 /\ (tp_base[k] = b \/ i[tp_base[k]]))
           UpTo(i, m) == \A k \in Classes : k <= m => i[k] = body(i, k)
           S == {m \in Nat : \E i : UpTo(i, m)}
<1>0. Classes \subseteq Nat /\ \A k \in Classes : k # 0 => tp_base[k] \in Classes /\ tp_base[k] < k
  <2>1. \A k \in Classes : k # 0 => k \in Exceptions
    BY DEF Exceptions
  <2> QED
    BY <2>1, BasesBelow DEF Classes
<1>1. 0 \in S
  <2>1. UpTo([k \in Classes |-> b = 0], 0)
    BY <1>0
  <2> HIDE DEF UpTo
  <2> QED
    BY <2>1
<1>2. ASSUME NEW m \in Nat, m \in S PROVE m + 1 \in S
  <2>1. PICK g : UpTo(g, m)
    BY <1>2
  <2> DEFINE h == [k \in Classes |-> IF k = m + 1 THEN body(g, k) ELSE g[k]]
  <2>2. ASSUME NEW k \in Classes, k <= m + 1 PROVE h[k] = body(h, k)
    <3>1. h[k] = body(g, k)
      <4>1. k # m + 1 => k <= m /\ h[k] = g[k]
        BY <1>0, <2>2
      <4>2. k # m + 1 => g[k] = body(g, k)
        BY <2>1, <4>1
      <4>3. k = m + 1 => h[k] = body(g, k)
        OBVIOUS
      <4> HIDE DEF h, body
      <4> QED
        BY <4>1, <4>2, <4>3
    <3>2. k # 0 => h[tp_base[k]] = g[tp_base[k]]
      BY <1>0, <2>2
    <3> HIDE DEF h
    <3> QED
      BY <3>1, <3>2
  <2>3. UpTo(h, m + 1)
    BY <2>2
  <2> HIDE DEF h, UpTo
  <2> QED
    BY <2>3
<1> HIDE DEF S
<1>3. MaxClass \in S
  BY <1>1, <1>2, Induction, HelperAssumption
<1>4. PICK g : UpTo(g, MaxClass)
  BY <1>3 DEF S
<1> DEFINE h == [k \in Classes |-> g[k]]
<1>5. \A k \in Classes : h[k] = body(h, k)
  <2> TAKE k \in Classes
  <2>1. k <= MaxClass
    BY HelperAssumption DEF Classes
  <2>2. k # 0 => h[tp_base[k]] = g[tp_base[k]]
    BY <1>0
  <2>3. h[k] = body(g, k)
    BY <1>4, <2>1
  <2> HIDE DEF h
  <2> QED
    BY <2>2, <2>3
<1>6. h = [k \in Classes |-> body(h, k)]
  BY <1>5
<1> HIDE DEF h
<1>7. IsIn(h, b, tp_base)
  BY <1>6 DEF IsIn
<1> QED
  BY <1>7

LEMMA InBasesIsAncestor ==
  ASSUME NEW bases \in Bases, NEW tp_base, \A k \in Exceptions : tp_base[k] \in bases[k],
         NEW a \in Classes, NEW b \in Exceptions
  PROVE  /\ a \in Ancestors(a, bases)
         /\ InBases(a, b, tp_base) => b \in Ancestors(a, bases)
<1> DEFINE u == CHOOSE x : IsUp(x, bases)
           i == CHOOSE x : IsIn(x, b, tp_base)
<1>1. IsUp(u, bases) /\ IsIn(i, b, tp_base)
  BY UpExists, InExists
<1>2. Ancestors(a, bases) = u[a] /\ InBases(a, b, tp_base) = i[a]
  BY DEF Ancestors, InBases, IsUp, IsIn
<1> HIDE DEF u, i
<1>3. \A k \in Classes : u[k] = IF k = 0 THEN {0} ELSE {k} \cup UNION {u[c] : c \in bases[k]}
  BY <1>1 DEF IsUp
<1>4. \A k \in Classes : i[k] = (b = 0 \/ (k # 0 /\ (tp_base[k] = b \/ i[tp_base[k]])))
  BY <1>1 DEF IsIn
<1>5. \A k \in Classes : k \in u[k]
  BY <1>3
<1>6. Classes \subseteq Nat /\ b # 0
  BY DEF Classes, Exceptions
<1> DEFINE S == {m \in Nat : \A k \in Classes : k <= m /\ i[k] => b \in u[k]}
<1>7. 0 \in S
  <2>1. \A k \in Classes : k <= 0 => k = 0
    BY <1>6
  <2>2. 0 \in Classes => ~ i[0]
    BY <1>4, <1>6
  <2> QED
    BY <2>1, <2>2
<1>8. ASSUME NEW m \in Nat, m \in S PROVE m + 1 \in S
  <2> SUFFICES ASSUME NEW k \in Classes, k = m + 1, i[k] PROVE b \in u[k]
    BY <1>6, <1>8
  <2>1. k # 0 /\ k \in Exceptions
    BY DEF Exceptions
  <2>2. PICK c \in bases[k] : c = tp_base[k] /\ c \in Classes /\ c < k
    BY <2>1, BasesBelow
  <2>3. c = b \/ i[c]
    BY <1>4, <1>6, <2>1, <2>2
  <2>4. b \in u[c]
    <3>1. c <= m
      BY <1>6, <2>2
    <3>2. i[c] => b \in u[c]
      BY <1>8, <2>2, <3>1
    <3> QED
      BY <1>5, <2>2, <2>3, <3>2
  <2>5. u[c] \subseteq u[k]
    <3>1. u[k] = {k} \cup UNION {u[x] : x \in bases[k]}
      BY <1>3, <2>1
    <3> QED
      BY <2>2, <3>1
  <2> QED
    BY <2>4, <2>5
<1> HIDE DEF S
<1>9. MaxClass \in S
  BY <1>7, <1>8, Induction, HelperAssumption
<1>10. a <= MaxClass
  BY HelperAssumption DEF Classes
<1> QED
  BY <1>2, <1>5, <1>9, <1>10 DEF S

LEMMA ExceptionsMatched ==
  ASSUME query \in ExceptionQueries, answer = AnswerTo(query)
  PROVE  ExceptionRight
<1> DEFINE q == query
           up == Ancestors(q.err, q.bases)
<1>1. /\ q.of = "exception" /\ q.err \in Exceptions /\ q.exc \in Handlers
      /\ q.bases \in Bases /\ \A c \in Exceptions : q.tp_base[c] \in q.bases[c]
  BY DEF ExceptionQueries
<1>2. q.err \in Classes /\ q.err \in up
  BY <1>1, InBasesIsAncestor DEF Exceptions
<1>3. \A c \in Exceptions : IsSubtype(q.err, c, q) => c \in up
  BY <1>1, <1>2, InBasesIsAncestor DEF IsSubtype
<1>4. \A c \in Exceptions : q.ready /\ c \in up => IsSubtype(q.err, c, q)
  BY DEF IsSubtype
<1>5. answer[1] = ExceptionMatches(q)
  BY <1>1 DEF AnswerTo
<1>6. ExceptionMatches(q) <=> \E c \in Named(q.exc) : IsSubtype(q.err, c, q)
  BY DEF ExceptionMatches, GivenExceptionMatches, Named
<1>7. Named(q.exc) \subseteq Exceptions
  BY <1>1 DEF Named, Handlers
<1> HIDE DEF q, up
<1>8. (answer[1] => \E c \in Named(q.exc) : c \in up) /\
      (q.ready /\ (\E c \in Named(q.exc) : c \in up) => answer[1])
  BY <1>3, <1>4, <1>5, <1>6, <1>7
<1> QED
  BY <1>8 DEF ExceptionRight, q, up

-----------------------------------------------------------------------------
HelperInv ==
  /\ query \in IntQueries \cup ArgumentQueries \cup ExceptionQueries \cup VersionQueries
  /\ answer # Unasked => answer = AnswerTo(query)

\* Every answer is right: integers of any number of digits are converted by every
\* build, versions of up to two digits compared, arguments bound, and exceptions
\* matched in every hierarchy of classes.
THEOREM HelpersTheorem == HelperSpec => []HelpersRight
<1>1. HelperInit => HelperInv
  BY DEF HelperInit, HelperInv
<1>2. HelperInv /\ [HelperNext]_helperVars => HelperInv'
  BY DEF HelperInv, HelperNext, helperVars
<1>3. HelperInv => HelpersRight
  <2> SUFFICES ASSUME HelperInv, answer # Unasked PROVE HelpersRight
    BY DEF HelpersRight
  <2>0. answer = AnswerTo(query)
    BY DEF HelperInv
  <2>1. CASE query \in IntQueries
    <3>1. query.of \in {"int", "long", "ssize"} /\ IntRight
      BY <2>0, <2>1, IntsConverted DEF IntQueries
    <3> QED
      BY <3>1 DEF HelpersRight
  <2>2. CASE query \in ArgumentQueries
    <3>1. query.of = "arguments" /\ ArgumentsRight
      BY <2>0, <2>2, ArgumentsBound DEF ArgumentQueries
    <3> QED
      BY <3>1 DEF HelpersRight
  <2>3. CASE query \in ExceptionQueries
    <3>1. query.of = "exception" /\ ExceptionRight
      BY <2>0, <2>3, ExceptionsMatched DEF ExceptionQueries
    <3> QED
      BY <3>1 DEF HelpersRight
  <2>4. CASE query \in VersionQueries
    <3>1. query.of = "version" /\ VersionRight
      BY <2>0, <2>4, VersionsCompared DEF VersionQueries
    <3> QED
      BY <3>1 DEF HelpersRight
  <2> QED
    BY <2>1, <2>2, <2>3, <2>4 DEF HelperInv
<1> QED
  BY <1>1, <1>2, <1>3, PTL DEF HelperSpec
=============================================================================
