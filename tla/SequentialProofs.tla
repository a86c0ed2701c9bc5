--------------------------- MODULE SequentialProofs ---------------------------
(***************************************************************************)
(* What one thread calls: DeclareFifo implements BoundedFifo for every N   *)
(* and every set of values, maxProfit is right for every vector of prices, *)
(* and queue.h implements ClearingFifo for every width of its integers,    *)
(* all capacities up to half of that width, and all element sizes.         *)
(***************************************************************************)
EXTENDS DeclareFifo, MaxProfit, Queue, SequenceTheorems, TLAPS

(* DECLARE_FIFO *)

LEMMA RemSmall == \A a \in 0 .. 2 * N - 1 :
  /\ a % N = IF a < N THEN a ELSE a - N
  /\ Rem(a, N) = a % N
<1> TAKE a \in 0 .. 2 * N - 1
<1>1. a % N = IF a < N THEN a ELSE a - N
  BY FifoAssumption
<1> QED BY <1>1, FifoAssumption DEF Rem

\* size is the distance from tail to head, whichever is ahead.
SizeIs == size = IF head >= tail THEN head - tail ELSE head - tail + N

LEMMA SizeValue == TypeOK => SizeIs
<1> SUFFICES ASSUME TypeOK PROVE SizeIs
  OBVIOUS
<1>1. head \in Int /\ tail \in Int /\ 0 <= head /\ head < N /\ 0 <= tail /\ tail < N
  BY FifoAssumption DEF TypeOK, Places
<1>2. CASE head >= tail
  <2>1. Rem(head - tail, N) = head - tail
    BY <1>1, <1>2, FifoAssumption, RemSmall
  <2>2. Rem(head - tail + N, N) = head - tail
    BY <1>1, <1>2, FifoAssumption, RemSmall
  <2> QED BY <1>1, <1>2, <2>1, <2>2 DEF size, SizeIs
<1>3. CASE head < tail
  <2>1. (-(head - tail)) % N = -(head - tail)
    BY <1>1, <1>3, FifoAssumption, RemSmall
  <2>2. Rem(head - tail, N) = head - tail
    BY <1>1, <1>3, <2>1, FifoAssumption DEF Rem
  <2>3. Rem(head - tail + N, N) = head - tail + N
    BY <1>1, <1>3, FifoAssumption, RemSmall
  <2> QED BY <1>1, <1>3, <2>2, <2>3 DEF size, SizeIs
<1> QED BY <1>1, <1>2, <1>3

\* The place of the j-th queued value.
LEMMA PlaceArith == \A t \in Places, j \in 1 .. N :
  /\ (t + j - 1) % N \in Places
  /\ (t + j - 1) % N = IF t + j - 1 < N THEN t + j - 1 ELSE t + j - 1 - N
<1> TAKE t \in Places, j \in 1 .. N
<1>1. t \in 0 .. N - 1 /\ t + j - 1 \in 0 .. 2 * N - 1
  BY FifoAssumption DEF Places
<1>2. PICK a \in 0 .. 2 * N - 1 : a = t + j - 1
  BY <1>1
<1>3. a % N = IF a < N THEN a ELSE a - N
  BY RemSmall
<1>4. a % N \in Places
  BY <1>3, FifoAssumption DEF Places
<1> QED BY <1>1, <1>2, <1>3, <1>4, FifoAssumption

LEMMA PlaceValue ==
  ASSUME TypeOK, NEW j \in 1 .. N
  PROVE  /\ (tail + j - 1) % N \in Places
         /\ (tail + j - 1) % N = IF tail + j - 1 < N THEN tail + j - 1 ELSE tail + j - 1 - N
  BY PlaceArith DEF TypeOK

LEMMA TypeStep == TypeOK /\ [Next]_vars => TypeOK'
<1> SUFFICES ASSUME TypeOK, [Next]_vars PROVE TypeOK'
  OBVIOUS
<1>1. ASSUME NEW a \in Places PROVE Rem(a + 1, N) \in Places
  <2>1. a + 1 \in 0 .. 2 * N - 1 /\ a < N
    BY <1>1, FifoAssumption DEF Places
  <2> QED BY <2>1, RemSmall, FifoAssumption DEF Places
<1>2. ASSUME NEW v \in Values, push(v) PROVE TypeOK'
  BY <1>1, <1>2 DEF push, TypeOK
<1>3. CASE pop
  BY <1>1, <1>3 DEF pop, TypeOK
<1>4. CASE UNCHANGED vars
  BY <1>4 DEF vars, TypeOK
<1> QED BY <1>2, <1>3, <1>4 DEF Next

\* Every reachable state is well typed: head and tail stay inside data.
THEOREM TypeCorrect == Spec => []TypeOK
<1>1. Init => TypeOK
  BY FifoAssumption DEF Init, TypeOK, Places
<1> QED BY <1>1, TypeStep, PTL DEF Spec

-----------------------------------------------------------------------------
(* Refinement *)

Any == Values \cup {NoValue}

QueuedIs ==
  /\ size \in 0 .. N - 1
  /\ Queued \in Seq(Any) /\ Len(Queued) = size
  /\ \A j \in 1 .. size : Queued[j] = data[(tail + j - 1) % N]

LEMMA QueuedIsSeq == TypeOK => QueuedIs
<1> SUFFICES ASSUME TypeOK PROVE QueuedIs
  OBVIOUS
<1>1. size \in 0 .. N - 1
  BY SizeValue, FifoAssumption DEF TypeOK, Places, SizeIs
<1>2. \A j \in 1 .. size : data[(tail + j - 1) % N] \in Any
  <2> TAKE j \in 1 .. size
  <2>1. j \in 1 .. N
    BY <1>1, FifoAssumption
  <2>2. (tail + j - 1) % N \in Places
    BY <2>1, PlaceValue
  <2> QED BY <2>2 DEF TypeOK, Any
<1>3. Queued \in [1 .. size -> Any]
  BY <1>2 DEF Queued
<1> QED BY <1>1, <1>3 DEF Queued, QueuedIs

\* A push that succeeds appends.
LEMMA PushPuts ==
  ASSUME TypeOK, TypeOK', NEW v \in Values, push(v), ~(N <= size + 1)
  PROVE  Fifo!Put(v)
<1>1. /\ data' = [data EXCEPT ![head] = v] /\ head' = Rem(head + 1, N)
      /\ tail' = tail /\ output' = output
  BY DEF push
<1>2. /\ head \in Int /\ tail \in Int /\ 0 <= head /\ head < N /\ 0 <= tail /\ tail < N
      /\ N \in Int
  BY FifoAssumption DEF TypeOK, Places
<1>3. size = IF head >= tail THEN head - tail ELSE head - tail + N
  BY SizeValue DEF SizeIs
<1>4. size' = IF head' >= tail THEN head' - tail ELSE head' - tail + N
  <2>1. SizeIs'
    BY SizeValue, PTL
  <2> QED BY <1>1, <2>1 DEF SizeIs
<1>5. head' = IF head + 1 < N THEN head + 1 ELSE 0
  <2>1. head + 1 \in 0 .. 2 * N - 1
    BY <1>2, FifoAssumption
  <2> QED BY <1>1, <1>2, <2>1, RemSmall
<1>6. size' = size + 1 /\ size < N - 1 /\ size \in Nat
  BY <1>2, <1>3, <1>4, <1>5
<1>7. /\ Queued \in Seq(Any) /\ Len(Queued) = size
      /\ \A j \in 1 .. size : Queued[j] = data[(tail + j - 1) % N]
  BY QueuedIsSeq DEF QueuedIs
<1>8. /\ Queued' \in Seq(Any) /\ Len(Queued') = size + 1
      /\ \A j \in 1 .. size + 1 : Queued'[j] = data'[(tail + j - 1) % N]
  <2>1. QueuedIs'
    BY QueuedIsSeq, PTL
  <2> QED BY <1>1, <1>6, <2>1 DEF QueuedIs
<1>9. \A j \in 1 .. size + 1 :
        data'[(tail + j - 1) % N] =
          IF j = size + 1 THEN v ELSE data[(tail + j - 1) % N]
  <2> TAKE j \in 1 .. size + 1
  <2>1. j \in 1 .. N
    BY <1>2, <1>6
  <2>2. /\ (tail + j - 1) % N \in Places
        /\ (tail + j - 1) % N = IF tail + j - 1 < N THEN tail + j - 1 ELSE tail + j - 1 - N
    BY <2>1, PlaceValue
  <2>3. (tail + j - 1) % N = head <=> j = size + 1
    <3>1. PICK p \in Int : p = (tail + j - 1) % N
      BY <2>2 DEF Places
    <3>2. p = IF tail + j - 1 < N THEN tail + j - 1 ELSE tail + j - 1 - N
      BY <2>2, <3>1
    <3>3. p = head <=> j = size + 1
      BY <1>2, <1>3, <1>6, <2>1, <3>2
    <3> QED BY <3>1, <3>3
  <2> QED BY <1>1, <2>2, <2>3 DEF TypeOK
<1>10. Queued' = Append(Queued, v)
  <2>1. /\ Append(Queued, v) \in Seq(Any) /\ Len(Append(Queued, v)) = size + 1
        /\ \A j \in 1 .. size : Append(Queued, v)[j] = Queued[j]
        /\ Append(Queued, v)[size + 1] = v
    BY <1>7, AppendProperties DEF Any
  <2>2. \A j \in 1 .. size + 1 : Queued'[j] = Append(Queued, v)[j]
    <3> TAKE j \in 1 .. size + 1
    <3>1. Queued'[j] = IF j = size + 1 THEN v ELSE data[(tail + j - 1) % N]
      BY <1>8, <1>9
    <3>2. CASE j = size + 1
      BY <2>1, <3>1, <3>2
    <3>3. CASE j # size + 1
      <4>1. j \in 1 .. size
        BY <1>6, <3>3
      <4> QED BY <1>7, <2>1, <3>1, <3>3, <4>1
    <3> QED BY <3>2, <3>3
  <2> QED BY <1>8, <2>1, <2>2, SeqEqual
<1> QED BY <1>1, <1>6, <1>7, <1>10 DEF Fifo!Put

\* A pop that succeeds takes the oldest value.
LEMMA PopGets ==
  ASSUME TypeOK, TypeOK', pop, ~isEmpty
  PROVE  Fifo!Get
<1>1. /\ output' = data[tail] /\ tail' = Rem(tail + 1, N)
      /\ head' = head /\ data' = data
  BY DEF pop
<1>2. /\ head \in Int /\ tail \in Int /\ 0 <= head /\ head < N /\ 0 <= tail /\ tail < N
      /\ N \in Int /\ head # tail
  BY FifoAssumption DEF TypeOK, Places, isEmpty
<1>3. size = IF head >= tail THEN head - tail ELSE head - tail + N
  BY SizeValue DEF SizeIs
<1>4. size' = IF head >= tail' THEN head - tail' ELSE head - tail' + N
  <2>1. SizeIs'
    BY SizeValue, PTL
  <2> QED BY <1>1, <2>1 DEF SizeIs
<1>5. tail' = IF tail + 1 < N THEN tail + 1 ELSE 0
  <2>1. tail + 1 \in 0 .. 2 * N - 1
    BY <1>2, FifoAssumption
  <2> QED BY <1>1, <1>2, <2>1, RemSmall
<1>6. size' = size - 1 /\ size \in 1 .. N - 1
  BY <1>2, <1>3, <1>4, <1>5
<1>7. /\ Queued \in Seq(Any) /\ Len(Queued) = size
      /\ \A j \in 1 .. size : Queued[j] = data[(tail + j - 1) % N]
  BY QueuedIsSeq DEF QueuedIs
<1>8. /\ Queued' \in Seq(Any) /\ Len(Queued') = size - 1
      /\ \A j \in 1 .. size - 1 : Queued'[j] = data[(tail' + j - 1) % N]
  <2>1. QueuedIs'
    BY QueuedIsSeq, PTL
  <2> QED BY <1>1, <1>6, <2>1 DEF QueuedIs
<1>9. \A j \in 1 .. size - 1 : (tail' + j - 1) % N = (tail + (j + 1) - 1) % N
  <2> TAKE j \in 1 .. size - 1
  <2>1. j + 1 \in 1 .. N /\ j \in 1 .. N
    BY <1>2, <1>6
  <2>2. (tail + (j + 1) - 1) % N = IF tail + j < N THEN tail + j ELSE tail + j - N
    BY <1>2, <2>1, PlaceValue
  <2>3. (tail' + j - 1) % N = IF tail' + j - 1 < N THEN tail' + j - 1 ELSE tail' + j - 1 - N
    BY <2>1, PlaceArith DEF TypeOK
  <2> QED BY <1>2, <1>3, <1>5, <1>6, <2>1, <2>2, <2>3
<1>10. Queued # <<>> /\ Head(Queued) = Queued[1]
  BY <1>6, <1>7
<1>11. Queued' = Tail(Queued)
  <2>1. /\ Tail(Queued) \in Seq(Any) /\ Len(Tail(Queued)) = size - 1
        /\ \A j \in 1 .. size - 1 : Tail(Queued)[j] = Queued[j + 1]
    BY <1>7, <1>10, HeadTailProperties
  <2>2. \A j \in 1 .. size - 1 : Queued'[j] = Tail(Queued)[j]
    <3> TAKE j \in 1 .. size - 1
    <3>1. j + 1 \in 1 .. size
      BY <1>6
    <3>2. Queued[j + 1] = data[(tail + (j + 1) - 1) % N]
      BY <1>7, <3>1
    <3> QED BY <1>8, <1>9, <2>1, <3>2
  <2> QED BY <1>8, <2>1, <2>2, SeqEqual
<1>12. Queued[1] = data[tail]
  <2>1. 1 \in 1 .. N /\ 1 \in 1 .. size
    BY <1>2, <1>6
  <2>2. (tail + 1 - 1) % N = tail
    BY <1>2, <2>1, PlaceValue
  <2> QED BY <1>7, <2>1, <2>2
<1> QED BY <1>1, <1>10, <1>11, <1>12 DEF Fifo!Get

\* Every push is a Put or changes nothing, every pop is a Get or changes
\* nothing: the generated fifo is a bounded queue of N - 1 values.
THEOREM Refinement == Spec => ImplementsFifo
<1>1. Init => Fifo!Init
  <2> SUFFICES ASSUME Init PROVE Fifo!Init
    OBVIOUS
  <2>1. TypeOK
    BY FifoAssumption DEF Init, TypeOK, Places
  <2>2. size = 0
    BY <2>1, SizeValue DEF Init, SizeIs
  <2>3. Queued = <<>>
    BY <2>1, <2>2, QueuedIsSeq DEF QueuedIs
  <2> QED BY <2>3 DEF Init, Fifo!Init
<1>2. TypeOK /\ TypeOK' /\ [Next]_vars => [Fifo!Next]_(Fifo!vars)
  <2> SUFFICES ASSUME TypeOK, TypeOK', [Next]_vars
               PROVE  [Fifo!Next]_(Fifo!vars)
    OBVIOUS
  <2>1. ASSUME NEW v \in Values, push(v), ~(N <= size + 1) PROVE Fifo!Next
    BY <2>1, PushPuts DEF Fifo!Next
  <2>2. ASSUME pop, ~isEmpty PROVE Fifo!Next
    BY <2>2, PopGets DEF Fifo!Next
  <2>3. ASSUME UNCHANGED <<head, tail, data, output>> PROVE UNCHANGED Fifo!vars
    BY <2>3 DEF Fifo!vars, Queued, size, Rem
  <2>4. ASSUME NEW v \in Values, push(v), N <= size + 1
        PROVE  UNCHANGED <<head, tail, data, output>>
    BY <2>4 DEF push
  <2>5. ASSUME pop, isEmpty PROVE UNCHANGED <<head, tail, data, output>>
    BY <2>5 DEF pop
  <2>6. CASE UNCHANGED vars
    BY <2>3, <2>6 DEF vars
  <2> QED BY <2>1, <2>2, <2>3, <2>4, <2>5, <2>6 DEF Next
<1> QED
  BY <1>1, <1>2, TypeCorrect, PTL DEF Spec, ImplementsFifo, Fifo!Spec

-----------------------------------------------------------------------------
(* maxProfit *)

\* The loop's invariant holds before the loop and every step of it keeps it, so
\* that the ints of maxProfit never overflow and stay what the loop needs.
THEOREM LoopTheorem == ProfitSpec => []LoopInvariant
<1>1. ProfitInit => LoopInvariant
  BY PriceAssumption DEF ProfitInit, LoopInvariant
<1>2. LoopInvariant /\ [ProfitNext]_profitVars => LoopInvariant'
  <2> SUFFICES ASSUME LoopInvariant, [ProfitNext]_profitVars PROVE LoopInvariant'
    OBVIOUS
  <2> USE PriceAssumption
  <2>1. CASE Enter
    <3>1. CASE n = 0
      BY <2>1, <3>1 DEF Enter, LoopInvariant, Best
    <3>2. CASE n # 0
      <4>1. prices[0] \in Price /\ n >= 1
        BY <3>2 DEF LoopInvariant
      <4>2. Best(i)'
        BY <2>1, <3>2 DEF Enter, LoopInvariant, Best
      <4>3. /\ pc' = "loop" /\ n' = n /\ prices' = prices /\ i' = 1
            /\ min_price' = prices[0] /\ max_profit' = max_profit
        BY <2>1, <3>2 DEF Enter
      <4>4. /\ \A k \in 0 .. i' - 1 : min_price' <= prices'[k]
            /\ \E k \in 0 .. i' - 1 : min_price' = prices'[k]
        <5>1. prices[0] \in 0 .. IntMax
          BY <4>1
        <5>2. 0 .. i' - 1 = {0} /\ min_price' = prices'[0] /\ min_price' \in Int
          BY <4>3, <5>1
        <5> QED
          BY <5>2
      <4> QED
        BY <4>1, <4>2, <4>3, <4>4 DEF LoopInvariant
    <3> QED
      BY <3>1, <3>2
  <2>2. CASE Loop
    <3>1. /\ i \in 1 .. n - 1 /\ prices[i] \in 0 .. IntMax
          /\ i' = i + 1 /\ prices' = prices /\ n' = n /\ pc' = "loop"
          /\ \A k \in 0 .. i - 1 : prices[k] \in 0 .. IntMax /\ min_price <= prices[k]
      <4>1. i \in 1 .. n - 1 /\ n \in Nat /\ prices \in [0 .. n - 1 -> Price]
        BY <2>2 DEF Loop, LoopInvariant
      <4>2. \A k \in 0 .. i : prices[k] \in 0 .. IntMax
        <5> TAKE k \in 0 .. i
        <5>1. k \in 0 .. n - 1
          BY <4>1
        <5>2. prices[k] \in Price
          BY <4>1, <5>1
        <5> QED
          BY <5>2
      <4>3. \A k \in 0 .. i - 1 : min_price <= prices[k]
        BY <2>2 DEF Loop, LoopInvariant
      <4> QED
        BY <2>2, <4>1, <4>2, <4>3 DEF Loop
    <3>2. PICK c \in 0 .. i - 1 : min_price = prices[c]
      BY <2>2 DEF Loop, LoopInvariant
    <3>3. min_price' \in 0 .. IntMax /\ max_profit' \in 0 .. IntMax
      BY <2>2, <3>1 DEF Loop, LoopInvariant
    <3>4. \A k \in 0 .. i : min_price' <= prices[k]
      BY <2>2, <3>1, <3>3 DEF Loop, LoopInvariant
    <3>5. \E k \in 0 .. i : min_price' = prices[k]
      BY <2>2, <3>1, <3>2 DEF Loop, LoopInvariant
    <3>6. /\ max_profit' >= max_profit /\ prices[i] - min_price <= max_profit'
          /\ max_profit' = max_profit \/ max_profit' = prices[i] - prices[c]
      BY <2>2, <3>1, <3>2 DEF Loop, LoopInvariant
    <3>7. Best(i)
      BY <2>2 DEF Loop, LoopInvariant
    <3>8. ASSUME NEW s \in 0 .. i, NEW b \in 0 .. i, b < s
          PROVE  prices[s] - prices[b] <= max_profit'
      <4>0. min_price \in Int /\ max_profit \in Int /\ max_profit' \in Int
        BY <3>3 DEF LoopInvariant
      <4>1. CASE s = i
        <5>1. b \in 0 .. i - 1
          BY <3>1, <3>8, <4>1
        <5>2. prices[b] \in Int /\ prices[i] \in Int /\ min_price <= prices[b]
          BY <3>1, <5>1
        <5> QED
          BY <3>6, <4>0, <4>1, <5>2
      <4>2. CASE s # i
        <5>1. s \in 0 .. i - 1 /\ b \in 0 .. i - 1
          BY <3>1, <3>8, <4>2
        <5>2. prices[s] - prices[b] <= max_profit
          BY <3>7, <3>8, <5>1 DEF Best
        <5>3. prices[s] \in Int /\ prices[b] \in Int
          BY <3>1, <5>1
        <5> QED
          BY <3>6, <4>0, <5>2, <5>3
      <4> QED
        BY <4>1, <4>2
    <3>9. \/ max_profit' = 0
          \/ \E s \in 0 .. i, b \in 0 .. i : b < s /\ max_profit' = prices[s] - prices[b]
      BY <3>1, <3>2, <3>6, <3>7 DEF Best
    <3>10. Best(i)'
      BY <3>1, <3>8, <3>9 DEF Best
    <3> QED
      BY <3>1, <3>3, <3>4, <3>5, <3>10 DEF LoopInvariant
  <2>3. CASE Return
    BY <2>3 DEF Return, LoopInvariant, Best
  <2>4. CASE UNCHANGED profitVars
    BY <2>4 DEF profitVars, LoopInvariant, Best
  <2> QED
    BY <2>1, <2>2, <2>3, <2>4 DEF ProfitNext, Done
<1> QED
  BY <1>1, <1>2, PTL DEF ProfitSpec

\* For every vector of prices maxProfit returns the best gain of a purchase and
\* a later sale.
THEOREM ReturnsBestTheorem == ProfitSpec => []ReturnsBest
<1>1. LoopInvariant => ReturnsBest
  BY DEF LoopInvariant, ReturnsBest
<1> QED
  BY <1>1, LoopTheorem, PTL

-----------------------------------------------------------------------------
(* The C queue. *)

Content == Elements \cup {Garbage}

\* What holds of a queue while C defines what it does.
Sound ==
  /\ elementCapacity \in Capacities /\ elementSize \in ElementSizes
  /\ begin \in 0 .. elementCapacity - 1 /\ end \in 0 .. elementCapacity - 1
  /\ isFull = FALSE
  /\ pDataArray \in [0 .. elementCapacity - 1 -> Content]

QueueInv == undefined \in BOOLEAN /\ (~undefined => Sound)

-----------------------------------------------------------------------------
(* The arithmetic of a ring of c places. *)

LEMMA ModAhead ==
  ASSUME NEW c \in Nat \ {0}, NEW a \in 0 .. 2 * c - 1
  PROVE  a % c = IF a < c THEN a ELSE a - c
  OBVIOUS

LEMMA ModBehind ==
  ASSUME NEW c \in Nat \ {0}, NEW a \in 1 - c .. -1
  PROVE  a % c = a + c
<1>1. a + c \in 0 .. c - 1
  OBVIOUS
<1>2. (a + c) % c = a + c
  BY <1>1
<1> QED
  BY <1>1, <1>2

\* How many places lie from b to e, and the k-th of them.
Dist(b, e, c) == IF b <= e THEN e - b ELSE e - b + c
Spot(b, k, c) == IF b + k - 1 < c THEN b + k - 1 ELSE b + k - 1 - c
Next1(a, c) == IF a + 1 < c THEN a + 1 ELSE 0

LEMMA DistIs ==
  ASSUME NEW c \in Nat \ {0}, NEW b \in 0 .. c - 1, NEW e \in 0 .. c - 1
  PROVE  (e - b) % c = Dist(b, e, c) /\ Dist(b, e, c) \in 0 .. c - 1
<1>1. CASE b <= e
  <2>1. PICK a \in 0 .. 2 * c - 1 : a = e - b /\ a < c
    BY <1>1
  <2>2. a % c = a
    BY <2>1, ModAhead
  <2> QED
    BY <1>1, <2>1, <2>2 DEF Dist
<1>2. CASE b > e
  <2>1. PICK a \in 1 - c .. -1 : a = e - b
    BY <1>2
  <2>2. a % c = a + c
    BY <2>1, ModBehind
  <2> QED
    BY <1>2, <2>1, <2>2 DEF Dist
<1> QED
  BY <1>1, <1>2

LEMMA SpotIs ==
  ASSUME NEW c \in Nat \ {0}, NEW b \in 0 .. c - 1, NEW k \in 1 .. c
  PROVE  (b + k - 1) % c = Spot(b, k, c) /\ Spot(b, k, c) \in 0 .. c - 1
<1>1. PICK a \in 0 .. 2 * c - 1 : a = b + k - 1
  OBVIOUS
<1>2. a % c = IF a < c THEN a ELSE a - c
  BY ModAhead
<1> QED
  BY <1>1, <1>2 DEF Spot

LEMMA NextIs ==
  ASSUME NEW c \in Nat \ {0}, NEW a \in 0 .. c - 1
  PROVE  (a + 1) % c = Next1(a, c) /\ Next1(a, c) \in 0 .. c - 1
<1>1. PICK x \in 0 .. 2 * c - 1 : x = a + 1
  OBVIOUS
<1>2. x % c = IF x < c THEN x ELSE x - c
  BY ModAhead
<1> QED
  BY <1>1, <1>2 DEF Next1

-----------------------------------------------------------------------------
LEMMA Sizes == Sound =>
  /\ elementCapacity \in Nat \ {0} /\ elementSize \in Nat \ {0} /\ Width \in Nat
  /\ elementCapacity < Width
  BY QueueAssumption DEF Sound

\* Held without its modulo.
HeldIs ==
  LET h == Dist(begin, end, elementCapacity)
  IN  /\ h \in 0 .. elementCapacity - 1
      /\ Held \in Seq(Content) /\ Len(Held) = h
      /\ \A k \in 1 .. h :
           /\ Spot(begin, k, elementCapacity) \in 0 .. elementCapacity - 1
           /\ Held[k] = pDataArray[Spot(begin, k, elementCapacity)]

LEMMA HeldValue == Sound => HeldIs
<1> SUFFICES ASSUME Sound PROVE HeldIs
  OBVIOUS
<1> DEFINE c == elementCapacity  h == Dist(begin, end, c)
<1>1. c \in Nat \ {0} /\ begin \in 0 .. c - 1 /\ end \in 0 .. c - 1
  BY Sizes DEF Sound
<1>2. (end - begin) % c = h /\ h \in 0 .. c - 1
  BY <1>1, DistIs
<1>3. ASSUME NEW k \in 1 .. h
      PROVE  (begin + k - 1) % c = Spot(begin, k, c) /\ Spot(begin, k, c) \in 0 .. c - 1
  <2>1. k \in 1 .. c
    BY <1>1, <1>2
  <2> QED
    BY <1>1, <2>1, SpotIs
<1>4. pDataArray \in [0 .. c - 1 -> Content]
  BY DEF Sound
<1>5. Held = [k \in 1 .. h |-> pDataArray[(begin + k - 1) % c]]
  BY <1>2 DEF Held
<1> HIDE DEF h, c
<1>6. Held \in [1 .. h -> Content] /\ \A k \in 1 .. h : Held[k] = pDataArray[Spot(begin, k, c)]
  BY <1>3, <1>4, <1>5
<1>7. Held \in Seq(Content) /\ Len(Held) = h
  BY <1>1, <1>2, <1>6
<1> QED
  BY <1>2, <1>3, <1>6, <1>7 DEF h, c, HeldIs

-----------------------------------------------------------------------------
(* What the operations do to a sound queue. *)

LEMMA SizeAsked == Sound =>
  GetSize = IF begin <= end THEN end - begin ELSE end - begin + Width
<1> SUFFICES ASSUME Sound
             PROVE  GetSize = IF begin <= end THEN end - begin ELSE end - begin + Width
  OBVIOUS
<1>1. /\ begin \in 0 .. elementCapacity - 1 /\ end \in 0 .. elementCapacity - 1
      /\ elementCapacity \in Nat \ {0} /\ Width \in Nat \ {0} /\ elementCapacity < Width
  BY Sizes DEF Sound
<1>2. CASE begin <= end
  <2>1. PICK a \in 0 .. 2 * Width - 1 : a = end - begin /\ a < Width
    BY <1>1, <1>2
  <2>2. a % Width = a
    BY <1>1, <2>1, ModAhead
  <2> QED
    BY <1>2, <2>1, <2>2 DEF GetSize, uint16
<1>3. CASE begin > end
  <2>1. PICK a \in 1 - Width .. -1 : a = end - begin
    BY <1>1, <1>3
  <2>2. a % Width = a + Width
    BY <1>1, <2>1, ModBehind
  <2> QED
    BY <1>1, <1>3, <2>1, <2>2 DEF GetSize, uint16
<1> QED
  BY <1>1, <1>2, <1>3

\* The space enqueue computes is never 0, so that it always stores.
LEMMA EnqueueStores ==
  ASSUME Sound, NEW v, Enqueue(v)
  PROVE  /\ isFull' = FALSE
         /\ end' = Next1(end, elementCapacity)
         /\ pDataArray' = [pDataArray EXCEPT ![end] = v]
         /\ undefined' \in BOOLEAN
         /\ UNCHANGED <<begin, elementSize, elementCapacity, pData>>
<1>1. /\ begin \in 0 .. elementCapacity - 1 /\ end \in 0 .. elementCapacity - 1
      /\ elementCapacity \in Nat \ {0} /\ Width \in Nat \ {0} /\ elementCapacity < Width
  BY Sizes DEF Sound
<1>2. PICK x \in 0 .. 2 * elementCapacity - 1 : x = begin + end
  BY <1>1
<1>3. x % elementCapacity \in 0 .. elementCapacity - 1
  <2>1. x % elementCapacity = IF x < elementCapacity THEN x ELSE x - elementCapacity
    BY <1>1, ModAhead
  <2> QED
    BY <1>1, <2>1
<1>4. PICK y \in 0 .. 2 * Width - 1 :
        y = elementCapacity - (x % elementCapacity) /\ y < Width /\ y # 0
  BY <1>1, <1>3
<1>5. y % Width = y
  BY <1>1, <1>4, ModAhead
<1>6. uint16(elementCapacity - ((begin + end) % elementCapacity)) # 0
  BY <1>2, <1>4, <1>5 DEF uint16
<1>7. (end + 1) % elementCapacity = Next1(end, elementCapacity)
  BY <1>1, NextIs
<1>8. isFull = FALSE
  BY DEF Sound
<1> QED
  BY <1>6, <1>7, <1>8 DEF Enqueue, Beyond

\* A capacity the elements seem to fit into and whose bytes hold the old ones is
\* not a smaller one, and if the elements wrap around the two are large.
LEMMA CapacityGrows ==
  ASSUME Sound, NEW c \in Capacities, SetCapacity(c), ~undefined'
  PROVE  /\ c \in Nat \ {0} /\ elementCapacity <= c
         /\ begin <= end \/ elementCapacity + c > Width
<1> DEFINE old == elementCapacity  s == elementSize
<1>1. /\ begin \in 0 .. old - 1 /\ end \in 0 .. old - 1
      /\ old \in Nat \ {0} /\ s \in Nat \ {0} /\ Width \in Nat \ {0}
  BY Sizes DEF Sound
<1>2. c \in Nat \ {0} /\ c < Width
  BY QueueAssumption
<1>3. (c * s) % Width >= s * old
  <2>1. c * s \in Nat /\ s * old \in Nat
    BY <1>1, <1>2
  <2>2. (c * s) % Width \in Nat
    BY <1>1, <2>1
  <2>3. ~(s * old > (c * s) % Width)
    BY DEF SetCapacity, Reallocate, uint16
  <2> QED
    BY <2>1, <2>2, <2>3
<1>4. s * old <= c * s
  <2>1. PICK p \in Nat : p = c * s
    BY <1>1, <1>2
  <2>2. p % Width <= p
    BY <1>1
  <2>3. s * old \in Nat /\ p % Width \in Nat /\ p % Width >= s * old
    BY <1>1, <1>3, <2>1
  <2> QED
    BY <2>1, <2>2, <2>3
<1> HIDE DEF old, s
<1>5. old <= c
  <2>1. ASSUME c < old PROVE FALSE
    <3>1. c * s < s * old
      BY <1>1, <1>2, <2>1
    <3> QED
      BY <1>1, <1>2, <1>4, <3>1
  <2> QED
    BY <1>1, <1>2, <2>1
<1>6. GetSize <= c
  BY DEF SetCapacity
<1>7. begin <= end \/ old + c > Width
  BY <1>1, <1>2, <1>6, SizeAsked
<1> QED
  BY <1>2, <1>5, <1>7 DEF old

-----------------------------------------------------------------------------
(* The invariant. *)

LEMMA InitInv == QueueInit => QueueInv
<1> SUFFICES ASSUME QueueInit PROVE Sound /\ undefined = FALSE
  BY DEF QueueInv, QueueInit
<1>1. elementCapacity \in Nat \ {0}
  BY QueueAssumption DEF QueueInit
<1> QED
  BY <1>1 DEF QueueInit, Sound, Content

LEMMA InvStep == QueueInv /\ [QueueNext]_queueVars => QueueInv'
<1> SUFFICES ASSUME QueueInv, [QueueNext]_queueVars PROVE QueueInv'
  OBVIOUS
<1>1. CASE UNCHANGED queueVars
  BY <1>1 DEF queueVars, QueueInv, Sound
<1>2. ASSUME Sound, ~undefined PROVE
        /\ elementCapacity \in Nat \ {0}
        /\ begin \in 0 .. elementCapacity - 1 /\ end \in 0 .. elementCapacity - 1
        /\ pDataArray \in [0 .. elementCapacity - 1 -> Content]
        /\ 0 \in 0 .. elementCapacity - 1
  BY <1>2, Sizes DEF Sound
<1>3. ASSUME Sound, ~undefined, Dequeue PROVE QueueInv'
  <2>1. (begin + 1) % elementCapacity \in 0 .. elementCapacity - 1
    BY <1>2, <1>3, NextIs
  <2> QED
    BY <1>3, <2>1 DEF Dequeue, Beyond, QueueInv, Sound
<1>4. ASSUME Sound, ~undefined, Clear PROVE QueueInv'
  BY <1>2, <1>4 DEF Clear, QueueInv, Sound
<1>5. ASSUME Sound, ~undefined, NEW v \in Elements, Enqueue(v) PROVE QueueInv'
  <2>1. Next1(end, elementCapacity) \in 0 .. elementCapacity - 1
    BY <1>2, <1>5, NextIs
  <2>2. [pDataArray EXCEPT ![end] = v] \in [0 .. elementCapacity - 1 -> Content]
    BY <1>2, <1>5 DEF Content
  <2>3. /\ isFull' = FALSE /\ end' = Next1(end, elementCapacity)
        /\ pDataArray' = [pDataArray EXCEPT ![end] = v]
        /\ undefined' \in BOOLEAN /\ UNCHANGED <<begin, elementSize, elementCapacity>>
    BY <1>5, EnqueueStores
  <2> QED
    BY <1>5, <2>1, <2>2, <2>3 DEF QueueInv, Sound
<1>6. ASSUME Sound, ~undefined, NEW v \in Elements,
             NEW k \in 0 .. elementCapacity - 1, SetData(k, v)
      PROVE  QueueInv'
  <2>1. pDataArray' \in [0 .. elementCapacity - 1 -> Content]
    BY <1>2, <1>6 DEF SetData, Content
  <2> QED
    BY <1>6, <2>1 DEF SetData, Beyond, QueueInv, Sound
<1>7. ASSUME Sound, ~undefined, NEW c \in Capacities, SetCapacity(c) PROVE QueueInv'
  <2>1. undefined' \in BOOLEAN
    BY <1>7 DEF SetCapacity, Reallocate
  <2>2. ASSUME ~undefined' PROVE Sound'
    <3>1. c \in Nat \ {0} /\ elementCapacity <= c
      BY <1>7, <2>2, CapacityGrows
    <3>2. begin \in 0 .. c - 1 /\ end \in 0 .. c - 1
      BY <1>2, <1>7, <3>1
    <3>3. pDataArray' \in [0 .. c - 1 -> Content]
      BY <1>2, <1>7, <3>1 DEF SetCapacity, Content
    <3> QED
      BY <1>7, <3>2, <3>3 DEF SetCapacity, Sound
  <2> QED
    BY <2>1, <2>2 DEF QueueInv
<1>8. ASSUME Sound, ~undefined, NEW s \in ElementSizes, SetElementSize(s) PROVE QueueInv'
  <2>1. undefined' \in BOOLEAN
    BY <1>8 DEF SetElementSize, Reallocate
  <2>2. pDataArray' \in [0 .. elementCapacity - 1 -> Content]
    BY <1>2, <1>8 DEF SetElementSize, Content
  <2> QED
    BY <1>8, <2>1, <2>2 DEF SetElementSize, QueueInv, Sound
<1> QED
  BY <1>1, <1>3, <1>4, <1>5, <1>6, <1>7, <1>8 DEF QueueNext, QueueInv

\* While C defines what the queue does, its indices lie inside its array and it
\* is never marked full.
THEOREM Invariance == QueueSpec => []QueueInv
<1> QED
  BY InitInv, InvStep, PTL DEF QueueSpec

-----------------------------------------------------------------------------
(* The refinement, one operation at a time. *)

LEMMA HeldNow ==
  ASSUME Sound
  PROVE  /\ elementCapacity \in Nat \ {0}
         /\ begin \in 0 .. elementCapacity - 1 /\ end \in 0 .. elementCapacity - 1
         /\ pDataArray \in [0 .. elementCapacity - 1 -> Content]
         /\ Dist(begin, end, elementCapacity) \in 0 .. elementCapacity - 1
         /\ Held \in Seq(Content) /\ Len(Held) = Dist(begin, end, elementCapacity)
         /\ \A k \in 1 .. Dist(begin, end, elementCapacity) :
              /\ Spot(begin, k, elementCapacity) \in 0 .. elementCapacity - 1
              /\ Held[k] = pDataArray[Spot(begin, k, elementCapacity)]
  BY Sizes, HeldValue DEF Sound, HeldIs

\* The same of the next state, for a step that keeps the capacity.
LEMMA HeldNext ==
  ASSUME Sound', UNCHANGED elementCapacity
  PROVE  /\ Held' \in Seq(Content) /\ Len(Held') = Dist(begin', end', elementCapacity)
         /\ \A k \in 1 .. Dist(begin', end', elementCapacity) :
              Held'[k] = pDataArray'[Spot(begin', k, elementCapacity)]
<1>1. HeldIs'
  BY HeldValue, PTL
<1> QED
  BY <1>1 DEF HeldIs

LEMMA EnqueuePuts ==
  ASSUME Sound, Sound', undefined = FALSE, undefined' = FALSE,
         NEW v \in Elements, Enqueue(v)
  PROVE  Promise!Put(v)
<1> DEFINE c == elementCapacity  h == Dist(begin, end, c)
<1>1. /\ end' = Next1(end, c) /\ pDataArray' = [pDataArray EXCEPT ![end] = v]
      /\ UNCHANGED <<begin, elementSize, elementCapacity, pData>> /\ undefined' = undefined
  BY EnqueueStores
<1>2. /\ c \in Nat \ {0} /\ begin \in 0 .. c - 1 /\ end \in 0 .. c - 1
      /\ pDataArray \in [0 .. c - 1 -> Content] /\ h \in 0 .. c - 1
      /\ Held \in Seq(Content) /\ Len(Held) = h
      /\ \A k \in 1 .. h : /\ Spot(begin, k, c) \in 0 .. c - 1
                           /\ Held[k] = pDataArray[Spot(begin, k, c)]
  BY HeldNow
<1> DEFINE m == Dist(begin, Next1(end, c), c)
<1>3. /\ Held' \in Seq(Content) /\ Len(Held') = m
      /\ \A k \in 1 .. m : Held'[k] = [pDataArray EXCEPT ![end] = v][Spot(begin, k, c)]
  BY <1>1, HeldNext
<1>4. m = IF h + 1 = c THEN 0 ELSE h + 1
  BY <1>2 DEF Dist, Next1
<1>5. \A k \in 1 .. h : Spot(begin, k, c) # end
  BY <1>2 DEF Spot, Dist
<1>6. h + 1 < c => Spot(begin, h + 1, c) = end
  BY <1>2 DEF Spot, Dist
<1> HIDE DEF c, h, m
<1>7. CASE h + 1 = c
  <2>1. Held' = <<>>
    BY <1>3, <1>4, <1>7
  <2> QED
    BY <1>1, <1>2, <1>7, <2>1 DEF Promise!Put, c
<1>8. CASE h + 1 # c
  <2>1. m = h + 1 /\ h \in Nat /\ h + 1 < c
    BY <1>2, <1>4, <1>8
  <2>2. /\ Append(Held, v) \in Seq(Content) /\ Len(Append(Held, v)) = h + 1
        /\ \A k \in 1 .. h : Append(Held, v)[k] = Held[k]
        /\ Append(Held, v)[h + 1] = v
    BY <1>2, AppendProperties DEF Content
  <2>3. \A k \in 1 .. h : Held'[k] = Held[k]
    <3> TAKE k \in 1 .. h
    <3>1. Held'[k] = [pDataArray EXCEPT ![end] = v][Spot(begin, k, c)]
      BY <1>3, <2>1
    <3>2. Spot(begin, k, c) \in 0 .. c - 1 /\ Spot(begin, k, c) # end
      BY <1>2, <1>5
    <3> QED
      BY <1>2, <3>1, <3>2
  <2>4. Held'[h + 1] = v
    <3>1. Held'[h + 1] = [pDataArray EXCEPT ![end] = v][Spot(begin, h + 1, c)]
      BY <1>3, <2>1
    <3>2. Spot(begin, h + 1, c) = end /\ end \in DOMAIN pDataArray
      BY <1>2, <1>6, <2>1
    <3> QED
      BY <3>1, <3>2
  <2>5. \A k \in 1 .. h + 1 : Held'[k] = Append(Held, v)[k]
    BY <2>1, <2>2, <2>3, <2>4
  <2>6. Held' = Append(Held, v)
    BY <1>3, <2>1, <2>2, <2>5, SeqEqual
  <2> QED
    BY <1>1, <1>2, <1>8, <2>6 DEF Promise!Put, c
<1> QED
  BY <1>7, <1>8

LEMMA DequeueTakes ==
  ASSUME Sound, Sound', undefined = FALSE, undefined' = FALSE,
         Dequeue
  PROVE  Promise!Take
<1> DEFINE c == elementCapacity  h == Dist(begin, end, c)  m == Dist(Next1(begin, c), end, c)
<1>1. /\ c \in Nat \ {0} /\ begin \in 0 .. c - 1 /\ end \in 0 .. c - 1 /\ begin # end
      /\ h \in 0 .. c - 1 /\ Held \in Seq(Content) /\ Len(Held) = h
      /\ \A k \in 1 .. h : Held[k] = pDataArray[Spot(begin, k, c)]
  BY HeldNow DEF Dequeue
<1>2. /\ begin' = Next1(begin, c) /\ pData' = pDataArray[begin]
      /\ UNCHANGED <<end, elementSize, elementCapacity, pDataArray>> /\ undefined' = undefined
  BY <1>1, NextIs DEF Dequeue
<1>3. /\ Held' \in Seq(Content) /\ Len(Held') = m
      /\ \A k \in 1 .. m : Held'[k] = pDataArray[Spot(Next1(begin, c), k, c)]
  BY <1>2, HeldNext
<1>4. m = h - 1 /\ h \in 1 .. c - 1
  BY <1>1 DEF Dist, Next1
<1>5. \A k \in 1 .. h - 1 : Spot(Next1(begin, c), k, c) = Spot(begin, k + 1, c)
  <2> TAKE k \in 1 .. h - 1
  <2>1. /\ c \in Int /\ begin \in Int /\ 0 <= begin /\ begin < c
        /\ k \in Int /\ 1 <= k /\ k < c - 1
    BY <1>1, <1>4
  <2> QED
    BY <2>1 DEF Next1, Spot
<1>6. Spot(begin, 1, c) = begin
  BY <1>1 DEF Spot
<1> HIDE DEF c, h, m
<1>7. /\ Held # <<>> /\ Head(Held) = Held[1]
      /\ Tail(Held) \in Seq(Content) /\ Len(Tail(Held)) = h - 1
      /\ \A k \in 1 .. h - 1 : Tail(Held)[k] = Held[k + 1]
  BY <1>1, <1>4, HeadTailProperties
<1>8. \A k \in 1 .. h - 1 : Held'[k] = Tail(Held)[k]
  <2> TAKE k \in 1 .. h - 1
  <2>1. k + 1 \in 1 .. h
    BY <1>4
  <2>2. Held[k + 1] = pDataArray[Spot(begin, k + 1, c)]
    BY <1>1, <2>1
  <2> QED
    BY <1>3, <1>4, <1>5, <1>7, <2>2
<1>9. Held' = Tail(Held)
  BY <1>3, <1>4, <1>7, <1>8, SeqEqual
<1>10. Head(Held) = pDataArray[begin]
  BY <1>1, <1>4, <1>6, <1>7
<1> QED
  BY <1>2, <1>7, <1>9, <1>10 DEF Promise!Take

LEMMA ClearClears ==
  ASSUME Sound, Sound', ~undefined, Clear
  PROVE  Promise!Clear
<1>1. /\ begin' = 0 /\ end' = 0 /\ elementCapacity \in Nat
      /\ UNCHANGED <<elementSize, elementCapacity, pData, undefined>>
  BY Sizes DEF Clear
<1>2. Dist(begin', end', elementCapacity) = 0
  BY <1>1 DEF Dist
<1>3. Held' = <<>>
  BY <1>1, <1>2, HeldNext
<1> QED
  BY <1>1, <1>3 DEF Promise!Clear

LEMMA SetDataReplaces ==
  ASSUME Sound, Sound', undefined = FALSE, undefined' = FALSE,
         NEW v \in Elements,
         NEW index \in 0 .. elementCapacity - 1, SetData(index, v)
  PROVE  Promise!Replace
<1> DEFINE c == elementCapacity  h == Dist(begin, end, c)
<1>1. /\ c \in Nat \ {0} /\ begin \in 0 .. c - 1 /\ end \in 0 .. c - 1
      /\ pDataArray \in [0 .. c - 1 -> Content]
      /\ h \in 0 .. c - 1 /\ Held \in Seq(Content) /\ Len(Held) = h
      /\ \A k \in 1 .. h : Held[k] = pDataArray[Spot(begin, k, c)]
  BY HeldNow
<1>2. /\ index \in Nat /\ index < end - begin
      /\ pDataArray' = [pDataArray EXCEPT ![begin + index] = v]
      /\ UNCHANGED <<begin, end, elementSize, elementCapacity, pData>> /\ undefined' = undefined
  <2>1. undefined' = undefined
    OBVIOUS
  <2>2. index \in Nat
    BY <1>1
  <2> QED
    BY <2>1, <2>2 DEF SetData
<1>3. /\ Held' \in Seq(Content) /\ Len(Held') = h
      /\ \A k \in 1 .. h : Held'[k] = [pDataArray EXCEPT ![begin + index] = v][Spot(begin, k, c)]
  BY <1>2, HeldNext
<1>4. h = end - begin /\ \A k \in 1 .. h : Spot(begin, k, c) = begin + k - 1
  BY <1>1, <1>2 DEF Dist, Spot
<1> HIDE DEF c, h
<1>5. index + 1 \in 1 .. h /\ DOMAIN Held = 1 .. h /\ h \in Nat
  BY <1>1, <1>2, <1>4
<1>6. \A k \in 1 .. h : Held'[k] = IF k = index + 1 THEN v ELSE Held[k]
  <2> TAKE k \in 1 .. h
  <2>1. begin + k - 1 \in 0 .. c - 1
    BY <1>1, <1>4
  <2>2. begin + k - 1 = begin + index <=> k = index + 1
    BY <1>1, <1>2, <1>5
  <2> QED
    BY <1>1, <1>3, <1>4, <2>1, <2>2
<1>7. [Held EXCEPT ![index + 1] = v] \in Seq(Content) /\ Len([Held EXCEPT ![index + 1] = v]) = h
  BY <1>1, <1>5 DEF Content
<1>8. \A k \in 1 .. h : Held'[k] = [Held EXCEPT ![index + 1] = v][k]
  BY <1>5, <1>6
<1>9. Held' = [Held EXCEPT ![index + 1] = v]
  BY <1>3, <1>7, <1>8, SeqEqual
<1> QED
  BY <1>2, <1>5, <1>9 DEF Promise!Replace

\* Elements that do not wrap around keep their places.
LEMMA SetCapacityGrows ==
  ASSUME Sound, Sound', ~undefined, ~undefined', NEW c \in Capacities, SetCapacity(c),
         begin <= end \/ c = elementCapacity
  PROVE  UNCHANGED Held
<1> DEFINE old == elementCapacity  h == Dist(begin, end, old)
<1>1. c \in Nat \ {0} /\ old <= c /\ (begin <= end \/ c = old)
  BY CapacityGrows
<1>2. /\ old \in Nat \ {0} /\ begin \in 0 .. old - 1 /\ end \in 0 .. old - 1
      /\ h \in 0 .. old - 1 /\ Held \in Seq(Content) /\ Len(Held) = h
      /\ \A k \in 1 .. h : /\ Spot(begin, k, old) \in 0 .. old - 1
                           /\ Held[k] = pDataArray[Spot(begin, k, old)]
  BY HeldNow
<1>3. /\ elementCapacity' = c /\ begin' = begin /\ end' = end
      /\ pDataArray' = [k \in 0 .. c - 1 |-> IF k < old THEN pDataArray[k] ELSE Garbage]
  BY DEF SetCapacity
<1>4. /\ Held' \in Seq(Content) /\ Len(Held') = Dist(begin, end, c)
      /\ \A k \in 1 .. Dist(begin, end, c) : Held'[k] = pDataArray'[Spot(begin, k, c)]
  <2>1. HeldIs'
    BY HeldValue, PTL
  <2> QED
    BY <1>3, <2>1 DEF HeldIs
<1>5. Dist(begin, end, c) = h /\ \A k \in 1 .. h : Spot(begin, k, c) = Spot(begin, k, old)
  BY <1>1, <1>2 DEF Dist, Spot
<1> HIDE DEF h
<1>6. \A k \in 1 .. h : Held'[k] = Held[k]
  <2> TAKE k \in 1 .. h
  <2>1. PICK a \in 0 .. old - 1 : a = Spot(begin, k, old)
    BY <1>2
  <2>2. pDataArray'[a] = pDataArray[a]
    BY <1>1, <1>2, <1>3
  <2> QED
    BY <1>2, <1>4, <1>5, <2>1, <2>2
<1> QED
  BY <1>2, <1>4, <1>5, <1>6, SeqEqual

\* Where the j-th element is in a ring that grew while it wrapped around: where
\* it was, in a new place, or where another was.
StretchIs(b, e, old, c, j) ==
  LET k == old - b  more == c - old  h == Dist(b, e, old)
  IN  /\ j <= k => j \in 1 .. h /\ Spot(b, j, c) = Spot(b, j, old)
      /\ j > k /\ j <= k + more => Spot(b, j, c) \in old .. c - 1
      /\ j > k + more => j - more \in 1 .. h /\ Spot(b, j, c) = Spot(b, j - more, old)

LEMMA StretchSpots ==
  ASSUME NEW old \in Nat, NEW c \in Nat, old < c,
         NEW b \in 0 .. old - 1, NEW e \in 0 .. old - 1, e < b,
         NEW j \in 1 .. Dist(b, e, c)
  PROVE  StretchIs(b, e, old, c, j)
<1>1. /\ old \in Int /\ c \in Int /\ b \in Int /\ e \in Int /\ j \in Int
      /\ 0 <= e /\ e < b /\ b < old /\ old < c /\ 1 <= j /\ j <= e - b + c
  BY DEF Dist
<1>2. Dist(b, e, old) = e - b + old
  BY <1>1 DEF Dist
<1>3. CASE j <= old - b
  BY <1>1, <1>2, <1>3 DEF Spot, StretchIs
<1>4. CASE j > old - b /\ j <= c - b
  BY <1>1, <1>4 DEF Spot, StretchIs
<1>5. CASE j > c - b
  <2>1. j - (c - old) \in 1 .. e - b + old
    BY <1>1, <1>5
  <2>2. Spot(b, j, c) = b + j - 1 - c /\ Spot(b, j - (c - old), old) = b + j - 1 - c
    BY <1>1, <1>5 DEF Spot
  <2>3. j > old - b
    BY <1>1, <1>5
  <2> QED
    BY <1>1, <1>2, <1>5, <2>1, <2>2, <2>3 DEF StretchIs
<1> QED
  BY <1>1, <1>2, <1>3, <1>4, <1>5

\* Between those that do, the new places end up.
LEMMA SetCapacityStretches ==
  ASSUME Sound, Sound', undefined = FALSE, undefined' = FALSE,
         NEW c \in Capacities, SetCapacity(c), begin > end, c # elementCapacity
  PROVE  Promise!Stretch
<1> DEFINE old == elementCapacity  h == Dist(begin, end, old)  more == c - old
           k == old - begin
           inserted == [j \in 1 .. h + more |->
             IF j <= k THEN Held[j] ELSE IF j <= k + more THEN Garbage ELSE Held[j - more]]
<1>1. /\ c \in Nat \ {0} /\ old < c /\ old + c > Width
      /\ begin \in Nat /\ end \in Nat /\ old \in Nat /\ end < begin
  <2>1. /\ c \in Nat \ {0} /\ old <= c /\ (begin <= end \/ old + c > Width)
    BY CapacityGrows
  <2>2. begin \in Nat /\ end \in Nat /\ old \in Nat
    BY Sizes DEF Sound
  <2> QED
    BY <2>1, <2>2
<1>2. /\ old \in Nat \ {0} /\ begin \in 0 .. old - 1 /\ end \in 0 .. old - 1
      /\ h \in 0 .. old - 1 /\ Held \in Seq(Content) /\ Len(Held) = h
      /\ \A j \in 1 .. h : /\ Spot(begin, j, old) \in 0 .. old - 1
                           /\ Held[j] = pDataArray[Spot(begin, j, old)]
  BY HeldNow
<1>3. /\ elementCapacity' = c /\ begin' = begin /\ end' = end
      /\ UNCHANGED <<elementSize, pData>> /\ undefined' = undefined
      /\ pDataArray' = [j \in 0 .. c - 1 |-> IF j < old THEN pDataArray[j] ELSE Garbage]
  BY DEF SetCapacity
<1>4. /\ Held' \in Seq(Content) /\ Len(Held') = Dist(begin, end, c)
      /\ \A j \in 1 .. Dist(begin, end, c) : Held'[j] = pDataArray'[Spot(begin, j, c)]
  <2>1. HeldIs'
    BY HeldValue, PTL
  <2> QED
    BY <1>3, <2>1 DEF HeldIs
<1>5. /\ Dist(begin, end, c) = h + more /\ more \in Nat \ {0} /\ h \in Nat /\ k \in 1 .. h
      /\ h = end + k
  BY <1>1, <1>2 DEF Dist
<1>6. ASSUME NEW j \in 1 .. h + more PROVE Held'[j] = inserted[j]
  <2>1. j \in 1 .. Dist(begin, end, c)
    BY <1>5
  <2>0. j \in Int /\ k \in Int /\ k + more \in Int
    BY <1>5
  <2>2. /\ j <= k => j \in 1 .. h /\ Spot(begin, j, c) = Spot(begin, j, old)
        /\ j > k /\ j <= k + more => Spot(begin, j, c) \in old .. c - 1
        /\ j > k + more => j - more \in 1 .. h /\ Spot(begin, j, c) = Spot(begin, j - more, old)
    <3>1. begin \in 0 .. old - 1 /\ end \in 0 .. old - 1
      BY <1>2
    <3>2. StretchIs(begin, end, old, c, j)
      <4>1. old \in Nat /\ c \in Nat /\ old < c /\ end < begin
        BY <1>1
      <4> HIDE DEF old, h, k, more, inserted
      <4> QED
        BY <2>1, <3>1, <4>1, StretchSpots
    <3> QED
      BY <3>2 DEF StretchIs
  <2>3. Held'[j] = pDataArray'[Spot(begin, j, c)]
    BY <1>4, <2>1
  <2>4. \A a \in 0 .. old - 1 : pDataArray'[a] = pDataArray[a]
    BY <1>1, <1>3
  <2>5. \A a \in old .. c - 1 : pDataArray'[a] = Garbage
    BY <1>1, <1>3
  <2>6. inserted[j] = IF j <= k THEN Held[j] ELSE IF j <= k + more THEN Garbage ELSE Held[j - more]
    OBVIOUS
  <2> HIDE DEF h, k, more, inserted
  <2>7. CASE j <= k
    BY <1>2, <2>2, <2>3, <2>4, <2>6, <2>7
  <2>8. CASE ~(j <= k) /\ j <= k + more
    <3>1. j > k
      BY <2>0, <2>8
    <3> QED
      BY <2>2, <2>3, <2>5, <2>6, <2>8, <3>1
  <2>9. CASE ~(j <= k) /\ ~(j <= k + more)
    <3>1. j > k + more
      BY <2>0, <2>9
    <3>2. Held[j - more] = pDataArray[Spot(begin, j, c)] /\ Spot(begin, j, c) \in 0 .. old - 1
      BY <1>2, <2>2, <3>1
    <3> QED
      BY <2>3, <2>4, <2>6, <2>9, <3>2
  <2> QED
    BY <2>7, <2>8, <2>9
<1> HIDE DEF h, k, more
<1>7. Held' = inserted
  <2>1. Held' = [j \in 1 .. h + more |-> Held'[j]]
    BY <1>4, <1>5
  <2> QED
    BY <1>6, <2>1
<1>8. Promise!Inserted(k, c - elementCapacity) = inserted
  BY <1>2 DEF Promise!Inserted, more
<1>9. k \in DOMAIN Held
  BY <1>2, <1>5
<1>10. \E x \in DOMAIN Held : Held' = Promise!Inserted(x, elementCapacity' - elementCapacity)
  BY <1>3, <1>7, <1>8, <1>9
<1> QED
  BY <1>1, <1>3, <1>10 DEF Promise!Stretch

\* Elements of another size are none of those that were put; a size that is the
\* same leaves all as it was.
LEMMA SetElementSizeReshapes ==
  ASSUME Sound, Sound', undefined = FALSE, undefined' = FALSE,
         NEW s \in ElementSizes, SetElementSize(s)
  PROVE  Promise!Reshape \/ UNCHANGED Promise!cfVars
<1> DEFINE c == elementCapacity  h == Dist(begin, end, c)
<1>1. UNCHANGED <<begin, end, elementCapacity, pData>> /\ undefined' = undefined
  BY DEF SetElementSize
<1>2. /\ c \in Nat \ {0} /\ pDataArray \in [0 .. c - 1 -> Content]
      /\ h \in 0 .. c - 1 /\ Held \in Seq(Content) /\ Len(Held) = h
      /\ \A k \in 1 .. h : /\ Spot(begin, k, c) \in 0 .. c - 1
                           /\ Held[k] = pDataArray[Spot(begin, k, c)]
  BY HeldNow
<1>3. /\ Held' \in Seq(Content) /\ Len(Held') = h
      /\ \A k \in 1 .. h : Held'[k] = pDataArray'[Spot(begin, k, c)]
  BY <1>1, HeldNext
<1> HIDE DEF c, h
<1>4. CASE s = elementSize
  <2>1. pDataArray' = pDataArray /\ elementSize' = elementSize
    BY <1>2, <1>4 DEF SetElementSize
  <2> QED
    BY <1>1, <2>1 DEF Promise!cfVars, Held
<1>5. CASE s # elementSize
  <2>1. elementSize' # elementSize /\ \A a \in 0 .. c - 1 : pDataArray'[a] = Garbage
    BY <1>2, <1>5 DEF SetElementSize
  <2>2. Held' = [k \in DOMAIN Held |-> Garbage]
    <3>1. Held' = [k \in 1 .. h |-> Held'[k]] /\ DOMAIN Held = 1 .. h
      BY <1>2, <1>3
    <3>2. \A k \in 1 .. h : Held'[k] = Garbage
      BY <1>2, <1>3, <2>1
    <3> QED
      BY <3>1, <3>2
  <2> QED
    BY <1>1, <2>1, <2>2 DEF Promise!Reshape
<1> QED
  BY <1>4, <1>5

\* The indices stay inside the array and enqueue always stores, so that every
\* operation of queue.h is the one ClearingFifo promises, for every width of its
\* integers, all capacities they can express and all element sizes: first in,
\* first out through wrap-around and growth, emptied by the element that fills it,
\* with junk between the elements only if two capacities exceed the width.
THEOREM QueueRefines == QueueSpec => ImplementsClearingFifo
<1>1. QueueInit => Promise!Init
  <2> SUFFICES ASSUME QueueInit PROVE Promise!Init
    OBVIOUS
  <2>1. Sound /\ undefined = FALSE
    BY InitInv DEF QueueInit, QueueInv
  <2>2. elementCapacity \in Nat \ {0} /\ Held \in Seq(Content) /\ Len(Held) = Dist(0, 0, elementCapacity)
    BY <2>1, HeldNow DEF QueueInit
  <2>3. Held = <<>>
    BY <2>2 DEF Dist
  <2> QED
    BY <2>1, <2>2, <2>3 DEF Promise!Init
<1>2. QueueInv /\ QueueInv' /\ [QueueNext]_queueVars => [Promise!Next]_(Promise!cfVars)
  <2> SUFFICES ASSUME QueueInv, QueueInv', [QueueNext]_queueVars
               PROVE  [Promise!Next]_(Promise!cfVars)
    OBVIOUS
  <2>1. CASE UNCHANGED queueVars
    BY <2>1 DEF queueVars, Promise!cfVars, Held
  <2> SUFFICES ASSUME ~undefined, QueueNext PROVE [Promise!Next]_(Promise!cfVars)
    BY <2>1 DEF QueueNext
  <2>2. Sound /\ undefined = FALSE /\ undefined' \in BOOLEAN
    BY DEF QueueInv
  <2>3. CASE undefined'
    BY <2>2, <2>3 DEF Promise!Next, Promise!Break
  <2> SUFFICES ASSUME ~undefined' PROVE [Promise!Next]_(Promise!cfVars)
    BY <2>3
  <2>4. Sound' /\ undefined' = FALSE
    BY <2>2 DEF QueueInv
  <2>5. ASSUME NEW v \in Elements, Enqueue(v) PROVE Promise!Next
    BY <2>2, <2>4, <2>5, EnqueuePuts DEF Promise!Next
  <2>6. ASSUME Dequeue PROVE Promise!Next
    BY <2>2, <2>4, <2>6, DequeueTakes DEF Promise!Next
  <2>7. ASSUME Clear PROVE Promise!Next
    BY <2>2, <2>4, <2>7, ClearClears DEF Promise!Next
  <2>8. ASSUME NEW v \in Elements, NEW k \in 0 .. elementCapacity - 1, SetData(k, v)
        PROVE  Promise!Next
    BY <2>2, <2>4, <2>8, SetDataReplaces DEF Promise!Next
  <2>9. ASSUME NEW c \in Capacities, SetCapacity(c)
        PROVE  Promise!Next \/ UNCHANGED Promise!cfVars
    <3>1. /\ UNCHANGED <<elementSize, pData>> /\ undefined' = undefined
          /\ elementCapacity' = c
      BY <2>2, <2>4, <2>9 DEF SetCapacity
    <3>2. c \in Nat /\ elementCapacity \in Nat /\ c >= elementCapacity
      BY <2>2, <2>9, Sizes, CapacityGrows
    <3>3. CASE c = elementCapacity
      <4>1. UNCHANGED Held
        BY <2>2, <2>4, <2>9, <3>3, SetCapacityGrows
      <4> QED
        BY <3>1, <3>3, <4>1 DEF Promise!cfVars
    <3>4. CASE c > elementCapacity /\ begin <= end
      <4>1. UNCHANGED Held
        BY <2>2, <2>4, <2>9, <3>4, SetCapacityGrows
      <4> QED
        BY <2>2, <3>1, <3>4, <4>1 DEF Promise!Next, Promise!Grow
    <3>5. CASE c > elementCapacity /\ begin > end
      <4>1. c # elementCapacity /\ begin > end
        BY <3>2, <3>5
      <4>2. Promise!Stretch
        BY <2>2, <2>4, <2>9, <4>1, SetCapacityStretches
      <4> QED
        BY <2>2, <4>2 DEF Promise!Next
    <3>6. begin \in Nat /\ end \in Nat
      BY <2>2, Sizes DEF Sound
    <3> QED
      BY <3>2, <3>3, <3>4, <3>5, <3>6
  <2>10. ASSUME NEW s \in ElementSizes, SetElementSize(s)
         PROVE  Promise!Next \/ UNCHANGED Promise!cfVars
    BY <2>2, <2>4, <2>10, SetElementSizeReshapes DEF Promise!Next
  <2> QED
    BY <2>2, <2>5, <2>6, <2>7, <2>8, <2>9, <2>10 DEF QueueNext
<1> QED
  BY <1>1, <1>2, Invariance, PTL DEF QueueSpec, ImplementsClearingFifo, Promise!Spec

\* The queries agree with what the queue holds in every reachable state, for
\* every width: getSize is right exactly until the elements wrap around, and
\* getData answers for exactly the elements it can then see.
THEOREM AnswersTheorem == QueueSpec => []AnswersAgree
<1>1. QueueInv => AnswersAgree
  <2> SUFFICES ASSUME Sound PROVE
        /\ IsEmpty <=> Held = <<>>
        /\ ~IsFull
        /\ GetSize = Len(Held) <=> begin <= end
        /\ \A k \in 0 .. elementCapacity :
             GetData(k) = IF begin <= end /\ k < Len(Held) THEN <<Held[k + 1]>> ELSE <<>>
    BY DEF QueueInv, AnswersAgree
  <2> DEFINE c == elementCapacity  h == Dist(begin, end, c)
  <2>1. /\ c \in Nat \ {0} /\ begin \in 0 .. c - 1 /\ end \in 0 .. c - 1
        /\ h \in 0 .. c - 1 /\ Held \in Seq(Content) /\ Len(Held) = h
        /\ \A k \in 1 .. h : Held[k] = pDataArray[Spot(begin, k, c)]
    BY HeldNow
  <2>2. IsEmpty <=> Held = <<>>
    <3>1. h = 0 <=> begin = end
      BY <2>1 DEF Dist
    <3>2. Held = <<>> <=> h = 0
      BY <2>1
    <3> QED
      BY <3>1, <3>2 DEF IsEmpty
  <2>3. ~IsFull
    BY DEF IsFull, Sound
  <2>4. GetSize = h <=> begin <= end
    <3>1. Width \in Nat /\ c < Width
      BY Sizes
    <3> QED
      BY <2>1, <3>1, SizeAsked DEF Dist
  <2>5. ASSUME NEW k \in 0 .. c
        PROVE  GetData(k) = IF begin <= end /\ k < h THEN <<Held[k + 1]>> ELSE <<>>
    <3>1. CASE begin <= end /\ k < h
      <4>1. h = end - begin /\ k + 1 \in 1 .. h /\ Spot(begin, k + 1, c) = begin + k
        BY <2>1, <3>1 DEF Dist, Spot
      <4> QED
        BY <2>1, <3>1, <4>1 DEF GetData
    <3>2. CASE ~(begin <= end /\ k < h)
      <4>1. k >= end - begin
        BY <2>1, <3>2 DEF Dist
      <4> QED
        BY <3>2, <4>1 DEF GetData
    <3> QED
      BY <3>1, <3>2
  <2> QED
    BY <2>1, <2>2, <2>3, <2>4, <2>5
<1> QED
  BY <1>1, Invariance, PTL
=============================================================================
