------------------------ MODULE CircularQueueProofs ------------------------
(***************************************************************************)
(* CircularQueue for every number of threads and slots: types, permits,    *)
(* capacity and the absence of a state where everyone waits.  Then, for    *)
(* one producer and one consumer (the hypothesis SinglePair), the absence  *)
(* of slot races and the refinement of BoundedFifo.                        *)
(***************************************************************************)
EXTENDS CircularQueueSPSC, FiniteSetTheorems, SequenceTheorems, TLAPS

LEMMA ModBound == \A a \in Int, b \in Nat \ {0} : a % b \in 0 .. b - 1
  OBVIOUS

\* Reducing or incrementing a counter stays in range.
LEMMA CounterRange ==
  \A h \in UInt : h % N \in Slots /\ h % N \in UInt /\ (h + 1) % UIntMod \in UInt
<1> TAKE h \in UInt
<1>1. h % N \in 0 .. N - 1 /\ (h + 1) % UIntMod \in 0 .. UIntMod - 1
  BY ModBound, QueueAssumption DEF UInt
<1> QED BY <1>1, QueueAssumption DEF UInt, Slots

LEMMA TypeInit == Init => TypeOK
  BY QueueAssumption DEF Init, TypeOK, UInt, Slots, Threads, ProducerPC, ConsumerPC

\* Every step keeps every variable in its type.
LEMMA TypeStep == TypeOK /\ [Next]_vars => TypeOK'
<1> SUFFICES ASSUME TypeOK, [Next]_vars PROVE TypeOK'
  OBVIOUS
<1> USE QueueAssumption DEF TypeOK, Threads, Goto, ProducerPC, ConsumerPC, shared
<1>1. ASSUME NEW p \in Producers, Call(p) PROVE TypeOK'
  BY <1>1 DEF Call, Push, TryPush
<1>2. ASSUME NEW p \in Producers, AcquireFull(p) PROVE TypeOK'
  BY <1>2 DEF AcquireFull
<1>3. ASSUME NEW p \in Producers, ClaimHead(p) PROVE TypeOK'
  <2>1. m_head % N \in Slots /\ (m_head + 1) % UIntMod \in UInt
    BY CounterRange
  <2> QED BY <1>3, <2>1 DEF ClaimHead
<1>4. ASSUME NEW p \in Producers, WriteSlot(p) PROVE TypeOK'
  BY <1>4 DEF WriteSlot
<1>5. ASSUME NEW p \in Producers, ReleaseEmpty(p) PROVE TypeOK'
  BY <1>5 DEF ReleaseEmpty
<1>6. ASSUME NEW c \in Consumers, AcquireEmpty(c) PROVE TypeOK'
  BY <1>6 DEF AcquireEmpty
<1>7. ASSUME NEW c \in Consumers, ClaimTail(c) PROVE TypeOK'
  <2>1. m_tail % N \in Slots /\ (m_tail + 1) % UIntMod \in UInt
    BY CounterRange
  <2> QED BY <1>7, <2>1 DEF ClaimTail
<1>8. ASSUME NEW c \in Consumers, ReadSlot(c) PROVE TypeOK'
  BY <1>8 DEF ReadSlot
<1>9. ASSUME NEW c \in Consumers, ReleaseFull(c) PROVE TypeOK'
  BY <1>9 DEF ReleaseFull
<1>10. ASSUME NEW c \in Consumers, LoadTail(c) \/ LoadHead(c) PROVE TypeOK'
  BY <1>10 DEF LoadTail, LoadHead
<1>11. ASSUME NEW c \in Consumers, CasTail(c) \/ CasHead(c) PROVE TypeOK'
  <2>1. expected[c] % N \in UInt
    BY CounterRange
  <2> QED BY <1>11, <2>1 DEF CasTail, CasHead
<1>12. ASSUME NEW c \in Consumers, Post(c) PROVE TypeOK'
  BY <1>12 DEF Post
<1>13. CASE UNCHANGED vars
  BY <1>13 DEF vars, local
<1> QED
  BY <1>1, <1>2, <1>3, <1>4, <1>5, <1>6, <1>7, <1>8, <1>9, <1>10, <1>11, <1>12, <1>13
  DEF Next, PushStep, PopStep

\* Every reachable state of CircularQueue is well typed: in particular every
\* claimed slot is inside m_data, however far the counters have run.
THEOREM TypeCorrect == Spec => []TypeOK
<1>1. QED
  BY TypeInit, TypeStep, PTL DEF Spec

-----------------------------------------------------------------------------
LEMMA HoldersFinite == IsFiniteSet(Holders)
  BY QueueAssumption, FS_Union, FS_Subset DEF Holders, Threads

\* A thread that starts to hold a permit adds one to the count.
LEMMA Grows ==
  ASSUME TypeOK, NEW t \in Threads, t \notin Holders, Holders' = Holders \cup {t}
  PROVE  /\ Cardinality(Holders)' = Cardinality(Holders) + 1
         /\ Cardinality(Holders) \in Nat
  BY HoldersFinite, FS_AddElement, FS_CardinalityType

\* A thread that stops holding a permit takes one from the count.
LEMMA Shrinks ==
  ASSUME TypeOK, NEW t \in Holders, Holders' = Holders \ {t}
  PROVE  /\ Cardinality(Holders)' = Cardinality(Holders) - 1
         /\ Cardinality(Holders) \in Nat
  BY HoldersFinite, FS_RemoveElement, FS_CardinalityType

LEMMA PermitsInit == Init => PermitsConserved
<1> SUFFICES ASSUME Init PROVE PermitsConserved
  OBVIOUS
<1>1. Holders = {}
  BY DEF Init, Holders
<1> QED
  BY <1>1, FS_EmptySet, QueueAssumption DEF Init, PermitsConserved

\* With no second release in pop, every step keeps the number of permits.
LEMMA PermitsStep ==
  ASSUME PostPermits = 0, TypeOK, PermitsConserved, [Next]_vars
  PROVE  PermitsConserved'
<1> USE QueueAssumption DEF TypeOK, Goto, shared, PermitsConserved
<1>1. ASSUME NEW p \in Producers, AcquireFull(p) \/ \E i \in Items : TryPush(p, i)
      PROVE  PermitsConserved'
  <2>1. p \in Threads /\ p \notin Holders /\ Holders' = Holders \cup {p}
    BY <1>1 DEF AcquireFull, TryPush, Holders, Threads
  <2>2. /\ Cardinality(Holders)' = Cardinality(Holders) + 1
        /\ Cardinality(Holders) \in Nat
    BY <2>1, Grows
  <2>3. m_sem_full' = m_sem_full - 1 /\ m_sem_empty' = m_sem_empty
    BY <1>1 DEF AcquireFull, TryPush
  <2> QED BY <2>2, <2>3
<1>2. ASSUME NEW c \in Consumers, AcquireEmpty(c) PROVE PermitsConserved'
  <2>1. c \in Threads /\ c \notin Holders /\ Holders' = Holders \cup {c}
    BY <1>2 DEF AcquireEmpty, Holders, Threads
  <2>2. /\ Cardinality(Holders)' = Cardinality(Holders) + 1
        /\ Cardinality(Holders) \in Nat
    BY <2>1, Grows
  <2>3. m_sem_full' = m_sem_full /\ m_sem_empty' = m_sem_empty - 1
    BY <1>2 DEF AcquireEmpty
  <2> QED BY <2>2, <2>3
<1>3. ASSUME NEW p \in Producers, ReleaseEmpty(p) PROVE PermitsConserved'
  <2>1. p \in Holders /\ Holders' = Holders \ {p}
    BY <1>3 DEF ReleaseEmpty, Holders, Threads
  <2>2. /\ Cardinality(Holders)' = Cardinality(Holders) - 1
        /\ Cardinality(Holders) \in Nat
    BY <2>1, Shrinks
  <2>3. m_sem_full' = m_sem_full /\ m_sem_empty' = m_sem_empty + 1
    BY <1>3 DEF ReleaseEmpty
  <2> QED BY <2>2, <2>3
<1>4. ASSUME NEW c \in Consumers, ReleaseFull(c) PROVE PermitsConserved'
  <2>1. c \in Holders /\ Holders' = Holders \ {c}
    BY <1>4 DEF ReleaseFull, Holders, Threads
  <2>2. /\ Cardinality(Holders)' = Cardinality(Holders) - 1
        /\ Cardinality(Holders) \in Nat
    BY <2>1, Shrinks
  <2>3. m_sem_full' = m_sem_full + 1 /\ m_sem_empty' = m_sem_empty
    BY <1>4 DEF ReleaseFull
  <2> QED BY <2>2, <2>3
<1>5. ASSUME NEW p \in Producers,
             ClaimHead(p) \/ WriteSlot(p) \/ \E i \in Items : Push(p, i)
      PROVE  PermitsConserved'
  <2>1. Holders' = Holders
    BY <1>5 DEF ClaimHead, WriteSlot, Push, Holders, Threads
  <2> QED BY <1>5, <2>1 DEF ClaimHead, WriteSlot, Push
<1>6. ASSUME NEW c \in Consumers,
             ClaimTail(c) \/ ReadSlot(c) \/ LoadTail(c) \/ CasTail(c)
               \/ LoadHead(c) \/ CasHead(c) \/ Post(c)
      PROVE  PermitsConserved'
  <2>1. Holders' = Holders
    BY <1>6 DEF ClaimTail, ReadSlot, LoadTail, CasTail, LoadHead, CasHead, Post,
                Holders, Threads
  <2>2. m_sem_full' = m_sem_full /\ m_sem_empty' = m_sem_empty
    BY <1>6 DEF ClaimTail, ReadSlot, LoadTail, CasTail, LoadHead, CasHead, Post
  <2> QED BY <2>1, <2>2
<1>7. CASE UNCHANGED vars
  <2>1. Holders' = Holders
    BY <1>7 DEF vars, local, Holders
  <2> QED BY <1>7, <2>1 DEF vars
<1> QED
  BY <1>1, <1>2, <1>3, <1>4, <1>5, <1>6, <1>7 DEF Next, Call, PushStep, PopStep

\* However many threads push and pop, no permit is lost or duplicated as long
\* as pop releases m_sem_full once.
THEOREM PermitsTheorem == PostPermits = 0 /\ Spec => []PermitsConserved
<1> SUFFICES ASSUME PostPermits = 0 PROVE Spec => []PermitsConserved
  OBVIOUS
<1>1. TypeOK /\ PermitsConserved /\ [Next]_vars => PermitsConserved'
  BY PermitsStep
<1> QED
  BY <1>1, PermitsInit, TypeCorrect, PTL DEF Spec

\* The queue therefore never holds more than the N items its doc promises.
THEOREM CapacityTheorem == PostPermits = 0 /\ Spec => []CapacityRespected
<1>1. TypeOK /\ PermitsConserved => CapacityRespected
  BY HoldersFinite, FS_CardinalityType, QueueAssumption
  DEF TypeOK, PermitsConserved, CapacityRespected
<1> QED
  BY <1>1, TypeCorrect, PermitsTheorem, PTL

-----------------------------------------------------------------------------
\* A thread can go on by itself: it is inside push or pop past its acquire, where
\* nothing waits, or its acquire finds a permit.
CanGoOn(t) ==
  \/ pc[t] \notin {"idle", "acquire"}
  \/ pc[t] = "acquire" /\ m_sem_full > 0
  \/ t \in Consumers /\ m_sem_empty > 0

\* While a push waits and somebody pops, the threads never all wait for each other.
NobodyStuck ==
  \A p \in Producers : pc[p] = "acquire" => \E t \in Threads : CanGoOn(t)

\* Permits being conserved, a queue with none to acquire has a thread that is
\* about to release one: the safety half of PushReturns, for any threads.
THEOREM NobodyStuckTheorem ==
  PostPermits = 0 /\ Consumers # {} /\ Spec => []NobodyStuck
<1> SUFFICES ASSUME PostPermits = 0, Consumers # {} PROVE Spec => []NobodyStuck
  OBVIOUS
<1>1. TypeOK /\ PermitsConserved => NobodyStuck
  <2> SUFFICES ASSUME TypeOK, PermitsConserved, NEW p \in Producers, pc[p] = "acquire"
               PROVE  \E t \in Threads : CanGoOn(t)
    BY DEF NobodyStuck
  <2>1. CASE m_sem_full > 0
    BY <2>1 DEF CanGoOn, Threads
  <2>2. CASE m_sem_empty > 0
    BY <2>2 DEF CanGoOn, Threads
  <2>3. CASE ~(m_sem_full > 0) /\ ~(m_sem_empty > 0)
    <3>1. Cardinality(Holders) = N /\ N # 0
      BY <2>3, QueueAssumption, HoldersFinite, FS_CardinalityType
      DEF TypeOK, PermitsConserved
    <3>2. PICK t \in Threads :
            pc[t] \in {"claim", "write", "publish", "take", "read", "free"}
      BY <3>1, FS_EmptySet DEF Holders
    <3> QED
      BY <3>2 DEF CanGoOn
  <2> QED
    BY <2>1, <2>2, <2>3
<1> QED
  BY <1>1, TypeCorrect, PermitsTheorem, PTL

-----------------------------------------------------------------------------
(* One producer and one consumer.  No slot is stored to while it is loaded *)
(* from, and the queue implements BoundedFifo, for every N.  The inductive *)
(* invariant is Aligned, together with the types and the conservation of   *)
(* permits.                                                                *)

\* N divides a.
Div(a) == a % N = 0

LEMMA Quotient == \A a \in Int : a = N * (a \div N) + (a % N) /\ a \div N \in Int
  BY QueueAssumption

LEMMA MultipleDiv == \A k \in Int : Div(k * N)
  BY QueueAssumption DEF Div

LEMMA DivMultiple == \A a \in Int : Div(a) => \E k \in Int : a = k * N
<1> SUFFICES ASSUME NEW a \in Int, Div(a) PROVE \E k \in Int : a = k * N
  OBVIOUS
<1>1. a = N * (a \div N) /\ a \div N \in Int
  BY Quotient, QueueAssumption DEF Div
<1>2. a = (a \div N) * N
  BY <1>1, QueueAssumption
<1> QED BY <1>1, <1>2

LEMMA DivSum == \A a, b \in Int : Div(a) /\ Div(b) => Div(a + b) /\ Div(a - b)
<1> SUFFICES ASSUME NEW a \in Int, NEW b \in Int, Div(a), Div(b)
             PROVE  Div(a + b) /\ Div(a - b)
  OBVIOUS
<1>1. PICK j \in Int : a = j * N
  BY DivMultiple
<1>2. PICK k \in Int : b = k * N
  BY DivMultiple
<1>3. a + b = (j + k) * N /\ a - b = (j - k) * N
  BY <1>1, <1>2, QueueAssumption
<1>4. Div((j + k) * N) /\ Div((j - k) * N)
  BY MultipleDiv
<1> QED BY <1>3, <1>4

\* Reducing a counter modulo N moves it by a multiple of N ...
LEMMA DivReduce == \A a \in Int : a % N \in Int /\ Div(a - (a % N))
<1> TAKE a \in Int
<1>1. a % N \in Int /\ a - (a % N) = (a \div N) * N /\ a \div N \in Int
  BY Quotient, QueueAssumption
<1> QED BY <1>1, MultipleDiv

\* ... and so does the wrap-around of unsigned arithmetic.
LEMMA DivWrap ==
  ASSUME SinglePair, NEW a \in Int
  PROVE  a % UIntMod \in Int /\ Div(a - (a % UIntMod))
<1>1. PICK k \in Int : UIntMod = k * N
  BY DivMultiple, QueueAssumption DEF SinglePair, Div
<1>2. a % UIntMod \in Int /\ a \div UIntMod \in Int
      /\ a - (a % UIntMod) = UIntMod * (a \div UIntMod)
  BY QueueAssumption
<1>3. UIntMod * (a \div UIntMod) = (k * (a \div UIntMod)) * N
  BY <1>1, <1>2, QueueAssumption
<1>4. k * (a \div UIntMod) \in Int
  BY <1>2
<1> QED BY <1>2, <1>3, <1>4, MultipleDiv

LEMMA DivSmall == \A a \in Int : Div(a) /\ -N < a /\ a < N => a = 0
<1> SUFFICES ASSUME NEW a \in Int, Div(a), -N < a, a < N PROVE a = 0
  OBVIOUS
<1>1. PICK k \in Int : a = k * N
  BY DivMultiple
<1> QED BY <1>1, QueueAssumption

-----------------------------------------------------------------------------
LEMMA TwoThreads ==
  ASSUME SinglePair
  PROVE  /\ Producers = {Producer} /\ Consumers = {Consumer}
         /\ Producer \in Threads /\ Consumer \in Threads /\ Producer # Consumer
  BY QueueAssumption DEF SinglePair, Producer, Consumer, Threads

LEMMA AlignedInit == ASSUME SinglePair, Init PROVE Aligned
<1>1. pc[Producer] = "idle" /\ pc[Consumer] = "idle"
  BY TwoThreads DEF Init
<1>2. m_head - m_tail - Claimed = 0
  BY <1>1 DEF Init, Claimed, One
<1> QED BY <1>1, <1>2, QueueAssumption DEF Aligned

\* What Aligned says, with the three distances as integers.
LEMMA AlignedMeaning ==
  ASSUME SinglePair, TypeOK
  PROVE  /\ m_head \in Int /\ m_tail \in Int /\ Claimed \in Int
         /\ slot[Producer] \in Int /\ slot[Consumer] \in Int
         /\ Aligned <=>
              /\ Div(m_head - m_tail - Claimed)
              /\ pc[Producer] = "write" => Div(m_head - 1 - slot[Producer])
              /\ pc[Consumer] = "read" => Div(m_tail - 1 - slot[Consumer])
<1>1. m_head \in Int /\ m_tail \in Int /\ m_sem_empty \in Int
  BY DEF TypeOK, UInt
<1>2. slot[Producer] \in Int /\ slot[Consumer] \in Int
  BY TwoThreads, QueueAssumption DEF TypeOK, Slots
<1>3. Claimed \in Int
  BY <1>1 DEF Claimed, One
<1> QED BY <1>1, <1>2, <1>3 DEF Aligned, Div

\* Every step keeps the counters aligned with the semaphores.
LEMMA AlignedStep ==
  ASSUME SinglePair, TypeOK, TypeOK', Aligned, [Next]_vars
  PROVE  Aligned'
<1> DEFINE p == Producer
           c == Consumer
           gap == m_head - m_tail - Claimed
<1>1. /\ m_head \in Int /\ m_tail \in Int /\ Claimed \in Int /\ m_sem_empty \in Int
      /\ slot[p] \in Int /\ slot[c] \in Int /\ gap \in Int
      /\ Div(gap)
      /\ pc[p] = "write" => Div(m_head - 1 - slot[p])
      /\ pc[c] = "read" => Div(m_tail - 1 - slot[c])
  BY AlignedMeaning DEF TypeOK
<1>2. /\ pc \in [Threads -> ProducerPC \cup ConsumerPC] /\ slot \in [Threads -> Slots]
      /\ p \in Threads /\ c \in Threads /\ p # c
  BY TwoThreads DEF TypeOK
<1>3. SUFFICES /\ Div(gap')
               /\ pc'[p] = "write" => Div(m_head' - 1 - slot'[p])
               /\ pc'[c] = "read" => Div(m_tail' - 1 - slot'[c])
  BY AlignedMeaning DEF Aligned, Div
<1> USE DEF Goto, shared
<1>4. CASE \/ AcquireFull(p) \/ WriteSlot(p) \/ ReleaseEmpty(p)
           \/ \E i \in Items : Push(p, i) \/ TryPush(p, i)
  <2>1. /\ UNCHANGED <<m_head, m_tail, slot>>
        /\ pc'[p] # "write" /\ pc'[c] = pc[c]
    BY <1>2, <1>4 DEF AcquireFull, WriteSlot, ReleaseEmpty, Push, TryPush
  <2>2. Claimed' = Claimed
    BY <1>1, <1>2, <1>4, <2>1
    DEF AcquireFull, WriteSlot, ReleaseEmpty, Push, TryPush, Claimed, One
  <2> QED BY <1>1, <2>1, <2>2
<1>5. CASE ClaimHead(p)
  <2>1. /\ m_head' = (m_head + 1) % UIntMod /\ m_tail' = m_tail
        /\ slot'[p] = m_head % N /\ slot'[c] = slot[c] /\ pc'[c] = pc[c]
    BY <1>2, <1>5 DEF ClaimHead
  <2>2. Claimed' = Claimed + 1
    BY <1>1, <1>2, <1>5 DEF ClaimHead, Claimed, One
  <2>3. Div(m_head + 1 - m_head') /\ m_head' \in Int
    BY <1>1, <2>1, DivWrap
  <2>4. Div(m_head - (m_head % N)) /\ m_head % N \in Int
    BY <1>1, DivReduce
  <2>5. gap' = gap - (m_head + 1 - m_head')
    BY <1>1, <2>1, <2>2, <2>3
  <2>6. m_head' - 1 - slot'[p] = (m_head - (m_head % N)) - (m_head + 1 - m_head')
    BY <1>1, <2>1, <2>3, <2>4
  <2>7. Div(gap - (m_head + 1 - m_head'))
    BY <1>1, <2>3, DivSum
  <2>8. Div((m_head - (m_head % N)) - (m_head + 1 - m_head'))
    BY <1>1, <2>3, <2>4, DivSum
  <2> QED BY <1>1, <2>1, <2>5, <2>6, <2>7, <2>8
<1>6. CASE ClaimTail(c)
  <2>1. /\ m_tail' = (m_tail + 1) % UIntMod /\ m_head' = m_head
        /\ slot'[c] = m_tail % N /\ slot'[p] = slot[p] /\ pc'[p] = pc[p]
    BY <1>2, <1>6 DEF ClaimTail
  <2>2. Claimed' = Claimed - 1
    BY <1>1, <1>2, <1>6 DEF ClaimTail, Claimed, One
  <2>3. Div(m_tail + 1 - m_tail') /\ m_tail' \in Int
    BY <1>1, <2>1, DivWrap
  <2>4. Div(m_tail - (m_tail % N)) /\ m_tail % N \in Int
    BY <1>1, DivReduce
  <2>5. gap' = gap + (m_tail + 1 - m_tail')
    BY <1>1, <2>1, <2>2, <2>3
  <2>6. m_tail' - 1 - slot'[c] = (m_tail - (m_tail % N)) - (m_tail + 1 - m_tail')
    BY <1>1, <2>1, <2>3, <2>4
  <2>7. Div(gap + (m_tail + 1 - m_tail'))
    BY <1>1, <2>3, DivSum
  <2>8. Div((m_tail - (m_tail % N)) - (m_tail + 1 - m_tail'))
    BY <1>1, <2>3, <2>4, DivSum
  <2> QED BY <1>1, <2>1, <2>5, <2>6, <2>7, <2>8
<1>7. CASE AcquireEmpty(c) \/ ReadSlot(c) \/ ReleaseFull(c) \/ LoadTail(c)
             \/ LoadHead(c) \/ Post(c)
  <2>1. /\ UNCHANGED <<m_head, m_tail, slot>>
        /\ pc'[c] # "read" /\ pc'[p] = pc[p]
    BY <1>2, <1>7 DEF AcquireEmpty, ReadSlot, ReleaseFull, LoadTail, LoadHead, Post
  <2>2. Claimed' = Claimed
    BY <1>1, <1>2, <1>7, <2>1
    DEF AcquireEmpty, ReadSlot, ReleaseFull, LoadTail, LoadHead, Post, Claimed, One
  <2> QED BY <1>1, <2>1, <2>2
<1>8. CASE CasTail(c)
  <2>1. /\ m_head' = m_head /\ slot' = slot /\ pc'[p] = pc[p] /\ pc'[c] # "read"
        /\ m_tail' = m_tail \/ m_tail' = m_tail % N
    BY <1>2, <1>8 DEF CasTail
  <2>2. Claimed' = Claimed
    BY <1>1, <1>2, <1>8 DEF CasTail, Claimed, One
  <2>3. Div(m_tail - (m_tail % N)) /\ m_tail % N \in Int
    BY <1>1, DivReduce
  <2>4. Div(gap + (m_tail - (m_tail % N)))
    BY <1>1, <2>3, DivSum
  <2>5. gap' = gap \/ gap' = gap + (m_tail - (m_tail % N))
    BY <1>1, <2>1, <2>2, <2>3
  <2> QED BY <1>1, <2>1, <2>4, <2>5
<1>9. CASE CasHead(c)
  <2>1. /\ m_tail' = m_tail /\ slot' = slot /\ pc'[p] = pc[p] /\ pc'[c] # "read"
        /\ m_head' = m_head \/ m_head' = m_head % N
    BY <1>2, <1>9 DEF CasHead
  <2>2. Claimed' = Claimed
    BY <1>1, <1>2, <1>9 DEF CasHead, Claimed, One
  <2>3. Div(m_head - (m_head % N)) /\ m_head % N \in Int
    BY <1>1, DivReduce
  <2>4. Div(gap - (m_head - (m_head % N)))
    BY <1>1, <2>3, DivSum
  <2>5. gap' = gap \/ gap' = gap - (m_head - (m_head % N))
    BY <1>1, <2>1, <2>2, <2>3
  <2>6. ASSUME pc[p] = "write"
        PROVE  Div((m_head - 1 - slot[p]) - (m_head - (m_head % N)))
    <3>1. m_head - 1 - slot[p] \in Int /\ m_head - (m_head % N) \in Int
      BY <1>1, <2>3
    <3> QED BY <1>1, <2>3, <2>6, <3>1, DivSum
  <2>7. (m_head - 1 - slot[p]) - (m_head - (m_head % N)) = (m_head % N) - 1 - slot[p]
    BY <1>1, <2>3
  <2> QED BY <1>1, <2>1, <2>4, <2>5, <2>6, <2>7
<1>10. CASE UNCHANGED vars
  <2>1. UNCHANGED <<m_head, m_tail, slot, pc>> /\ Claimed' = Claimed
    BY <1>10 DEF vars, local, Claimed
  <2> QED BY <1>1, <2>1
<1> QED
  BY <1>4, <1>5, <1>6, <1>7, <1>8, <1>9, <1>10, TwoThreads
  DEF Next, Call, PushStep, PopStep

LEMMA AlignedTheorem == ASSUME SinglePair PROVE Spec => []Aligned
<1>1. TypeOK /\ TypeOK' /\ Aligned /\ [Next]_vars => Aligned'
  BY AlignedStep
<1> QED
  BY <1>1, AlignedInit, TypeCorrect, PTL DEF Spec

\* A storing producer and a loading consumer that met on one slot would leave
\* a number of filled slots that N divides; the permits rule that out.
LEMMA RaceFree ==
  ASSUME SinglePair, TypeOK, PermitsConserved, Aligned
  PROVE  NoSlotRace
<1> DEFINE p == Producer
           c == Consumer
<1>1. SUFFICES ASSUME pc[p] = "write", pc[c] = "read", slot[p] = slot[c] PROVE FALSE
  BY TwoThreads DEF NoSlotRace
<1>2. /\ m_head \in Int /\ m_tail \in Int /\ slot[p] \in Int
      /\ Div(m_head - m_tail - Claimed)
      /\ Div(m_head - 1 - slot[p]) /\ Div(m_tail - 1 - slot[p])
  BY <1>1, AlignedMeaning
<1>3. Claimed = m_sem_empty + 1 /\ m_sem_empty \in Nat /\ m_sem_full \in Nat
  BY <1>1 DEF Claimed, One, TypeOK
<1>4. Div((m_head - 1 - slot[p]) - (m_tail - 1 - slot[p]))
  BY <1>2, DivSum
<1>5. (m_head - 1 - slot[p]) - (m_tail - 1 - slot[p]) = m_head - m_tail
  BY <1>2
<1>6. Div((m_head - m_tail) - (m_head - m_tail - Claimed))
  BY <1>2, <1>3, <1>4, <1>5, DivSum
<1>7. (m_head - m_tail) - (m_head - m_tail - Claimed) = m_sem_empty + 1
  BY <1>2, <1>3
<1>8. {p, c} \subseteq Holders /\ Cardinality({p, c}) = 2
  <2>1. {p, c} \subseteq Holders
    BY <1>1, TwoThreads DEF Holders
  <2>2. Cardinality({c}) = 1 /\ IsFiniteSet({c})
    BY FS_Singleton
  <2>3. p \notin {c} /\ {c} \cup {p} = {p, c}
    BY TwoThreads
  <2>4. Cardinality({c} \cup {p}) = 2
    BY <2>2, <2>3, FS_AddElement
  <2> QED BY <2>1, <2>3, <2>4
<1>9. Cardinality(Holders) \in Nat /\ Cardinality(Holders) >= 2
  <2>1. IsFiniteSet(Holders) /\ Cardinality(Holders) \in Nat
    BY HoldersFinite, FS_CardinalityType
  <2>2. Cardinality({p, c}) <= Cardinality(Holders)
    BY <1>8, <2>1, FS_Subset
  <2> QED BY <1>8, <2>1, <2>2
<1>10. 0 < m_sem_empty + 1 /\ m_sem_empty + 1 < N
  BY <1>3, <1>9, QueueAssumption DEF PermitsConserved
<1> QED
  BY <1>3, <1>6, <1>7, <1>10, DivSmall, QueueAssumption

\* With one pushing and one popping thread, and pop releasing m_sem_full once,
\* the plain accesses to m_data never race.
THEOREM NoSlotRaceTheorem ==
  ASSUME SinglePair PROVE PostPermits = 0 /\ Spec => []NoSlotRace
<1>1. TypeOK /\ PermitsConserved /\ Aligned => NoSlotRace
  BY RaceFree
<1> QED
  BY <1>1, TypeCorrect, PermitsTheorem, AlignedTheorem, PTL

-----------------------------------------------------------------------------
(* Refinement *)

\* The remainder is the one number below N that differs by a multiple of N.
LEMMA RemainderIs == \A a \in Int, b \in Slots : Div(a - b) => a % N = b
<1> SUFFICES ASSUME NEW a \in Int, NEW b \in Slots, Div(a - b) PROVE a % N = b
  OBVIOUS
<1>1. a % N \in 0 .. N - 1 /\ Div(a - (a % N))
  BY DivReduce, QueueAssumption
<1>2. PICK r \in 0 .. N - 1 : r = a % N
  BY <1>1
<1>3. b \in Int /\ r \in Int /\ -N < r - b /\ r - b < N
  BY <1>2, QueueAssumption DEF Slots
<1>4. Div((a - b) - (a - r))
  <2>1. a - b \in Int /\ a - r \in Int /\ Div(a - r)
    BY <1>1, <1>2, <1>3
  <2> QED
    BY <2>1, DivSum
<1>5. (a - b) - (a - r) = r - b
  BY <1>3
<1>6. r - b = 0
  BY <1>3, <1>4, <1>5, DivSmall
<1> QED
  BY <1>2, <1>3, <1>6

LEMMA SameRemainder == \A a, b \in Int : Div(a - b) => a % N = b % N
<1> SUFFICES ASSUME NEW a \in Int, NEW b \in Int, Div(a - b) PROVE a % N = b % N
  OBVIOUS
<1>1. PICK r \in Slots : r = b % N
  BY QueueAssumption DEF Slots
<1>2. r \in Int /\ Div(b - r)
  BY <1>1, DivReduce, QueueAssumption DEF Slots
<1>3. Div((a - b) + (b - r))
  <2>1. a - b \in Int /\ b - r \in Int
    BY <1>2
  <2> QED
    BY <1>2, <2>1, DivSum
<1>4. (a - b) + (b - r) = a - r
  BY <1>2
<1> QED
  BY <1>1, <1>3, <1>4, RemainderIs

Fill == Items \cup {NoItem}

\* What the mapping reads off the array.
QueuedIs ==
  /\ Stored \in Nat /\ FirstSlot \in Slots
  /\ Queued \in Seq(Fill) /\ Len(Queued) = Stored
  /\ \A i \in 1 .. Stored : /\ (FirstSlot + i - 1) % N \in Slots
                            /\ Queued[i] = m_data[(FirstSlot + i - 1) % N]

LEMMA QueuedValue == SinglePair /\ TypeOK => QueuedIs
<1> SUFFICES ASSUME SinglePair, TypeOK PROVE QueuedIs
  OBVIOUS
<1>1. Stored \in Nat
  BY DEF TypeOK, Stored, One
<1>2. FirstSlot \in Slots
  <2>1. slot[Consumer] \in Slots /\ m_tail \in Int
    BY TwoThreads DEF TypeOK, UInt
  <2>2. m_tail % N \in 0 .. N - 1
    BY <2>1, QueueAssumption
  <2> QED
    BY <2>1, <2>2 DEF FirstSlot, Slots
<1>3. ASSUME NEW i \in 1 .. Stored PROVE (FirstSlot + i - 1) % N \in Slots
  <2>1. PICK x \in Int : x = FirstSlot + i - 1
    BY <1>1, <1>2 DEF Slots
  <2>2. x % N \in 0 .. N - 1
    BY QueueAssumption
  <2> QED
    BY <2>1, <2>2 DEF Slots
<1>4. m_data \in [Slots -> Fill]
  BY DEF TypeOK, Fill
<1>5. Queued \in [1 .. Stored -> Fill]
        /\ \A i \in 1 .. Stored : Queued[i] = m_data[(FirstSlot + i - 1) % N]
  BY <1>3, <1>4 DEF Queued
<1>6. Queued \in Seq(Fill) /\ Len(Queued) = Stored
  BY <1>1, <1>5
<1> QED
  BY <1>1, <1>2, <1>3, <1>5, <1>6 DEF QueuedIs

\* While the producer stores there is a slot it does not share, the one behind
\* the last queued item.
LEMMA StoreBehind ==
  ASSUME SinglePair, TypeOK, PermitsConserved, Aligned, pc[Producer] = "write"
  PROVE  /\ Stored < N
         /\ (FirstSlot + Stored) % N = slot[Producer]
         /\ \A i \in 1 .. Stored : (FirstSlot + i - 1) % N # slot[Producer]
<1> DEFINE p == Producer
           c == Consumer
           f == FirstSlot
           s == slot[p]
<1>1. /\ m_head \in Int /\ m_tail \in Int /\ Claimed \in Int /\ s \in Slots /\ s \in Int
      /\ slot[c] \in Int /\ Div(m_head - m_tail - Claimed) /\ Div(m_head - 1 - s)
      /\ pc[c] = "read" => Div(m_tail - 1 - slot[c])
  BY AlignedMeaning, TwoThreads DEF TypeOK
<1>2. Stored \in Nat /\ f \in Slots /\ f \in Int
  BY QueuedValue, QueueAssumption DEF QueuedIs, Slots
<1>3. m_sem_empty \in Nat /\ m_sem_full \in Nat
  BY DEF TypeOK
<1>4. Stored < N
  <2>1. IsFiniteSet(Holders) /\ Cardinality(Holders) \in Nat
    BY HoldersFinite, FS_CardinalityType
  <2>2. CASE pc[c] \in {"take", "read"}
    <3>1. {p, c} \subseteq Holders /\ {c} \cup {p} = {p, c} /\ p \notin {c}
      BY <2>2, TwoThreads DEF Holders
    <3>2. Cardinality({c}) = 1 /\ IsFiniteSet({c})
      BY FS_Singleton
    <3>3. Cardinality({p, c}) = 2
      BY <3>1, <3>2, FS_AddElement
    <3>4. Cardinality(Holders) >= 2
      BY <2>1, <3>1, <3>3, FS_Subset
    <3>5. Stored = m_sem_empty + 1
      BY <1>3, <2>2 DEF Stored, One
    <3> QED
      BY <1>3, <2>1, <3>4, <3>5, QueueAssumption DEF PermitsConserved
  <2>3. CASE pc[c] \notin {"take", "read"}
    <3>1. {p} \subseteq Holders
      BY TwoThreads DEF Holders
    <3>2. Cardinality({p}) = 1
      BY FS_Singleton
    <3>3. Cardinality(Holders) >= 1
      BY <2>1, <3>1, <3>2, FS_Subset
    <3>4. Stored = m_sem_empty
      BY <1>3, <2>3 DEF Stored, One
    <3> QED
      BY <1>3, <2>1, <3>3, <3>4, QueueAssumption DEF PermitsConserved
  <2> QED
    BY <2>2, <2>3
<1>5. Div(f + Stored - s)
  <2> DEFINE g == m_head - m_tail - Claimed
             h == m_head - 1 - s
  <2>1. g \in Int /\ h \in Int /\ Div(h - g)
    <3>1. g \in Int /\ h \in Int /\ Div(g) /\ Div(h)
      BY <1>1
    <3> QED
      BY <3>1, DivSum
  <2>2. CASE pc[c] = "read"
    <3> DEFINE t == m_tail - 1 - slot[c]
    <3>1. t \in Int /\ Div(t)
      BY <1>1, <2>2
    <3>2. Div((h - g) - t)
      <4>1. h - g \in Int
        BY <2>1
      <4> QED
        BY <2>1, <3>1, <4>1, DivSum
    <3>3. f = slot[c] /\ Stored = Claimed
      BY <1>3, <2>2 DEF FirstSlot, Stored, Claimed, One
    <3>4. (h - g) - t = f + Stored - s
      BY <1>1, <1>2, <3>3
    <3> QED
      BY <3>2, <3>4
  <2>3. CASE pc[c] # "read"
    <3> DEFINE t == m_tail - (m_tail % N)
    <3>1. t \in Int /\ Div(t) /\ m_tail % N \in Int
      BY <1>1, DivReduce
    <3>2. Div((h - g) - t)
      <4>1. h - g \in Int
        BY <2>1
      <4> QED
        BY <2>1, <3>1, <4>1, DivSum
    <3>3. f = m_tail % N /\ Stored = Claimed - 1
      BY <1>3, <2>3 DEF FirstSlot, Stored, Claimed, One
    <3>4. (h - g) - t = f + Stored - s
      BY <1>1, <1>2, <3>1, <3>3
    <3> QED
      BY <3>2, <3>4
  <2> QED
    BY <2>2, <2>3
<1> HIDE DEF f, s
<1>6. (f + Stored) % N = s
  <2>1. PICK x \in Int : x = f + Stored
    BY <1>2
  <2>2. Div(x - s)
    <3>1. x - s = f + Stored - s
      BY <1>1, <1>2, <2>1
    <3> QED
      BY <1>5, <3>1
  <2>3. x % N = s
    BY <1>1, <2>2, RemainderIs
  <2> QED
    BY <2>1, <2>3
<1>7. ASSUME NEW i \in 1 .. Stored, (f + i - 1) % N = s PROVE FALSE
  <2>1. PICK x \in Int : x = f + i - 1
    BY <1>2
  <2>2. Div(x - s)
    BY <1>7, <2>1, DivReduce
  <2>3. Div((f + Stored - s) - (x - s))
    <3>1. f + Stored - s \in Int /\ x - s \in Int
      BY <1>1, <1>2
    <3> QED
      BY <1>5, <2>2, <3>1, DivSum
  <2>4. PICK d \in Int : d = Stored + 1 - i /\ 0 < d /\ d < N
    BY <1>2, <1>4, QueueAssumption
  <2>5. (f + Stored - s) - (x - s) = d
    BY <1>1, <1>2, <2>1, <2>4
  <2>6. d = 0
    BY <2>3, <2>4, <2>5, DivSmall, QueueAssumption
  <2> QED
    BY <2>4, <2>6
<1> QED
  BY <1>4, <1>6, <1>7 DEF f, s

\* An item enters the queue when it is stored.
LEMMA WritePuts ==
  ASSUME SinglePair, TypeOK, TypeOK', PermitsConserved, Aligned, item[Producer] \in Items,
         WriteSlot(Producer)
  PROVE  Fifo!Put(item[Producer])
<1> DEFINE p == Producer
           c == Consumer
           v == item[p]
           s == slot[p]
<1>1. /\ pc[p] = "write" /\ pc'[p] = "publish" /\ pc'[c] = pc[c]
      /\ m_data' = [m_data EXCEPT ![s] = v]
      /\ UNCHANGED <<m_tail, m_sem_empty, item, slot>>
  BY TwoThreads DEF WriteSlot, Goto, TypeOK
<1>2. /\ Stored < N /\ (FirstSlot + Stored) % N = s
      /\ \A i \in 1 .. Stored : (FirstSlot + i - 1) % N # s
  BY <1>1, StoreBehind
<1>3. /\ Stored \in Nat /\ FirstSlot \in Slots
      /\ Queued \in Seq(Fill) /\ Len(Queued) = Stored
      /\ \A i \in 1 .. Stored : /\ (FirstSlot + i - 1) % N \in Slots
                                /\ Queued[i] = m_data[(FirstSlot + i - 1) % N]
  BY QueuedValue DEF QueuedIs
<1>4. FirstSlot' = FirstSlot
  BY <1>1 DEF FirstSlot
<1>5. Stored' = Stored + 1
  BY <1>1 DEF Stored, One, TypeOK
<1>6. /\ Queued' \in Seq(Fill) /\ Len(Queued') = Stored + 1
      /\ \A i \in 1 .. Stored + 1 : Queued'[i] = m_data'[(FirstSlot + i - 1) % N]
  <2>1. QueuedIs'
    BY QueuedValue, PTL
  <2> QED
    BY <1>4, <1>5, <2>1 DEF QueuedIs, Fill
<1>7. s \in Slots /\ m_data \in [Slots -> Fill] /\ v \in Fill
  BY TwoThreads DEF TypeOK, Fill
<1> HIDE DEF s, v
<1>8. /\ Append(Queued, v) \in Seq(Fill) /\ Len(Append(Queued, v)) = Stored + 1
      /\ \A i \in 1 .. Stored : Append(Queued, v)[i] = Queued[i]
      /\ Append(Queued, v)[Stored + 1] = v
  BY <1>3, <1>7, AppendProperties
<1>9. \A i \in 1 .. Stored : Queued'[i] = Queued[i]
  <2> TAKE i \in 1 .. Stored
  <2>1. PICK a \in Slots : a = (FirstSlot + i - 1) % N
    BY <1>3
  <2>2. a # s /\ Queued[i] = m_data[a] /\ i \in 1 .. Stored + 1
    BY <1>2, <1>3, <2>1
  <2>3. m_data'[a] = m_data[a]
    BY <1>1, <1>7, <2>2
  <2> QED
    BY <1>6, <2>1, <2>2, <2>3
<1>10. Queued'[Stored + 1] = v
  <2>1. Stored + 1 \in 1 .. Stored + 1 /\ FirstSlot + (Stored + 1) - 1 = FirstSlot + Stored
    BY <1>3, QueueAssumption DEF Slots
  <2>2. Queued'[Stored + 1] = m_data'[s]
    BY <1>2, <1>6, <2>1
  <2> QED
    BY <1>1, <1>7, <2>2
<1>11. Queued' = Append(Queued, v)
  <2>1. \A i \in 1 .. Stored + 1 : Queued'[i] = Append(Queued, v)[i]
    BY <1>3, <1>8, <1>9, <1>10
  <2> QED
    BY <1>6, <1>8, <2>1, SeqEqual
<1> QED
  BY <1>1, <1>2, <1>3, <1>11 DEF Fifo!Put, v

\* An item leaves the queue when it is loaded.
LEMMA ReadGets ==
  ASSUME SinglePair, TypeOK, TypeOK', Aligned, ReadSlot(Consumer)
  PROVE  Fifo!Get
<1> DEFINE p == Producer
           c == Consumer
           s == slot[c]
           t == m_tail % N
<1>1. /\ pc[c] = "read" /\ pc'[c] = "free" /\ pc'[p] = pc[p]
      /\ item'[c] = m_data[s]
      /\ UNCHANGED <<m_tail, m_data, m_sem_empty, slot>>
  BY TwoThreads DEF ReadSlot, Goto, TypeOK, shared
<1>2. /\ s \in Slots /\ s \in Int /\ m_tail \in Int /\ t \in Int
      /\ Div(m_tail - 1 - s) /\ Div(m_tail - t)
  BY <1>1, AlignedMeaning, DivReduce, TwoThreads DEF TypeOK
<1>3. FirstSlot = s /\ FirstSlot' = t
  BY <1>1 DEF FirstSlot
<1>4. Stored' = Stored - 1 /\ Stored \in Nat \ {0}
  BY <1>1 DEF Stored, One, TypeOK
<1>5. /\ Queued \in Seq(Fill) /\ Len(Queued) = Stored
      /\ \A i \in 1 .. Stored : Queued[i] = m_data[(s + i - 1) % N]
  BY <1>3, QueuedValue DEF QueuedIs
<1>6. /\ Queued' \in Seq(Fill) /\ Len(Queued') = Stored - 1
      /\ \A i \in 1 .. Stored - 1 : Queued'[i] = m_data[(t + i - 1) % N]
  <2>1. QueuedIs'
    BY QueuedValue, PTL
  <2> QED
    BY <1>1, <1>3, <1>4, <2>1 DEF QueuedIs, Fill
<1> HIDE DEF s, t
<1>7. \A i \in 1 .. Stored - 1 : (t + i - 1) % N = (s + (i + 1) - 1) % N
  <2> TAKE i \in 1 .. Stored - 1
  <2>1. PICK x \in Int : x = t + i - 1
    BY <1>2, <1>4
  <2>2. PICK y \in Int : y = s + (i + 1) - 1
    BY <1>2, <1>4
  <2>3. Div((m_tail - 1 - s) - (m_tail - t))
    <3>1. m_tail - 1 - s \in Int /\ m_tail - t \in Int
      BY <1>2
    <3> QED
      BY <1>2, <3>1, DivSum
  <2>4. (m_tail - 1 - s) - (m_tail - t) = x - y
    BY <1>2, <1>4, <2>1, <2>2
  <2>5. x % N = y % N
    BY <2>3, <2>4, SameRemainder
  <2> QED
    BY <2>1, <2>2, <2>5
<1>8. /\ Queued # <<>> /\ Head(Queued) = Queued[1]
      /\ Tail(Queued) \in Seq(Fill) /\ Len(Tail(Queued)) = Stored - 1
      /\ \A i \in 1 .. Stored - 1 : Tail(Queued)[i] = Queued[i + 1]
  BY <1>4, <1>5, HeadTailProperties
<1>9. \A i \in 1 .. Stored - 1 : Queued'[i] = Tail(Queued)[i]
  <2> TAKE i \in 1 .. Stored - 1
  <2>1. i + 1 \in 1 .. Stored
    BY <1>4
  <2>2. Queued[i + 1] = m_data[(s + (i + 1) - 1) % N]
    BY <1>5, <2>1
  <2> QED
    BY <1>6, <1>7, <1>8, <2>2
<1>10. Queued' = Tail(Queued)
  BY <1>4, <1>6, <1>8, <1>9, SeqEqual
<1>11. Queued[1] = m_data[s]
  <2>1. 1 \in 1 .. Stored /\ s + 1 - 1 = s
    BY <1>2, <1>4
  <2>2. s % N = s
    BY <1>2, QueueAssumption DEF Slots
  <2> QED
    BY <1>5, <2>1, <2>2
<1> QED
  BY <1>1, <1>8, <1>10, <1>11 DEF Fifo!Get

\* The other steps move permits, slots and counters about and queue nothing.
LEMMA OthersStutter ==
  ASSUME SinglePair, TypeOK, [Next]_vars, ~WriteSlot(Producer), ~ReadSlot(Consumer)
  PROVE  UNCHANGED Fifo!vars
<1> DEFINE p == Producer
           c == Consumer
<1>1. /\ pc \in [Threads -> ProducerPC \cup ConsumerPC] /\ item \in [Threads -> Fill]
      /\ slot \in [Threads -> Slots] /\ m_sem_empty \in Nat /\ m_tail \in Int
      /\ p \in Threads /\ c \in Threads /\ p # c
  BY TwoThreads DEF TypeOK, UInt, Fill
<1>2. SUFFICES Stored' = Stored /\ FirstSlot' = FirstSlot /\ m_data' = m_data /\ item'[c] = item[c]
  BY DEF Fifo!vars, Queued
<1> USE DEF Goto, shared
<1>3. CASE \/ AcquireFull(p) \/ ClaimHead(p) \/ ReleaseEmpty(p)
           \/ \E i \in Items : Push(p, i) \/ TryPush(p, i)
  <2>1. /\ UNCHANGED <<m_tail, m_data>> /\ slot'[c] = slot[c] /\ pc'[c] = pc[c]
        /\ item'[c] = item[c]
    BY <1>1, <1>3 DEF AcquireFull, ClaimHead, ReleaseEmpty, Push, TryPush
  <2>2. Stored' = Stored
    BY <1>1, <1>3, <2>1
    DEF AcquireFull, ClaimHead, ReleaseEmpty, Push, TryPush, Stored, One
  <2> QED
    BY <2>1, <2>2 DEF FirstSlot
<1>4. CASE ClaimTail(c)
  <2>1. /\ pc[c] = "take" /\ pc'[c] = "read" /\ pc'[p] = pc[p] /\ slot'[c] = m_tail % N
        /\ UNCHANGED <<m_data, m_sem_empty, item>>
    BY <1>1, <1>4 DEF ClaimTail
  <2> QED
    BY <1>1, <2>1 DEF FirstSlot, Stored, One
<1>5. CASE AcquireEmpty(c) \/ ReleaseFull(c) \/ LoadTail(c) \/ LoadHead(c)
             \/ CasHead(c) \/ Post(c)
  <2>1. /\ UNCHANGED <<m_tail, m_data, slot, item>> /\ pc'[p] = pc[p]
        /\ pc[c] # "read" /\ pc'[c] # "read"
    BY <1>1, <1>5 DEF AcquireEmpty, ReleaseFull, LoadTail, LoadHead, CasHead, Post
  <2>2. Stored' = Stored
    BY <1>1, <1>5, <2>1
    DEF AcquireEmpty, ReleaseFull, LoadTail, LoadHead, CasHead, Post, Stored, One
  <2> QED
    BY <2>1, <2>2 DEF FirstSlot
<1>6. CASE CasTail(c)
  <2>1. /\ pc[c] = "casTail" /\ pc'[c] = "loadHead" /\ pc'[p] = pc[p]
        /\ m_tail' = m_tail \/ m_tail' = m_tail % N
        /\ UNCHANGED <<m_data, m_sem_empty, item>>
    BY <1>1, <1>6 DEF CasTail
  <2>2. PICK r \in 0 .. N - 1 : r = m_tail % N
    BY <1>1, QueueAssumption
  <2>3. r % N = r
    BY QueueAssumption
  <2> QED
    BY <1>1, <2>1, <2>2, <2>3 DEF FirstSlot, Stored, One
<1>7. CASE UNCHANGED vars
  BY <1>7 DEF vars, local, Stored, FirstSlot
<1> QED
  BY <1>3, <1>4, <1>5, <1>6, <1>7, TwoThreads DEF Next, Call, PushStep, PopStep

\* From its call to its store the producer holds an item.
ItemInHand == pc[Producer] \in {"acquire", "claim", "write"} => item[Producer] \in Items

LEMMA ItemInHandStep ==
  ASSUME SinglePair, TypeOK, ItemInHand, [Next]_vars
  PROVE  ItemInHand'
<1> DEFINE p == Producer
           c == Consumer
<1>1. /\ pc \in [Threads -> ProducerPC \cup ConsumerPC] /\ item \in [Threads -> Fill]
      /\ p \in Threads /\ c \in Threads /\ p # c
  BY TwoThreads DEF TypeOK, Fill
<1> USE DEF Goto, shared, ItemInHand
<1>2. ASSUME NEW i \in Items, Push(p, i) \/ TryPush(p, i) PROVE ItemInHand'
  BY <1>1, <1>2 DEF Push, TryPush
<1>3. CASE PushStep(p)
  BY <1>1, <1>3 DEF PushStep, AcquireFull, ClaimHead, WriteSlot, ReleaseEmpty
<1>4. CASE PopStep(c)
  <2>1. pc'[p] = pc[p] /\ item'[p] = item[p]
    BY <1>1, <1>4
    DEF PopStep, AcquireEmpty, ClaimTail, ReadSlot, ReleaseFull, LoadTail, CasTail,
        LoadHead, CasHead, Post
  <2> QED
    BY <2>1
<1>5. CASE UNCHANGED vars
  BY <1>5 DEF vars, local
<1> QED
  BY <1>2, <1>3, <1>4, <1>5, TwoThreads DEF Next, Call

\* With one pushing and one popping thread, N dividing the range of the counters
\* and pop releasing m_sem_full once, the store of push is a Put, the load of pop
\* a Get, and every other step, the compare-exchanges included, changes nothing a
\* caller can see: a first-in first-out queue of N items, for every N.
THEOREM SPSCRefines ==
  ASSUME SinglePair PROVE PostPermits = 0 /\ Spec => ImplementsFifo
<1>1. Init => Fifo!Init /\ ItemInHand
  <2> SUFFICES ASSUME Init PROVE Fifo!Init /\ ItemInHand
    OBVIOUS
  <2>1. pc[Producer] = "idle" /\ pc[Consumer] = "idle" /\ item[Consumer] = NoItem
    BY TwoThreads DEF Init
  <2>2. Stored = 0
    BY <2>1 DEF Init, Stored, One
  <2>3. Queued = <<>>
    BY <2>2 DEF Queued
  <2> QED
    BY <2>1, <2>3 DEF Fifo!Init, ItemInHand
<1>2. TypeOK /\ ItemInHand /\ [Next]_vars => ItemInHand'
  BY ItemInHandStep
<1>3. TypeOK /\ TypeOK' /\ PermitsConserved /\ Aligned /\ ItemInHand /\ [Next]_vars
        => [Fifo!Next]_(Fifo!vars)
  <2> SUFFICES ASSUME TypeOK, TypeOK', PermitsConserved, Aligned, ItemInHand, [Next]_vars
               PROVE  [Fifo!Next]_(Fifo!vars)
    OBVIOUS
  <2>1. CASE WriteSlot(Producer)
    <3>1. item[Producer] \in Items
      BY <2>1 DEF WriteSlot, Goto, ItemInHand
    <3> QED
      BY <2>1, <3>1, WritePuts DEF Fifo!Next
  <2>2. CASE ReadSlot(Consumer)
    BY <2>2, ReadGets DEF Fifo!Next
  <2> QED
    BY <2>1, <2>2, OthersStutter
<1> QED
  BY <1>1, <1>2, <1>3, TypeCorrect, PermitsTheorem, AlignedTheorem, PTL
  DEF Spec, ImplementsFifo, Fifo!Spec
=============================================================================
