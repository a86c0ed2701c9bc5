--------------------------- MODULE CircularQueue ---------------------------
(***************************************************************************)
(* cjunk/practice/circularqueue.cc: CircularQueue<T, N>, a queue of N      *)
(* slots shared by threads without a lock.  Two counting semaphores count  *)
(* the free and the filled slots; the unsigned counters m_head and m_tail  *)
(* say which slot comes next.  Every access to shared memory is a step of  *)
(* its own: push and try_push are acquire, m_head++, store, release; pop   *)
(* is acquire, m_tail++, load, release, then a load and a compare-exchange *)
(* on each counter, then the final post.                                   *)
(*                                                                         *)
(* A try_push that returns false changes nothing and is a stuttering step. *)
(***************************************************************************)
EXTENDS Integers, FiniteSets

CONSTANTS
  Producers,    \* threads that push
  Consumers,    \* threads that pop
  Items,        \* values that are pushed
  NoItem,       \* a slot, or a variable, that was never written
  N,            \* number of slots
  UIntMod,      \* unsigned arithmetic is modulo this (2^32)
  PostPermits   \* permits m_sem_full.post() adds: std::counting_semaphore has
                \* no post, so 0 drops the call and 1 reads it as sem_post

ASSUME QueueAssumption ==
  /\ IsFiniteSet(Producers) /\ IsFiniteSet(Consumers)
  /\ Producers \cap Consumers = {}
  /\ N \in Nat \ {0}
  /\ UIntMod \in Nat /\ UIntMod > N
  /\ PostPermits \in {0, 1}
  /\ NoItem \notin Items

VARIABLES
  m_head, m_tail, m_data, m_sem_empty, m_sem_full,
  pc,           \* where each thread is
  item,         \* the item a thread pushes, or popped last
  slot,         \* the slot a thread claimed
  expected      \* the counter value a popping thread loaded

shared == <<m_head, m_tail, m_data, m_sem_empty, m_sem_full>>
local == <<pc, item, slot, expected>>
vars == <<shared, local>>

Threads == Producers \cup Consumers
Slots == 0 .. N - 1
UInt == 0 .. UIntMod - 1

ProducerPC == {"idle", "acquire", "claim", "write", "publish"}
ConsumerPC == {"idle", "take", "read", "free", "loadTail", "casTail",
               "loadHead", "casHead", "post"}

Init ==
  /\ m_head = 0 /\ m_tail = 0
  /\ m_data = [s \in Slots |-> NoItem]
  /\ m_sem_empty = 0 /\ m_sem_full = N
  /\ pc = [t \in Threads |-> "idle"]
  /\ item = [t \in Threads |-> NoItem]
  /\ slot = [t \in Threads |-> 0]
  /\ expected = [t \in Consumers |-> 0]

Goto(t, from, to) ==
  /\ pc[t] = from
  /\ pc' = [pc EXCEPT ![t] = to]

-----------------------------------------------------------------------------
(* push and try_push *)

\* push is called with i and reaches its acquire.
Push(p, i) ==
  /\ Goto(p, "idle", "acquire")
  /\ item' = [item EXCEPT ![p] = i]
  /\ UNCHANGED <<shared, slot, expected>>

AcquireFull(p) ==
  /\ Goto(p, "acquire", "claim")
  /\ m_sem_full > 0
  /\ m_sem_full' = m_sem_full - 1
  /\ UNCHANGED <<m_head, m_tail, m_data, m_sem_empty, item, slot, expected>>

\* try_push is called with i and its try_acquire succeeds.
TryPush(p, i) ==
  /\ Goto(p, "idle", "claim")
  /\ m_sem_full > 0
  /\ m_sem_full' = m_sem_full - 1
  /\ item' = [item EXCEPT ![p] = i]
  /\ UNCHANGED <<m_head, m_tail, m_data, m_sem_empty, slot, expected>>

\* m_head++ % N
ClaimHead(p) ==
  /\ Goto(p, "claim", "write")
  /\ slot' = [slot EXCEPT ![p] = m_head % N]
  /\ m_head' = (m_head + 1) % UIntMod
  /\ UNCHANGED <<m_tail, m_data, m_sem_empty, m_sem_full, item, expected>>

WriteSlot(p) ==
  /\ Goto(p, "write", "publish")
  /\ m_data' = [m_data EXCEPT ![slot[p]] = item[p]]
  /\ UNCHANGED <<m_head, m_tail, m_sem_empty, m_sem_full, item, slot, expected>>

ReleaseEmpty(p) ==
  /\ Goto(p, "publish", "idle")
  /\ m_sem_empty' = m_sem_empty + 1
  /\ UNCHANGED <<m_head, m_tail, m_data, m_sem_full, item, slot, expected>>

-----------------------------------------------------------------------------
(* pop *)

\* pop is called and its acquire succeeds.
AcquireEmpty(c) ==
  /\ Goto(c, "idle", "take")
  /\ m_sem_empty > 0
  /\ m_sem_empty' = m_sem_empty - 1
  /\ UNCHANGED <<m_head, m_tail, m_data, m_sem_full, item, slot, expected>>

\* Slip: ++m_tail for m_tail++.
ClaimTailPreIncrement(c) ==
  /\ Goto(c, "take", "read")
  /\ slot' = [slot EXCEPT ![c] = (m_tail + 1) % N]
  /\ m_tail' = (m_tail + 1) % UIntMod
  /\ UNCHANGED <<m_head, m_data, m_sem_empty, m_sem_full, item, expected>>

\* m_tail++ % N
ClaimTail(c) ==
  /\ Goto(c, "take", "read")
  /\ slot' = [slot EXCEPT ![c] = m_tail % N]
  /\ m_tail' = (m_tail + 1) % UIntMod
  /\ UNCHANGED <<m_head, m_data, m_sem_empty, m_sem_full, item, expected>>

ReadSlot(c) ==
  /\ Goto(c, "read", "free")
  /\ item' = [item EXCEPT ![c] = m_data[slot[c]]]
  /\ UNCHANGED <<shared, slot, expected>>

\* Slip: pop forgets to give the slot back.
ReleaseFullForgotten(c) ==
  /\ Goto(c, "free", "loadTail")
  /\ UNCHANGED <<shared, item, slot, expected>>

ReleaseFull(c) ==
  /\ Goto(c, "free", "loadTail")
  /\ m_sem_full' = m_sem_full + 1
  /\ UNCHANGED <<m_head, m_tail, m_data, m_sem_empty, item, slot, expected>>

LoadTail(c) ==
  /\ Goto(c, "loadTail", "casTail")
  /\ expected' = [expected EXCEPT ![c] = m_tail]
  /\ UNCHANGED <<shared, item, slot>>

\* The compare-exchange stores expected % N only if m_tail is unchanged.
CasTail(c) ==
  /\ Goto(c, "casTail", "loadHead")
  /\ m_tail' = IF m_tail = expected[c] THEN expected[c] % N ELSE m_tail
  /\ UNCHANGED <<m_head, m_data, m_sem_empty, m_sem_full, item, slot, expected>>

LoadHead(c) ==
  /\ Goto(c, "loadHead", "casHead")
  /\ expected' = [expected EXCEPT ![c] = m_head]
  /\ UNCHANGED <<shared, item, slot>>

\* Slip: m_head is stored without the comparison.
CasHeadUnconditional(c) ==
  /\ Goto(c, "casHead", "post")
  /\ m_head' = expected[c] % N
  /\ UNCHANGED <<m_tail, m_data, m_sem_empty, m_sem_full, item, slot, expected>>

CasHead(c) ==
  /\ Goto(c, "casHead", "post")
  /\ m_head' = IF m_head = expected[c] THEN expected[c] % N ELSE m_head
  /\ UNCHANGED <<m_tail, m_data, m_sem_empty, m_sem_full, item, slot, expected>>

\* Slip: post releases a second permit.
PostAgain(c) ==
  /\ Goto(c, "post", "idle")
  /\ m_sem_full' = m_sem_full + 1
  /\ UNCHANGED <<m_head, m_tail, m_data, m_sem_empty, item, slot, expected>>

\* The final post, and the return.
Post(c) ==
  /\ Goto(c, "post", "idle")
  /\ m_sem_full' = m_sem_full + PostPermits
  /\ UNCHANGED <<m_head, m_tail, m_data, m_sem_empty, item, slot, expected>>

-----------------------------------------------------------------------------
PushStep(p) ==
  \/ AcquireFull(p) \/ ClaimHead(p) \/ WriteSlot(p) \/ ReleaseEmpty(p)

PopStep(c) ==
  \/ AcquireEmpty(c) \/ ClaimTail(c) \/ ReadSlot(c) \/ ReleaseFull(c)
  \/ LoadTail(c) \/ CasTail(c) \/ LoadHead(c) \/ CasHead(c) \/ Post(c)

Call(p) == \E i \in Items : Push(p, i) \/ TryPush(p, i)

Next ==
  \/ \E p \in Producers : Call(p) \/ PushStep(p)
  \/ \E c \in Consumers : PopStep(c)

Spec == Init /\ [][Next]_vars

\* The scheduler runs every thread that can run, and every consumer keeps
\* calling pop.  Nobody is obliged to push.
Fairness ==
  /\ \A p \in Producers : WF_vars(PushStep(p))
  /\ \A c \in Consumers : WF_vars(PopStep(c))

FairSpec == Spec /\ Fairness

-----------------------------------------------------------------------------
\* Counters are unsigned ints, every slot index lies in the array, and every thread
\* is at a step of push, try_push or pop.
TypeOK ==
  /\ m_head \in UInt /\ m_tail \in UInt
  /\ m_data \in [Slots -> Items \cup {NoItem}]
  /\ m_sem_empty \in Nat /\ m_sem_full \in Nat
  /\ pc \in [Threads -> ProducerPC \cup ConsumerPC]
  /\ \A p \in Producers : pc[p] \in ProducerPC
  /\ \A c \in Consumers : pc[c] \in ConsumerPC
  /\ item \in [Threads -> Items \cup {NoItem}]
  /\ slot \in [Threads -> Slots]
  /\ expected \in [Consumers -> UInt]

\* The threads that acquired a permit of one semaphore and have not yet
\* released one to the other.
Holders ==
  {t \in Threads : pc[t] \in {"claim", "write", "publish", "take", "read", "free"}}

\* A permit is never lost or made: every slot is free, filled, or in the hands
\* of one thread that is inside push, try_push or pop.
PermitsConserved ==
  m_sem_full + m_sem_empty + Cardinality(Holders) = N

\* The queue never holds more than N items (the doc of the parameter N).
CapacityRespected == m_sem_empty <= N

\* No producer is storing to the slot that a consumer is loading from: the
\* plain accesses to m_data are ordered by the semaphores alone.
NoSlotRace ==
  \A p \in Producers, c \in Consumers :
    pc[p] = "write" /\ pc[c] = "read" => slot[p] # slot[c]

\* A push that waits for a free slot gets one.
PushReturns == \A p \in Producers : pc[p] = "acquire" ~> pc[p] = "idle"
=============================================================================
