------------------------- MODULE CircularQueueSPSC -------------------------
(***************************************************************************)
(* CircularQueue with one pushing and one popping thread, the use in which *)
(* the two semaphores do order every access to a slot.  Here it implements *)
(* BoundedFifo: an item enters when it is stored into its slot and leaves  *)
(* when it is loaded from it.                                              *)
(***************************************************************************)
EXTENDS CircularQueue, Sequences

\* One thread pushes and one pops, and N divides the range of the counters, so a
\* counter that wraps around stays on the same slot.
SinglePair ==
  /\ \E p \in Producers : Producers = {p}
  /\ \E c \in Consumers : Consumers = {c}
  /\ UIntMod % N = 0

Producer == CHOOSE p \in Producers : TRUE
Consumer == CHOOSE c \in Consumers : TRUE

One(b) == IF b THEN 1 ELSE 0

\* Slots that the producer claimed and the consumer did not yet claim.
Claimed ==
  m_sem_empty + One(pc[Producer] \in {"write", "publish"})
              + One(pc[Consumer] = "take")

\* The counters agree with the semaphores, modulo N, whatever the
\* compare-exchanges and the wrap-around did to them; a thread that holds a
\* slot holds the one it claimed last.
Aligned ==
  /\ (m_head - m_tail - Claimed) % N = 0
  /\ pc[Producer] = "write" => (m_head - 1 - slot[Producer]) % N = 0
  /\ pc[Consumer] = "read" => (m_tail - 1 - slot[Consumer]) % N = 0

-----------------------------------------------------------------------------
(* Refinement *)

Stored ==
  m_sem_empty + One(pc[Producer] = "publish")
              + One(pc[Consumer] \in {"take", "read"})

FirstSlot == IF pc[Consumer] = "read" THEN slot[Consumer] ELSE m_tail % N

Queued == [i \in 1 .. Stored |-> m_data[(FirstSlot + i - 1) % N]]

Fifo == INSTANCE BoundedFifo WITH
  Capacity <- N, Item <- Items, q <- Queued, got <- item[Consumer]

\* Items come out of pop in the order in which push and try_push stored them,
\* each once, none invented, and never more than N are in the queue.
ImplementsFifo == Fifo!Spec
=============================================================================
