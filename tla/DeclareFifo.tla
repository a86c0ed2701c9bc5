---------------------------- MODULE DeclareFifo ----------------------------
(***************************************************************************)
(* cjunk/ringBuffer.h: the fifo that DeclareFifo(T, N) generates.  It has  *)
(* no count of its own: head = tail means empty, so one of the N places is *)
(* never used and the capacity is N - 1.                                   *)
(***************************************************************************)
EXTENDS Integers, Sequences

CONSTANTS N, Values, NoValue

ASSUME FifoAssumption == N \in Nat \ {0} /\ NoValue \notin Values

VARIABLES
  head, tail, data,
  output,   \* where the caller of pop finds the value
  status    \* what the last push or pop returned

vars == <<head, tail, data, output, status>>

Places == 0 .. N - 1

\* The remainder of C, which has the sign of the dividend.
Rem(a, n) == IF a >= 0 THEN a % n ELSE -((-a) % n)

isEmpty == head = tail

\* Slip: the addition that makes a negative remainder positive is left out.
sizeSigned == Rem(head - tail, N)

size == Rem(Rem(head - tail, N) + N, N)

Init ==
  /\ head = 0 /\ tail = 0
  /\ data \in [Places -> {NoValue}]
  /\ output = NoValue /\ status = "SUCCESS"

push(v) ==
  /\ IF N <= size + 1
     THEN status' = "FAILURE" /\ UNCHANGED <<data, head>>
     ELSE /\ data' = [data EXCEPT ![head] = v]
          /\ head' = Rem(head + 1, N)
          /\ status' = "SUCCESS"
  /\ UNCHANGED <<tail, output>>

pop ==
  /\ IF isEmpty
     THEN status' = "FAILURE" /\ UNCHANGED <<output, tail>>
     ELSE /\ output' = data[tail]
          /\ tail' = Rem(tail + 1, N)
          /\ status' = "SUCCESS"
  /\ UNCHANGED <<head, data>>

Next == pop \/ \E v \in Values : push(v)

Spec == Init /\ [][Next]_vars

-----------------------------------------------------------------------------
\* head and tail always index the array.
TypeOK ==
  /\ head \in Places /\ tail \in Places
  /\ data \in [Places -> Values \cup {NoValue}]
  /\ output \in Values \cup {NoValue}
  /\ status \in {"SUCCESS", "FAILURE"}

Queued == [i \in 1 .. size |-> data[(tail + i - 1) % N]]

Fifo == INSTANCE BoundedFifo WITH
  Capacity <- N - 1, Item <- Values, NoItem <- NoValue, q <- Queued, got <- output

\* push and pop together are a first-in first-out queue of N - 1 values:
\* nothing is lost, repeated or reordered when head and tail wrap around.
ImplementsFifo == Fifo!Spec

=============================================================================
