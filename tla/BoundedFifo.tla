---------------------------- MODULE BoundedFifo ----------------------------
(***************************************************************************)
(* What every queue of the repository promises: a first-in first-out       *)
(* sequence of at most Capacity items.  The queues with a body of their    *)
(* own (CircularQueue, DeclareFifo) are shown to implement this one.       *)
(***************************************************************************)
EXTENDS Naturals, Sequences

CONSTANTS Capacity,  \* the most items the queue may hold
          Item,      \* what may be queued
          NoItem     \* nothing has been taken yet

VARIABLES q,         \* the queued items, oldest first
          got        \* the item most recently taken out

vars == <<q, got>>

Init == q = <<>> /\ got = NoItem

Put(i) ==
  /\ Len(q) < Capacity
  /\ q' = Append(q, i)
  /\ UNCHANGED got

Get ==
  /\ q # <<>>
  /\ got' = Head(q)
  /\ q' = Tail(q)

Next == Get \/ \E i \in Item : Put(i)

Spec == Init /\ [][Next]_vars
=============================================================================
